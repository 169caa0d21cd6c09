------------------------ MODULE ProviderCallsProofs -------------------------
(***************************************************************************)
(* The circuit breaker, for any number of callers, any thresholds, windows *)
(* and cooldowns: one caller probes a provider that is out unless a probe  *)
(* was overtaken, and a circuit opens behind a streak of failures.         *)
(***************************************************************************)
EXTENDS ProviderCalls, TLAPS

Keys == [failures : 0..FailureThreshold, failuresUntil : 0..(MaxSeconds + 1),
         openedAt : 0..MaxSeconds, openUntil : 0..(MaxSeconds + 1),
         probeUntil : 0..(MaxSeconds + 1)]
CallStates == [pc : {"idle", "probing", "sending", "opening"}, attempt : 1..MaxTries,
               probe : BOOLEAN, started : 0..MaxSeconds, stale : BOOLEAN]

CallsTypes ==
    /\ seconds \in 0..MaxSeconds
    /\ breaker \in Keys
    /\ asking \in [Requesters -> CallStates]
    /\ streak \in 0..FailureThreshold
    /\ undercut \in BOOLEAN
    /\ \A c \in Requesters : asking[c].pc = "probing" => ~asking[c].probe
    /\ \A c \in Requesters : asking[c].pc = "idle" => ~asking[c].probe /\ ~asking[c].stale

\* The open key was deleted, or set again, after the second t.
ClearedSince(t) == breaker.openUntil = 0 \/ breaker.openedAt >= t

\* While a probe is in flight its key holds, or a cooldown has passed, or the keys
\* were deleted since.
ProbeHeld(c) ==
    /\ asking[c].started <= seconds
    /\ \/ seconds - asking[c].started >= Cooldown
       \/ breaker.probeUntil >= Min2(asking[c].started + Cooldown, MaxSeconds + 1)
       \/ ClearedSince(asking[c].started)

\* Who is on the way to the probe found the circuit half-open, and it is as it was.
FoundHalfOpen(c) == breaker.openUntil # 0 /\ seconds - breaker.openedAt >= Cooldown

ProbesKept ==
    \A c \in Requesters :
        /\ Probing(c) => ProbeHeld(c)
        /\ asking[c].pc = "probing" /\ ~asking[c].stale => FoundHalfOpen(c)

\* What is counted, about to be opened or open is behind the streak.
StreakKept ==
    /\ breaker.failures <= streak
    /\ breaker.openedAt <= seconds
    /\ undercut \/ (\A c \in Requesters : asking[c].pc = "opening" => streak >= FailureThreshold)
    /\ undercut \/ (breaker.openUntil # 0 => streak >= FailureThreshold)

CallsIInv == CallsTypes /\ ProbesKept /\ StreakKept /\ OneProbeUnlessStale

LEMMA CallsInitially == ProviderCallsInit => CallsIInv
<1> SUFFICES ASSUME ProviderCallsInit PROVE CallsIInv
  OBVIOUS
<1> USE ProviderCallsAssumption
<1>1. Closed \in Keys /\ Closed.failures = 0 /\ Closed.openedAt = 0 /\ Closed.openUntil = 0
  BY DEF Closed, Keys
<1>2. NoCall \in CallStates /\ NoCall.pc = "idle" /\ ~NoCall.probe /\ ~NoCall.stale
  BY DEF NoCall, CallStates
<1>4. 0 \in 0..MaxSeconds /\ 0 \in 0..FailureThreshold /\ FALSE \in BOOLEAN
  OBVIOUS
<1> HIDE DEF NoCall, Closed
<1>3. CallsTypes
  BY <1>1, <1>2, <1>4 DEF ProviderCallsInit, CallsTypes
<1> QED
  <2>1. \A c \in Requesters : asking[c] = NoCall
    BY DEF ProviderCallsInit
  <2>2. StreakKept
    BY <1>1, <1>2, <2>1 DEF ProviderCallsInit, StreakKept
  <2> QED
    BY <1>2, <1>3, <2>1, <2>2 DEF CallsIInv, ProbesKept, Probing, OneProbeUnlessStale

\* Call c goes on as r: a probe is what it was.
Continues(c, r) ==
    /\ r \in CallStates /\ r.pc # "probing"
    /\ r.pc = "idle" => ~r.probe /\ ~r.stale
    /\ r.probe => asking[c].probe /\ r.started = asking[c].started /\ r.stale = asking[c].stale

LEMMA NoCallContinues == \A c \in Requesters : Continues(c, NoCall)
<1>1. NoCall \in CallStates
  BY ProviderCallsAssumption DEF NoCall, CallStates
<1> QED
  BY <1>1 DEF Continues, NoCall

LEMMA RetriedContinues ==
    ASSUME CallsTypes, NEW c \in Requesters, asking[c].pc # "idle", NEW retryable \in BOOLEAN
    PROVE  Continues(c, Retried(c, retryable))
<1>1. CASE retryable /\ asking[c].attempt < MaxTries
  <2> DEFINE n == asking[c].attempt + 1
             r == [asking[c] EXCEPT !.pc = "sending", !.attempt = n]
  <2>1. asking[c] \in CallStates /\ n \in 1..MaxTries
    BY <1>1, ProviderCallsAssumption DEF CallsTypes, CallStates
  <2>2. Retried(c, retryable) = r
    BY <1>1 DEF Retried
  <2> HIDE DEF n
  <2>3. /\ r \in CallStates /\ r.pc = "sending"
        /\ r.probe = asking[c].probe /\ r.started = asking[c].started /\ r.stale = asking[c].stale
    BY <2>1 DEF CallStates
  <2> QED
    BY <2>2, <2>3 DEF Continues
<1>2. CASE ~(retryable /\ asking[c].attempt < MaxTries)
  BY <1>2, NoCallContinues DEF Retried
<1> QED
  BY <1>1, <1>2

LEMMA GotoContinues ==
    ASSUME CallsTypes, NEW c \in Requesters, NEW pc \in {"sending", "opening"}
    PROVE  Continues(c, [asking[c] EXCEPT !.pc = pc])
<1> DEFINE r == [asking[c] EXCEPT !.pc = pc]
<1>1. /\ r \in CallStates /\ r.pc = pc
      /\ r.probe = asking[c].probe /\ r.started = asking[c].started /\ r.stale = asking[c].stale
  BY DEF CallsTypes, CallStates
<1> QED
  BY <1>1 DEF Continues

\* A step of one call that leaves the open key and the probe key as they are.
LEMMA CallTurns ==
    ASSUME CallsIInv, NEW c \in Requesters, NEW r, Continues(c, r),
           asking' = [asking EXCEPT ![c] = r],
           UNCHANGED <<seconds, undercut>>,
           breaker' \in Keys, breaker'.openedAt = breaker.openedAt,
           breaker'.openUntil = breaker.openUntil, breaker'.probeUntil = breaker.probeUntil,
           breaker'.failures <= streak',
           streak' \in 0..FailureThreshold, streak <= streak',
           r.pc = "opening" => asking[c].pc = "opening" \/ streak' >= FailureThreshold
    PROVE  CallsIInv'
<1> USE ProviderCallsAssumption DEF CallsIInv
<1>1. CallsTypes'
  BY DEF CallsTypes, Continues
<1>2. asking'[c] = r /\ \A d \in Requesters \ {c} : asking'[d] = asking[d]
  BY DEF CallsTypes
<1>3. \A d \in Requesters : Probing(d)' =>
         Probing(d) /\ asking'[d].started = asking[d].started /\ asking'[d].stale = asking[d].stale
  BY <1>2 DEF Probing, Continues, CallsTypes
<1>4. ProbesKept'
  <2>1. \A d \in Requesters : Probing(d)' => ProbeHeld(d)'
    BY <1>3 DEF ProbesKept, ProbeHeld, ClearedSince
  <2>2. \A d \in Requesters : asking'[d].pc = "probing" => d # c
    BY <1>2 DEF Continues
  <2> QED
    BY <1>2, <2>1, <2>2 DEF ProbesKept, FoundHalfOpen
<1>5. StreakKept'
  <2>1. \A n \in 0..FailureThreshold, m \in 0..FailureThreshold : n >= FailureThreshold /\ n <= m => m >= FailureThreshold
    OBVIOUS
  <2>2. streak >= FailureThreshold => streak' >= FailureThreshold
    BY <2>1 DEF CallsTypes
  <2> QED
    BY <1>2, <2>2 DEF StreakKept
<1>6. OneProbeUnlessStale'
  BY <1>3 DEF OneProbeUnlessStale, FarApart
<1> QED
  BY <1>1, <1>4, <1>5, <1>6

\* The other calls, when the keys are deleted or are not.
LEMMA OthersRekeyed ==
    ASSUME CallsTypes, NEW c \in Requesters, NEW r, NEW deleted \in BOOLEAN, Rekeyed(c, r, deleted)
    PROVE  /\ asking'[c] = r /\ DOMAIN asking' = Requesters /\ asking' = [d \in Requesters |-> asking'[d]]
           /\ \A d \in Requesters \ {c} :
                /\ asking'[d] \in CallStates
                /\ asking'[d].pc = asking[d].pc /\ asking'[d].probe = asking[d].probe
                /\ asking'[d].started = asking[d].started
                /\ asking'[d].stale <=> asking[d].stale \/ (deleted /\ asking[d].pc = "probing")
                /\ ~deleted => asking'[d] = asking[d]
<1> DEFINE stale(d) == asking[d].stale \/ (deleted /\ asking[d].pc = "probing")
           other(d) == [asking[d] EXCEPT !.stale = stale(d)]
<1>1. asking' = [d \in Requesters |-> IF d = c THEN r ELSE other(d)]
  BY DEF Rekeyed
<1>2. ASSUME NEW d \in Requesters
      PROVE  /\ other(d) \in CallStates
             /\ other(d).pc = asking[d].pc /\ other(d).probe = asking[d].probe
             /\ other(d).started = asking[d].started
             /\ other(d).stale = stale(d)
             /\ ~deleted => other(d) = asking[d]
  <2>1. asking[d] \in CallStates /\ stale(d) \in BOOLEAN /\ asking[d].stale \in BOOLEAN
    BY DEF CallsTypes, CallStates
  <2>2. ~deleted => stale(d) = asking[d].stale
    BY <2>1
  <2> HIDE DEF stale
  <2> QED
    BY <2>1, <2>2 DEF CallStates
<1> HIDE DEF other
<1>3. asking'[c] = r /\ \A d \in Requesters \ {c} : asking'[d] = other(d)
  BY <1>1
<1>4. DOMAIN asking' = Requesters /\ asking' = [d \in Requesters |-> asking'[d]]
  BY <1>1
<1> QED
  BY <1>2, <1>3, <1>4, ZenonT(60)

\* A step of one call that deletes the probe key, and deletes or sets the open key.
LEMMA CallClears ==
    ASSUME CallsIInv, NEW c \in Requesters, NEW r, Continues(c, r), Rekeyed(c, r, TRUE),
           UNCHANGED seconds, r.pc # "opening",
           breaker' \in Keys, breaker'.openUntil = 0 \/ breaker'.openedAt = seconds,
           breaker'.openedAt <= seconds, breaker'.failures <= streak',
           streak' \in 0..FailureThreshold, undercut' \in BOOLEAN,
           undercut' \/ (breaker'.openUntil # 0 => streak' >= FailureThreshold),
           undercut' \/ (\A d \in Requesters \ {c} : asking[d].pc = "opening" => streak' >= FailureThreshold)
    PROVE  CallsIInv'
<1> USE ProviderCallsAssumption DEF CallsIInv
<1>0. /\ asking'[c] = r /\ DOMAIN asking' = Requesters /\ asking' = [d \in Requesters |-> asking'[d]]
      /\ \A d \in Requesters \ {c} :
           /\ asking'[d] \in CallStates
           /\ asking'[d].pc = asking[d].pc /\ asking'[d].probe = asking[d].probe
           /\ asking'[d].started = asking[d].started
           /\ asking'[d].stale <=> asking[d].stale \/ asking[d].pc = "probing"
  BY OthersRekeyed, ZenonT(60)
<1>1. CallsTypes'
  <2>1. \A d \in Requesters : asking'[d] \in CallStates
    BY <1>0 DEF Continues
  <2>2. asking' \in [Requesters -> CallStates]
    BY <1>0, <2>1
  <2>3. \A d \in Requesters :
          /\ asking'[d].pc = "probing" => ~asking'[d].probe
          /\ asking'[d].pc = "idle" => ~asking'[d].probe /\ ~asking'[d].stale
    BY <1>0 DEF Continues, CallsTypes
  <2> QED
    BY <2>2, <2>3 DEF CallsTypes
<1>2. \A d \in Requesters : Probing(d)' =>
         Probing(d) /\ asking'[d].started = asking[d].started /\ (asking[d].stale => asking'[d].stale)
  BY <1>0 DEF Probing, Continues, CallsTypes
<1>3. ProbesKept'
  <2>1. ASSUME NEW d \in Requesters, Probing(d)' PROVE ProbeHeld(d)'
    <3>1. asking'[d].started <= seconds
      BY <1>2, <2>1 DEF ProbesKept, ProbeHeld
    <3>2. ClearedSince(asking[d].started)'
      BY <1>2, <2>1, <3>1 DEF ClearedSince
    <3> QED
      BY <1>2, <2>1, <3>1, <3>2 DEF ProbeHeld, ClearedSince
  <2>2. \A d \in Requesters : asking'[d].pc = "probing" => asking'[d].stale
    BY <1>0 DEF Continues
  <2> QED
    BY <2>1, <2>2 DEF ProbesKept
<1>4. StreakKept'
  BY <1>0 DEF StreakKept
<1>5. OneProbeUnlessStale'
  BY <1>2 DEF OneProbeUnlessStale, FarApart
<1> QED
  BY <1>1, <1>3, <1>4, <1>5

LEMMA ExpiresLater ==
    ASSUME CallsTypes, NEW ttl \in Nat
    PROVE  /\ Expires(ttl) \in 0..(MaxSeconds + 1)
           /\ \A t \in 0..MaxSeconds : t <= seconds => Expires(ttl) >= Min2(t + ttl, MaxSeconds + 1)
  BY ProviderCallsAssumption DEF CallsTypes, Expires, Min2

LEMMA TickKeeps == CallsIInv /\ TickSecond => CallsIInv'
<1> SUFFICES ASSUME CallsIInv, TickSecond PROVE CallsIInv'
  OBVIOUS
<1> USE ProviderCallsAssumption DEF CallsIInv
<1>1. seconds' \in 0..MaxSeconds /\ seconds' = seconds + 1 /\ seconds \in 0..MaxSeconds
  BY DEF TickSecond, CallsTypes
<1>2. UNCHANGED <<breaker, asking, streak, undercut>>
  BY DEF TickSecond
<1>3. CallsTypes'
  BY <1>1, <1>2 DEF CallsTypes
<1>4. \A t \in 0..MaxSeconds :
        /\ t <= seconds => t <= seconds'
        /\ seconds - t >= Cooldown => seconds' - t >= Cooldown
  BY <1>1
<1>5. breaker.openedAt \in 0..MaxSeconds /\ \A c \in Requesters : asking[c].started \in 0..MaxSeconds
  BY DEF CallsTypes, Keys, CallStates
<1>6. ProbesKept'
  BY <1>2, <1>4, <1>5 DEF ProbesKept, ProbeHeld, ClearedSince, FoundHalfOpen, Probing
<1> QED
  BY <1>2, <1>3, <1>4, <1>5, <1>6 DEF StreakKept, OneProbeUnlessStale, FarApart, Probing

\* The circuit was found half-open: the probe is asked for next.
LEMMA CheckKeeps ==
    ASSUME CallsIInv, NEW c \in Requesters, NEW up \in BOOLEAN, Check(c, up)
    PROVE  CallsIInv'
<1> USE ProviderCallsAssumption DEF CallsIInv
<1>1. UNCHANGED <<seconds, breaker, streak, undercut>> /\ asking[c].pc = "idle"
  BY DEF Check
<1>2. CASE ~(up /\ State = "half_open")
  <2> DEFINE r == [asking[c] EXCEPT !.pc = "sending"]
  <2>1. asking' = [asking EXCEPT ![c] = r]
    BY <1>2 DEF Check, CallAt
  <2>2. Continues(c, r) /\ r.pc = "sending"
    <3>1. r.pc = "sending"
      BY DEF CallsTypes, CallStates
    <3>2. "sending" \in {"sending", "opening"}
      OBVIOUS
    <3> QED
      BY <3>1, <3>2, GotoContinues
  <2> HIDE DEF r
  <2>3. breaker.failures <= streak /\ streak \in 0..FailureThreshold /\ streak <= streak
    BY DEF CallsTypes, StreakKept
  <2> QED
    BY <1>1, <2>1, <2>2, <2>3, CallTurns DEF CallsTypes
<1>3. CASE up /\ State = "half_open"
  <2> DEFINE r == [asking[c] EXCEPT !.pc = "probing"]
  <2>1. asking' = [asking EXCEPT ![c] = r]
    BY <1>3 DEF Check, CallAt
  <2>2. r \in CallStates /\ r.pc = "probing" /\ ~r.probe
    BY <1>1 DEF CallsTypes, CallStates
  <2> HIDE DEF r
  <2>3. FoundHalfOpen(c)
    <3>1. seconds \in 0..MaxSeconds /\ breaker.openUntil \in 0..(MaxSeconds + 1)
      BY DEF CallsTypes, Keys
    <3>2. ~(breaker.openUntil <= seconds) /\ seconds - breaker.openedAt >= Cooldown
      BY <1>3 DEF State
    <3> QED
      BY <3>1, <3>2 DEF FoundHalfOpen
  <2>4. asking'[c] = r /\ \A d \in Requesters \ {c} : asking'[d] = asking[d]
    BY <2>1 DEF CallsTypes
  <2>5. CallsTypes'
    BY <1>1, <2>1, <2>2 DEF CallsTypes
  <2>6. \A d \in Requesters : Probing(d)' => d # c /\ Probing(d)
    BY <2>2, <2>4 DEF Probing
  <2>7. ProbesKept'
    BY <1>1, <2>3, <2>4, <2>6 DEF ProbesKept, ProbeHeld, ClearedSince, FoundHalfOpen
  <2>8. StreakKept'
    BY <1>1, <2>2, <2>4 DEF StreakKept
  <2> QED
    BY <2>4, <2>5, <2>6, <2>7, <2>8 DEF OneProbeUnlessStale, FarApart
<1> QED
  BY <1>2, <1>3

LEMMA ProbeAdmitted ==
    ASSUME CallsIInv, NEW c \in Requesters, AdmitProbe(c, TRUE), ~(breaker.probeUntil > seconds)
    PROVE  CallsIInv'
<1> USE ProviderCallsAssumption DEF CallsIInv
<1> DEFINE r == [asking[c] EXCEPT !.pc = "sending", !.probe = TRUE, !.started = seconds]
           until == Expires(Cooldown)
           keys == [breaker EXCEPT !.probeUntil = until]
<1>1. /\ UNCHANGED <<seconds, streak, undercut>> /\ asking[c].pc = "probing"
      /\ asking' = [asking EXCEPT ![c] = r] /\ breaker' = keys
  BY DEF AdmitProbe
<1>2. /\ r \in CallStates /\ r.pc = "sending" /\ r.probe /\ r.started = seconds
      /\ r.stale = asking[c].stale
  BY DEF CallsTypes, CallStates
<1>3. /\ until \in 0..(MaxSeconds + 1)
      /\ \A t \in 0..MaxSeconds : t <= seconds => until >= Min2(t + Cooldown, MaxSeconds + 1)
  BY ExpiresLater
<1> HIDE DEF r, until
<1>4. /\ keys \in Keys /\ keys.openedAt = breaker.openedAt /\ keys.openUntil = breaker.openUntil
      /\ keys.probeUntil = until /\ keys.failures = breaker.failures
  BY <1>3 DEF CallsTypes, Keys
<1> HIDE DEF keys
<1>5. /\ asking'[c] = r /\ \A d \in Requesters \ {c} : asking'[d] = asking[d]
      /\ seconds \in 0..MaxSeconds /\ \A d \in Requesters : asking[d].started \in 0..MaxSeconds
  BY <1>1 DEF CallsTypes, CallStates
<1>6. CallsTypes'
  BY <1>1, <1>2, <1>4 DEF CallsTypes
<1>7. ProbesKept'
  <2>1. ASSUME NEW d \in Requesters, Probing(d)' PROVE ProbeHeld(d)'
    <3>1. asking'[d].started <= seconds /\ asking'[d].started \in 0..MaxSeconds
      BY <1>2, <1>5, <2>1 DEF ProbesKept, ProbeHeld, Probing
    <3>2. until >= Min2(asking'[d].started + Cooldown, MaxSeconds + 1)
      BY <1>3, <3>1
    <3> QED
      BY <1>1, <1>4, <3>1, <3>2 DEF ProbeHeld
  <2>2. \A d \in Requesters : asking'[d].pc = "probing" => d # c
    BY <1>2, <1>5
  <2> QED
    BY <1>1, <1>4, <1>5, <2>1, <2>2 DEF ProbesKept, FoundHalfOpen
<1>8. StreakKept'
  BY <1>1, <1>2, <1>4, <1>5 DEF StreakKept
<1>9. ASSUME NEW d \in Requesters \ {c}, Probing(d), ~asking[c].stale
      PROVE  seconds - asking[d].started >= Cooldown
  <2>1. breaker.openUntil # 0 /\ seconds - breaker.openedAt >= Cooldown
    BY <1>1, <1>9 DEF ProbesKept, FoundHalfOpen
  <2>2. breaker.openedAt \in 0..MaxSeconds /\ breaker.probeUntil \in 0..(MaxSeconds + 1)
    BY DEF CallsTypes, Keys
  <2>3. CASE breaker.probeUntil >= Min2(asking[d].started + Cooldown, MaxSeconds + 1)
    BY <1>5, <2>2, <2>3 DEF Min2
  <2>4. CASE ClearedSince(asking[d].started)
    BY <1>5, <2>1, <2>2, <2>4 DEF ClearedSince
  <2> QED
    BY <1>9, <2>3, <2>4 DEF ProbesKept, ProbeHeld
<1>10. OneProbeUnlessStale'
  <2> SUFFICES ASSUME NEW d \in Requesters, NEW e \in Requesters, d # e, Probing(d)', Probing(e)',
                      ~asking'[d].stale, ~asking'[e].stale
               PROVE  FarApart(d, e)'
    BY DEF OneProbeUnlessStale
  <2>1. CASE d # c /\ e # c
    BY <1>5, <2>1 DEF OneProbeUnlessStale, FarApart, Probing
  <2>2. CASE d = c
    <3>1. Probing(e) /\ ~asking[c].stale /\ e \in Requesters \ {c}
      BY <1>2, <1>5, <2>2 DEF Probing
    <3> QED
      BY <1>2, <1>5, <1>9, <2>2, <3>1 DEF FarApart
  <2>3. CASE e = c
    <3>1. Probing(d) /\ ~asking[c].stale /\ d \in Requesters \ {c}
      BY <1>2, <1>5, <2>3 DEF Probing
    <3> QED
      BY <1>2, <1>5, <1>9, <2>3, <3>1 DEF FarApart
  <2> QED
    BY <2>1, <2>2, <2>3
<1> QED
  BY <1>6, <1>7, <1>8, <1>10

LEMMA SucceedsKeeps ==
    ASSUME CallsIInv, NEW c \in Requesters, NEW up \in BOOLEAN, Succeeds(c, up)
    PROVE  CallsIInv'
<1> USE ProviderCallsAssumption DEF CallsIInv
<1>1. Continues(c, NoCall) /\ NoCall.pc = "idle"
  BY NoCallContinues DEF NoCall
<1> HIDE DEF NoCall
<1>2. CASE up
  <2>1. /\ breaker' = Closed /\ streak' = 0 /\ UNCHANGED seconds /\ Rekeyed(c, NoCall, TRUE)
        /\ undercut' = (undercut \/ \E d \in Requesters : asking[d].pc = "opening")
    BY <1>2 DEF Succeeds
  <2>2. Closed \in Keys /\ Closed.openUntil = 0 /\ Closed.openedAt = 0 /\ Closed.failures = 0
    BY DEF Closed, Keys
  <2> HIDE DEF Closed
  <2>3. undercut' \in BOOLEAN
    BY <2>1
  <2>4. undercut' \/ \A d \in Requesters \ {c} : asking[d].pc # "opening"
    BY <2>1
  <2>5. 0 \in 0..FailureThreshold /\ 0 <= seconds /\ 0 <= 0
    BY DEF CallsTypes
  <2> QED
    BY <1>1, <2>1, <2>2, <2>3, <2>4, <2>5, CallClears
<1>3. CASE ~up
  <2>1. /\ UNCHANGED <<breaker, streak, seconds>> /\ Rekeyed(c, NoCall, FALSE)
        /\ undercut' = (undercut \/ FALSE)
    BY <1>3 DEF Succeeds
  <2>2. undercut' = undercut
    <3>1. undercut \in BOOLEAN
      BY DEF CallsTypes
    <3> QED
      BY <2>1, <3>1, Zenon
  <2>3. asking' = [asking EXCEPT ![c] = NoCall]
    <3>1. /\ asking'[c] = NoCall /\ asking' = [d \in Requesters |-> asking'[d]]
          /\ \A d \in Requesters \ {c} : asking'[d] = asking[d]
      BY <2>1, OthersRekeyed, ZenonT(60)
    <3>2. asking \in [Requesters -> CallStates]
      BY DEF CallsTypes
    <3> QED
      BY <3>1, <3>2
  <2>4. breaker.failures <= streak /\ streak \in 0..FailureThreshold /\ streak <= streak
    BY DEF CallsTypes, StreakKept
  <2> QED
    BY <1>1, <2>1, <2>2, <2>3, <2>4, CallTurns DEF CallsTypes
<1> QED
  BY <1>2, <1>3

LEMMA OpenCircuitKeeps ==
    ASSUME CallsIInv, NEW c \in Requesters, NEW up \in BOOLEAN, NEW retryable \in BOOLEAN,
           OpenCircuit(c, up, retryable)
    PROVE  CallsIInv'
<1> USE ProviderCallsAssumption DEF CallsIInv
<1> DEFINE r == Retried(c, retryable)
<1>1. /\ asking[c].pc = "opening" /\ UNCHANGED <<seconds, streak, undercut>> /\ Rekeyed(c, r, up)
      /\ undercut \/ streak >= FailureThreshold
  BY DEF OpenCircuit, StreakKept
<1>2. Continues(c, r) /\ r.pc # "opening"
  <2>1. r.pc # "opening"
    BY DEF Retried, NoCall, CallsTypes, CallStates
  <2> QED
    BY <1>1, <2>1, RetriedContinues
<1> HIDE DEF r
<1>3. CASE up
  <2> DEFINE until == Expires(4 * Cooldown)
             keys == [breaker EXCEPT !.openedAt = seconds, !.openUntil = until, !.probeUntil = 0]
  <2>1. until \in 0..(MaxSeconds + 1)
    <3>1. 4 * Cooldown \in Nat
      OBVIOUS
    <3> QED
      BY <3>1, ExpiresLater
  <2>2. breaker' = keys
    BY <1>3 DEF OpenCircuit
  <2> HIDE DEF until
  <2>3. keys \in Keys /\ keys.openedAt = seconds /\ keys.failures = breaker.failures
    <3>1. breaker \in Keys /\ seconds \in 0..MaxSeconds /\ 0 \in 0..(MaxSeconds + 1)
      BY DEF CallsTypes
    <3> QED
      BY <2>1, <3>1 DEF Keys
  <2> HIDE DEF keys
  <2>4. seconds <= seconds /\ breaker.failures <= streak /\ streak \in 0..FailureThreshold
    BY DEF CallsTypes, StreakKept
  <2> QED
    BY <1>1, <1>2, <1>3, <2>2, <2>3, <2>4, CallClears DEF CallsTypes
<1>4. CASE ~up
  <2>1. UNCHANGED breaker
    BY <1>4 DEF OpenCircuit
  <2>2. asking' = [asking EXCEPT ![c] = r]
    BY <1>1, <1>4, OthersRekeyed DEF CallsTypes
  <2>3. breaker.failures <= streak /\ streak \in 0..FailureThreshold /\ streak <= streak
    BY DEF CallsTypes, StreakKept
  <2> QED
    BY <1>1, <1>2, <2>1, <2>2, <2>3, CallTurns DEF CallsTypes
<1> QED
  BY <1>3, <1>4

LEMMA CountFailureKeeps ==
    ASSUME CallsIInv, NEW c \in Requesters, NEW up \in BOOLEAN, NEW retryable \in BOOLEAN,
           CountFailure(c, up, retryable)
    PROVE  CallsIInv'
<1> USE ProviderCallsAssumption DEF CallsIInv
<1> DEFINE failures == IF breaker.failuresUntil > seconds
                       THEN Min2(breaker.failures + 1, FailureThreshold) ELSE 1
           next == Min2(streak + 1, FailureThreshold)
           until == Expires(Window)
           keys == [breaker EXCEPT !.failures = failures, !.failuresUntil = until]
           opening == [asking[c] EXCEPT !.pc = "opening"]
           retried == Retried(c, retryable)
<1>1. asking[c].pc = "sending" /\ UNCHANGED <<seconds, undercut>>
  BY DEF CountFailure
<1>2. Continues(c, retried) /\ retried.pc # "opening"
  <2>1. retried.pc # "opening"
    BY DEF Retried, NoCall, CallsTypes, CallStates
  <2> QED
    BY <1>1, <2>1, RetriedContinues
<1>3. CASE ~up
  <2>1. asking' = [asking EXCEPT ![c] = retried] /\ UNCHANGED <<breaker, streak>>
    BY <1>3 DEF CountFailure, Retries
  <2>2. breaker.failures <= streak /\ streak \in 0..FailureThreshold /\ streak <= streak
    BY DEF CallsTypes, StreakKept
  <2> HIDE DEF retried
  <2> QED
    BY <1>1, <1>2, <2>1, <2>2, CallTurns DEF CallsTypes
<1>4. CASE up
  <2>1. /\ failures \in 0..FailureThreshold /\ next \in 0..FailureThreshold
        /\ failures <= next /\ streak <= next
    <3>1. breaker.failures \in 0..FailureThreshold /\ streak \in 0..FailureThreshold /\ breaker.failures <= streak
      BY DEF CallsTypes, Keys, StreakKept
    <3> QED
      BY <3>1 DEF Min2
  <2>2. until \in 0..(MaxSeconds + 1)
    BY ExpiresLater
  <2>3. /\ breaker' = keys /\ streak' = next
        /\ IF failures >= FailureThreshold THEN asking' = [asking EXCEPT ![c] = opening]
           ELSE asking' = [asking EXCEPT ![c] = retried]
    BY <1>4 DEF CountFailure, Retries, CallAt
  <2> HIDE DEF failures, next, until, retried
  <2>4. /\ keys \in Keys /\ keys.openedAt = breaker.openedAt
        /\ keys.openUntil = breaker.openUntil /\ keys.probeUntil = breaker.probeUntil
        /\ keys.failures = failures
    BY <2>1, <2>2 DEF CallsTypes, Keys
  <2> HIDE DEF keys
  <2>5. CASE failures >= FailureThreshold
    <3>1. Continues(c, opening)
      BY GotoContinues
    <3>2. next >= FailureThreshold
      BY <2>1, <2>5
    <3> HIDE DEF opening
    <3> QED
      BY <1>1, <2>1, <2>3, <2>4, <2>5, <3>1, <3>2, CallTurns
  <2>6. CASE ~(failures >= FailureThreshold)
    BY <1>1, <1>2, <2>1, <2>3, <2>4, <2>6, CallTurns
  <2> QED
    BY <2>5, <2>6
<1> QED
  BY <1>3, <1>4

LEMMA CallsInductive == CallsIInv /\ [ProviderCallsNext]_callVars => CallsIInv'
<1> SUFFICES ASSUME CallsIInv, [ProviderCallsNext]_callVars PROVE CallsIInv'
  OBVIOUS
<1> USE DEF CallsIInv
<1>1. ASSUME NEW c \in Requesters, Hangs(c), UNCHANGED <<seconds, breaker, streak, undercut>>
      PROVE  CallsIInv'
  <2>1. Continues(c, NoCall) /\ NoCall.pc = "idle"
    BY NoCallContinues DEF NoCall
  <2> HIDE DEF NoCall
  <2>2. breaker.failures <= streak /\ streak \in 0..FailureThreshold /\ streak <= streak
    BY DEF CallsTypes, StreakKept
  <2> QED
    BY <1>1, <2>1, <2>2, CallTurns DEF Hangs, CallsTypes
<1>2. ASSUME NEW c \in Requesters, NEW up \in BOOLEAN, AdmitProbe(c, up) PROVE CallsIInv'
  <2>1. CASE ~up
    <3> DEFINE r == [asking[c] EXCEPT !.pc = "sending"]
    <3>1. asking' = [asking EXCEPT ![c] = r] /\ UNCHANGED <<seconds, breaker, streak, undercut>>
      BY <1>2, <2>1 DEF AdmitProbe, CallAt
    <3>2. Continues(c, r)
      BY GotoContinues
    <3>3. r.pc = "sending"
      BY DEF CallsTypes, CallStates
    <3>4. breaker.failures <= streak /\ streak \in 0..FailureThreshold /\ streak <= streak
      BY DEF CallsTypes, StreakKept
    <3> HIDE DEF r
    <3> QED
      BY <3>1, <3>2, <3>3, <3>4, CallTurns DEF CallsTypes
  <2>2. CASE up /\ breaker.probeUntil > seconds
    BY <1>1, <1>2, <2>2 DEF AdmitProbe, Hangs
  <2>3. CASE up /\ ~(breaker.probeUntil > seconds)
    BY <1>2, <2>3, ProbeAdmitted
  <2> QED
    BY <2>1, <2>2, <2>3
<1>3. CASE UNCHANGED callVars
  BY <1>3 DEF callVars, CallsTypes, ProbesKept, ProbeHeld, ClearedSince, FoundHalfOpen, Probing,
     StreakKept, OneProbeUnlessStale, FarApart
<1> QED
  BY <1>1, <1>2, <1>3, TickKeeps, CheckKeeps, SucceedsKeeps, CountFailureKeeps, OpenCircuitKeeps
     DEF ProviderCallsNext, Refused, CallerDies

(* integrations/circuit.py: two probes are a cooldown apart unless one was  *)
(* let through on a state read before the keys were deleted, and only       *)
(* consecutive failures open the circuit, for any number of calls and any   *)
(* threshold, cooldown, window and number of attempts.                      *)
THEOREM CallsInvHolds == ProviderCallsSpec => []CallsInv
<1>1. CallsIInv => CallsInv
  <2> SUFFICES ASSUME CallsIInv PROVE ProviderCallsTypeOK /\ OpenedByAStreak
    BY DEF CallsInv, CallsIInv
  <2>1. ProviderCallsTypeOK
    BY DEF CallsIInv, CallsTypes, Keys, CallStates, ProviderCallsTypeOK
  <2>2. State # "closed" => breaker.openUntil # 0
    BY ProviderCallsAssumption DEF State, CallsIInv, CallsTypes, Keys
  <2> QED
    BY <2>1, <2>2 DEF CallsIInv, StreakKept, OpenedByAStreak
<1> QED
  BY <1>1, CallsInitially, CallsInductive, PTL DEF ProviderCallsSpec

=============================================================================
