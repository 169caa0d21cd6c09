----------------------------- MODULE OutputProofs ---------------------------
(***************************************************************************)
(* What leaves a run is what was found and what was asked, for any number  *)
(* of targets, lines, turns and attempts.                                  *)
(*                                                                         *)
(* Both components fold sequences.  A fold of the community modules is a   *)
(* function on the subsets of a domain, chosen to satisfy its equation:    *)
(* before anything can be said of one it must be shown that such a         *)
(* function exists (FoldTable), and then that it is computed element by    *)
(* element (the lemmas ...Unfolds).                                        *)
(***************************************************************************)
EXTENDS Outputs, SequenceTheorems, FiniteSetTheorems, WellFoundedInduction, TLAPS

-----------------------------------------------------------------------------
(* Numbers and folds                                                       *)

\* Of some rows one is the last.
LEMMA LastOfRows ==
    ASSUME NEW n \in Nat, NEW S \in SUBSET (1..n), S # {}
    PROVE  \E i \in S : \A j \in S : j <= i
<1> DEFINE Above == {i..n : i \in S}
           R == StrictSubsetOrdering(1..n)
<1>1. Above \subseteq FiniteSubsetsOf(1..n) /\ Above # {}
  <2>1. FiniteSubsetsOf(1..n) = SUBSET (1..n)
    <3>1. IsFiniteSet(1..n)
      BY FS_Interval
    <3> QED
      BY <3>1, FS_FiniteSubsetsOfFinite
  <2>2. \A i \in S : i..n \in SUBSET (1..n)
    OBVIOUS
  <2>3. Above \subseteq SUBSET (1..n)
    BY <2>2
  <2>4. Above # {}
    OBVIOUS
  <2> HIDE DEF Above
  <2> QED
    BY <2>1, <2>3, <2>4
<1>2. PICK X \in Above : \A Y \in Above : ~(<<Y, X>> \in R)
  <2> HIDE DEF Above
  <2> QED
    BY <1>1, FS_StrictSubsetOrderingWellFounded, WFMin
<1>3. PICK i \in S : X = i..n
  OBVIOUS
<1>4. ASSUME NEW j \in S PROVE j <= i
  <2>1. ~(<<j..n, i..n>> \in R)
    BY <1>2, <1>3
  <2>2. j..n \subseteq 1..n /\ i..n \subseteq 1..n
    OBVIOUS
  <2>3. i < j => j..n \subseteq i..n /\ i \in i..n /\ i \notin j..n
    OBVIOUS
  <2> QED
    BY <2>1, <2>2, <2>3 DEF StrictSubsetOrdering
<1> QED
  BY <1>4

\* ... and one is the first.
LEMMA FirstOfRows ==
    ASSUME NEW n \in Nat, NEW S \in SUBSET (1..n), S # {}
    PROVE  \E i \in S : \A j \in S : i <= j
<1> DEFINE T == {k \in 1..n : (n + 1) - k \in S}
<1>1. PICK k \in T : \A j \in T : j <= k
  <2>1. PICK i \in S : TRUE
    OBVIOUS
  <2>2. (n + 1) - i \in 1..n /\ (n + 1) - ((n + 1) - i) = i
    OBVIOUS
  <2>3. T # {} /\ T \in SUBSET (1..n)
    BY <2>1, <2>2
  <2> HIDE DEF T
  <2> QED
    BY <2>3, LastOfRows
<1>2. ASSUME NEW j \in S PROVE (n + 1) - k <= j
  <2>1. (n + 1) - j \in 1..n /\ (n + 1) - ((n + 1) - j) = j
    OBVIOUS
  <2>2. (n + 1) - j <= k
    BY <1>1, <2>1
  <2> QED
    BY <1>1, <2>2
<1> QED
  BY <1>1, <1>2


\* What holds of 0 and passes from a number to the next holds of all.
LEMMA Upwards ==
    ASSUME NEW n \in Nat, NEW S, 0 \in S, \A i \in 0..(n - 1) : i \in S => i + 1 \in S
    PROVE  0..n \subseteq S
<1> DEFINE Bad == {i \in 1..n : i \notin S}
<1>1. SUFFICES Bad = {}
  <2> SUFFICES ASSUME Bad = {}, NEW i \in 0..n PROVE i \in S
    BY <1>1
  <2> QED
    OBVIOUS
<1>2. SUFFICES ASSUME Bad # {} PROVE FALSE
  OBVIOUS
<1>3. Bad \in SUBSET (1..n)
  OBVIOUS
<1> HIDE DEF Bad
<1>4. PICK m \in Bad : \A j \in Bad : m <= j
  BY <1>2, <1>3, FirstOfRows
<1>5. m \in 1..n /\ m \notin S
  BY DEF Bad
<1>6. m - 1 \in 0..(n - 1) /\ (m - 1) + 1 = m
  BY <1>5
<1>7. m - 1 \in S
  <2>1. CASE m = 1
    BY <2>1
  <2>2. CASE m # 1
    <3>1. m - 1 \in 1..n /\ ~(m <= m - 1)
      BY <1>5, <2>2
    <3> QED
      BY <1>4, <3>1 DEF Bad
  <2> QED
    BY <2>1, <2>2
<1> QED
  BY <1>5, <1>6, <1>7

\* The greatest and the least of some rows.
LEMMA Extremes ==
    ASSUME NEW n \in Nat, NEW S \in SUBSET (1..n), S # {}
    PROVE  /\ Max(S) \in S /\ \A j \in S : j <= Max(S)
           /\ Min(S) \in S /\ \A j \in S : Min(S) <= j
<1>1. PICK i \in S : \A j \in S : j <= i
  BY LastOfRows
<1>2. \A j \in S : i >= j
  BY <1>1
<1>3. Max(S) \in S /\ \A j \in S : Max(S) >= j
  BY <1>2 DEF Max
<1>4. PICK k \in S : \A j \in S : k <= j
  BY FirstOfRows
<1>5. Min(S) \in S /\ \A j \in S : Min(S) <= j
  BY <1>4 DEF Min
<1> QED
  BY <1>3, <1>5

LEMMA GreatestIs ==
    ASSUME NEW n \in Nat, NEW S \in SUBSET (1..n), NEW i \in S, \A j \in S : j <= i
    PROVE  Max(S) = i
<1>1. S # {} /\ i \in 1..n
  OBVIOUS
<1>2. Max(S) \in S /\ Max(S) <= i /\ i <= Max(S)
  BY <1>1, Extremes
<1>3. Max(S) \in 1..n
  BY <1>2
<1> QED
  BY <1>1, <1>2, <1>3

LEMMA LeastIs ==
    ASSUME NEW n \in Nat, NEW S \in SUBSET (1..n), NEW i \in S, \A j \in S : i <= j
    PROVE  Min(S) = i
<1>1. S # {} /\ i \in 1..n
  OBVIOUS
<1>2. Min(S) \in S /\ Min(S) <= i /\ i <= Min(S)
  BY <1>1, Extremes
<1>3. Min(S) \in 1..n
  BY <1>2
<1> QED
  BY <1>1, <1>2, <1>3

\* A fold from the left over n elements, g being the folded operator as a table of
\* what it makes of an index and of the value so far: the library's equation over
\* sets of indices, and its values from one index to the next.
OverSets(it, n, base, g) ==
    it = [s \in SUBSET (1..n) |-> IF s = {} THEN base ELSE g[<<Max(s), it[s \ {Max(s)}]>>]]

StepByStep(h, n, base, g) ==
    h[0] = base /\ \A i \in 1..n : h[i] = g[<<i, h[i - 1]>>]

FollowsTable(F, n, D, base, g) ==
    /\ F[{}] = base
    /\ \A i \in 1..n : F[1..(i - 1)] \in D => F[1..i] = g[<<i, F[1..(i - 1)]>>]

Folded(result, n, D, base, g) ==
    \E h \in [0..n -> D] : StepByStep(h, n, base, g) /\ result = h[n]

\* The function behind a fold exists.
LEMMA FoldTable ==
    ASSUME NEW n \in Nat, NEW D, NEW base \in D, NEW g \in [(1..n) \X D -> D]
    PROVE  \E it \in [SUBSET (1..n) -> D] : OverSets(it, n, base, g)
<1> DEFINE Value(it, s) == IF s = {} THEN base ELSE g[<<Max(s), it[s \ {Max(s)}]>>]
           Computes(it, i) == it \in [SUBSET (1..i) -> D] /\ \A s \in SUBSET (1..i) : it[s] = Value(it, s)
           Reached == {i \in 0..n : \E it \in [SUBSET (1..i) -> D] : Computes(it, i)}
<1>1. 0 \in Reached
  <2> DEFINE it == [s \in SUBSET (1..0) |-> base]
  <2>1. \A s \in SUBSET (1..0) : s = {}
    OBVIOUS
  <2>2. it \in [SUBSET (1..0) -> D] /\ \A s \in SUBSET (1..0) : it[s] = base
    OBVIOUS
  <2> HIDE DEF it
  <2>3. Computes(it, 0)
    BY <2>1, <2>2
  <2>4. 0 \in 0..n
    OBVIOUS
  <2> HIDE DEF Value, Computes
  <2> QED
    BY <2>2, <2>3, <2>4
<1>2. ASSUME NEW i \in 0..(n - 1), i \in Reached PROVE i + 1 \in Reached
  <2>1. PICK old \in [SUBSET (1..i) -> D] : Computes(old, i)
    BY <1>2
  <2> DEFINE it == [s \in SUBSET (1..(i + 1)) |->
                       IF i + 1 \in s THEN g[<<i + 1, old[s \ {i + 1}]>>] ELSE old[s]]
  <2>2. \A s \in SUBSET (1..(i + 1)) : s \ {i + 1} \in SUBSET (1..i)
    OBVIOUS
  <2>3. \A s \in SUBSET (1..(i + 1)) : i + 1 \notin s => s \in SUBSET (1..i)
    OBVIOUS
  <2>4. it \in [SUBSET (1..(i + 1)) -> D]
    <3> SUFFICES ASSUME NEW s \in SUBSET (1..(i + 1))
                 PROVE  (IF i + 1 \in s THEN g[<<i + 1, old[s \ {i + 1}]>>] ELSE old[s]) \in D
      OBVIOUS
    <3>1. CASE i + 1 \in s
      <4>1. old[s \ {i + 1}] \in D /\ i + 1 \in 1..n
        BY <2>2
      <4> QED
        BY <3>1, <4>1
    <3>2. CASE i + 1 \notin s
      BY <2>3, <3>2
    <3> QED
      BY <3>1, <3>2
  <2>5. ASSUME NEW s \in SUBSET (1..(i + 1)) PROVE it[s] = Value(it, s)
    <3>1. CASE i + 1 \in s
      <4>1. Max(s) = i + 1
        <5>1. i + 1 \in Nat /\ \A j \in s : j <= i + 1
          OBVIOUS
        <5> QED
          BY <3>1, <5>1, GreatestIs
      <4>2. i + 1 \notin s \ {i + 1} /\ s \ {i + 1} \in SUBSET (1..(i + 1))
        OBVIOUS
      <4>3. it[s \ {i + 1}] = old[s \ {i + 1}]
        BY <4>2
      <4>4. it[s] = g[<<i + 1, old[s \ {i + 1}]>>]
        BY <3>1
      <4> QED
        BY <3>1, <4>1, <4>3, <4>4
    <3>2. CASE i + 1 \notin s
      <4>1. s \in SUBSET (1..i) /\ it[s] = old[s] /\ old[s] = Value(old, s)
        BY <2>1, <2>3, <3>2
      <4>2. it[s \ {Max(s)}] = old[s \ {Max(s)}]
        BY <3>2
      <4> QED
        BY <4>1, <4>2
    <3> QED
      BY <3>1, <3>2
  <2> HIDE DEF it, Value
  <2>6. Computes(it, i + 1)
    BY <2>4, <2>5
  <2>7. i + 1 \in 0..n
    OBVIOUS
  <2> QED
    BY <2>4, <2>6, <2>7
<1>3. n \in Reached
  <2> HIDE DEF Reached
  <2> QED
    BY <1>1, <1>2, Upwards
<1>4. PICK it \in [SUBSET (1..n) -> D] : \A s \in SUBSET (1..n) : it[s] = Value(it, s)
  BY <1>3
<1>5. it = [s \in SUBSET (1..n) |-> Value(it, s)]
  <2> HIDE DEF Value
  <2> QED
    BY <1>4
<1> QED
  BY <1>5 DEF OverSets

\* The sets of indices a fold passes through.
LEMMA IndexPrefixes ==
    ASSUME NEW n \in Nat, NEW i \in 1..n
    PROVE  /\ Max(1..i) = i /\ (1..i) \ {i} = 1..(i - 1)
           /\ 1..i \in SUBSET (1..n) /\ 1..i # {}
<1>1. i \in Nat /\ 1 <= i /\ i <= n /\ i \in 1..i
  OBVIOUS
<1>2. \A j \in 1..i : j <= i /\ j \in 1..n
  BY <1>1
<1>3. 1..i \in SUBSET (1..n)
  BY <1>2
<1>4. Max(1..i) = i
  BY <1>1, <1>2, <1>3, GreatestIs
<1>5. (1..i) \ {i} = 1..(i - 1)
  <2>1. \A j \in Int : (j \in 1..i /\ j # i) <=> j \in 1..(i - 1)
    BY <1>1
  <2> QED
    BY <2>1
<1> QED
  BY <1>1, <1>3, <1>4, <1>5

\* A function that follows the table from one index to the next is computed
\* element by element.
LEMMA FoldSteps ==
    ASSUME NEW n \in Nat, NEW D, NEW base \in D, NEW g \in [(1..n) \X D -> D],
           NEW F, FollowsTable(F, n, D, base, g)
    PROVE  Folded(F[1..n], n, D, base, g)
<1> DEFINE Typed == {i \in 0..n : F[1..i] \in D}
<1>1. 1..0 = {} /\ 0 \in 0..n /\ n \in 0..n
  OBVIOUS
<1>2. 0 \in Typed
  BY <1>1 DEF FollowsTable
<1>3. ASSUME NEW i \in 0..(n - 1), i \in Typed PROVE i + 1 \in Typed
  <2>1. i + 1 \in 1..n /\ (i + 1) - 1 = i /\ i + 1 \in 0..n
    OBVIOUS
  <2>2. F[1..(i + 1)] = g[<<i + 1, F[1..i]>>] /\ F[1..i] \in D
    BY <1>3, <2>1 DEF FollowsTable
  <2>3. <<i + 1, F[1..i]>> \in (1..n) \X D
    BY <2>1, <2>2
  <2> QED
    BY <2>1, <2>2, <2>3
<1>4. 0..n \subseteq Typed
  <2> HIDE DEF Typed
  <2> QED
    BY <1>2, <1>3, Upwards
<1> DEFINE h == [i \in 0..n |-> F[1..i]]
<1>5. h \in [0..n -> D]
  BY <1>4
<1>6. h[0] = base /\ F[1..n] = h[n]
  BY <1>1 DEF FollowsTable
<1>7. ASSUME NEW i \in 1..n PROVE h[i] = g[<<i, h[i - 1]>>]
  <2>1. i \in 0..n /\ i - 1 \in 0..n
    OBVIOUS
  <2> QED
    BY <1>4, <2>1 DEF FollowsTable
<1> HIDE DEF h
<1> QED
  BY <1>5, <1>6, <1>7 DEF StepByStep, Folded

\* The same for a fold from the right.
OverSetsDown(it, n, base, g) ==
    it = [s \in SUBSET (1..n) |-> IF s = {} THEN base ELSE g[<<Min(s), it[s \ {Min(s)}]>>]]

StepByStepDown(h, n, base, g) ==
    h[n + 1] = base /\ \A i \in 1..n : h[i] = g[<<i, h[i + 1]>>]

FollowsTableDown(F, n, D, base, g) ==
    /\ F[{}] = base
    /\ \A i \in 1..n : F[(i + 1)..n] \in D => F[i..n] = g[<<i, F[(i + 1)..n]>>]

FoldedDown(result, n, D, base, g) ==
    \E h \in [1..(n + 1) -> D] : StepByStepDown(h, n, base, g) /\ result = h[1]

LEMMA FoldTableDown ==
    ASSUME NEW n \in Nat, NEW D, NEW base \in D, NEW g \in [(1..n) \X D -> D]
    PROVE  \E it \in [SUBSET (1..n) -> D] : OverSetsDown(it, n, base, g)
<1> DEFINE Mirror(s) == {k \in 1..n : (n + 1) - k \in s}
           mg == [p \in (1..n) \X D |-> g[<<(n + 1) - p[1], p[2]>>]]
<1>1. /\ mg \in [(1..n) \X D -> D]
      /\ \A i \in 1..n, d \in D : mg[<<i, d>>] = g[<<(n + 1) - i, d>>]
  <2>1. \A i \in 1..n : (n + 1) - i \in 1..n
    OBVIOUS
  <2> QED
    BY <2>1
<1> HIDE DEF mg
<1>2. PICK it \in [SUBSET (1..n) -> D] : OverSets(it, n, base, mg)
  BY <1>1, FoldTable
<1>3. it[{}] = base /\ \A s \in SUBSET (1..n) : s # {} => it[s] = mg[<<Max(s), it[s \ {Max(s)}]>>]
  BY <1>2 DEF OverSets
<1> DEFINE down == [s \in SUBSET (1..n) |-> it[Mirror(s)]]
<1>4. \A s \in SUBSET (1..n) : Mirror(s) \in SUBSET (1..n)
  OBVIOUS
<1>5. down \in [SUBSET (1..n) -> D]
  BY <1>4
<1>6. ASSUME NEW s \in SUBSET (1..n), s # {}
      PROVE  down[s] = g[<<Min(s), down[s \ {Min(s)}]>>]
  <2>1. Min(s) \in s /\ Min(s) \in 1..n /\ \A j \in s : Min(s) <= j
    BY <1>6, Extremes
  <2> DEFINE m == Min(s)
             top == (n + 1) - m
  <2>2. m \in s /\ m \in 1..n /\ \A j \in s : m <= j
    BY <2>1
  <2> HIDE DEF m
  <2>3. top \in 1..n /\ (n + 1) - top = m
    BY <2>2
  <2>4. top \in Mirror(s)
    BY <2>2, <2>3
  <2>5. \A j \in Mirror(s) : j <= top
    BY <2>2
  <2>6. Max(Mirror(s)) = top
    <3> HIDE DEF Mirror, top
    <3> QED
      BY <1>4, <2>4, <2>5, GreatestIs
  <2>7. Mirror(s) \ {top} = Mirror(s \ {m})
    <3>1. \A k \in 1..n : (n + 1) - k = m <=> k = top
      BY <2>2
    <3> QED
      BY <3>1
  <2>8. s \ {m} \in SUBSET (1..n) /\ Mirror(s \ {m}) \in SUBSET (1..n)
    OBVIOUS
  <2> HIDE DEF top, Mirror
  <2>9. it[Mirror(s)] = mg[<<top, it[Mirror(s) \ {top}]>>]
    BY <1>3, <1>4, <2>4, <2>6
  <2>10. it[Mirror(s \ {m})] \in D
    BY <2>8
  <2>11. it[Mirror(s)] = g[<<m, it[Mirror(s \ {m})]>>]
    BY <1>1, <2>3, <2>7, <2>9, <2>10
  <2> QED
    BY <2>8, <2>11 DEF m
<1>7. down[{}] = base
  <2>1. Mirror({}) = {}
    OBVIOUS
  <2> QED
    BY <1>3, <2>1
<1>8. OverSetsDown(down, n, base, g)
  <2> DEFINE val == [s \in SUBSET (1..n) |-> IF s = {} THEN base ELSE g[<<Min(s), down[s \ {Min(s)}]>>]]
  <2>1. \A s \in SUBSET (1..n) : down[s] = val[s]
    <3> HIDE DEF down
    <3> QED
      BY <1>6, <1>7
  <2>2. down = val
    <3>1. DOMAIN down = SUBSET (1..n) /\ DOMAIN val = SUBSET (1..n)
      OBVIOUS
    <3> QED
      BY <2>1
  <2> HIDE DEF down
  <2> QED
    BY <2>2 DEF OverSetsDown
<1> HIDE DEF down
<1> QED
  BY <1>5, <1>8

LEMMA IndexSuffixes ==
    ASSUME NEW n \in Nat, NEW i \in 1..n
    PROVE  /\ Min(i..n) = i /\ (i..n) \ {i} = (i + 1)..n
           /\ i..n \in SUBSET (1..n) /\ i..n # {}
<1>1. i \in Nat /\ 1 <= i /\ i <= n /\ i \in i..n
  OBVIOUS
<1>2. \A j \in i..n : i <= j /\ j \in 1..n
  BY <1>1
<1>3. i..n \in SUBSET (1..n)
  BY <1>2
<1>4. Min(i..n) = i
  BY <1>1, <1>2, <1>3, LeastIs
<1>5. (i..n) \ {i} = (i + 1)..n
  <2>1. \A j \in Int : (j \in i..n /\ j # i) <=> j \in (i + 1)..n
    BY <1>1
  <2> QED
    BY <2>1
<1> QED
  BY <1>1, <1>3, <1>4, <1>5

LEMMA FoldStepsDown ==
    ASSUME NEW n \in Nat, NEW D, NEW base \in D, NEW g \in [(1..n) \X D -> D],
           NEW F, FollowsTableDown(F, n, D, base, g)
    PROVE  FoldedDown(F[1..n], n, D, base, g)
<1> DEFINE Typed == {i \in 0..n : F[((n + 1) - i)..n] \in D}
<1>1. (n + 1)..n = {} /\ 0 \in 0..n /\ n \in 0..n /\ (n + 1) - 0 = n + 1
  OBVIOUS
<1>2. 0 \in Typed
  BY <1>1 DEF FollowsTableDown
<1>3. ASSUME NEW i \in 0..(n - 1), i \in Typed PROVE i + 1 \in Typed
  <2> DEFINE j == (n + 1) - (i + 1)
  <2>1. j \in 1..n /\ (n + 1) - i = j + 1 /\ i + 1 \in 0..n
    OBVIOUS
  <2>2. F[(j + 1)..n] \in D
    BY <1>3, <2>1
  <2> HIDE DEF j
  <2>3. F[j..n] = g[<<j, F[(j + 1)..n]>>]
    BY <2>1, <2>2 DEF FollowsTableDown
  <2>4. <<j, F[(j + 1)..n]>> \in (1..n) \X D
    BY <2>1, <2>2
  <2>5. F[j..n] \in D
    BY <2>3, <2>4
  <2> QED
    BY <2>1, <2>5 DEF j
<1>4. 0..n \subseteq Typed
  <2> HIDE DEF Typed
  <2> QED
    BY <1>2, <1>3, Upwards
<1>5. ASSUME NEW i \in 1..(n + 1) PROVE F[i..n] \in D
  <2>1. (n + 1) - i \in 0..n /\ (n + 1) - ((n + 1) - i) = i
    OBVIOUS
  <2> QED
    BY <1>4, <2>1
<1> DEFINE h == [i \in 1..(n + 1) |-> F[i..n]]
<1>6. h \in [1..(n + 1) -> D]
  BY <1>5
<1>7. h[n + 1] = base /\ F[1..n] = h[1]
  BY <1>1 DEF FollowsTableDown
<1>8. ASSUME NEW i \in 1..n PROVE h[i] = g[<<i, h[i + 1]>>]
  <2>1. i \in 1..(n + 1) /\ i + 1 \in 1..(n + 1)
    OBVIOUS
  <2> QED
    BY <1>5, <2>1 DEF FollowsTableDown
<1> HIDE DEF h
<1> QED
  BY <1>6, <1>7, <1>8 DEF StepByStepDown, FoldedDown

\* Length(ms) is the sum of the sizes, from the first message on.
LEMMA LengthUnfolds ==
    ASSUME NEW ms \in Seq(Messages)
    PROVE  \E h \in [0..Len(ms) -> Nat] :
              /\ h[0] = 0
              /\ \A i \in 1..Len(ms) : h[i] = h[i - 1] + ms[i].size
              /\ Length(ms) = h[Len(ms)]
<1> DEFINE n == Len(ms)
           D == Nat
           base == 0
           Step(i, d) == d + ms[i].size
           g == [p \in (1..n) \X D |-> Step(p[1], p[2])]
           Table(F) == F = [s \in SUBSET (DOMAIN ms) |->
                               IF s = {} THEN base ELSE Step(Max(s), F[s \ {Max(s)}])]
           It == CHOOSE F : Table(F)
<1>1. n \in Nat /\ DOMAIN ms = 1..n /\ base \in D /\ \A i \in 1..n, d \in D : Step(i, d) \in D
  <2>1. \A i \in 1..Len(ms) : ms[i] \in Messages
    OBVIOUS
  <2> QED
    BY <2>1 DEF Messages
<1>2. /\ g \in [(1..n) \X D -> D]
      /\ \A i \in 1..n, d \in D : g[<<i, d>>] = Step(i, d)
  <2> HIDE DEF n, D, base, Step
  <2> QED
    BY <1>1
<1>3. Length(ms) = It[1..n]
  BY <1>1 DEF Length, FoldLeft, MapThenFoldSet
<1> HIDE DEF n, D, base, g, Step
<1>4. \E F : Table(F)
  <2>1. PICK F \in [SUBSET (1..n) -> D] : OverSets(F, n, base, g)
    BY <1>1, <1>2, FoldTable
  <2>2. ASSUME NEW s \in SUBSET (1..n), s # {}
        PROVE  g[<<Max(s), F[s \ {Max(s)}]>>] = Step(Max(s), F[s \ {Max(s)}])
    <3>1. Max(s) \in 1..n /\ F[s \ {Max(s)}] \in D
      BY <1>1, <2>2, Extremes
    <3> QED
      BY <1>2, <3>1
  <2>3. Table(F)
    BY <1>1, <2>1, <2>2 DEF OverSets
  <2> HIDE DEF Table
  <2> QED
    BY <2>3
<1>5. Table(It)
  <2> HIDE DEF Table
  <2> QED
    BY <1>4
<1> HIDE DEF It
<1>6. It[{}] = base
  BY <1>5
<1>7. FollowsTable(It, n, D, base, g)
  <2>1. ASSUME NEW i \in 1..n, It[1..(i - 1)] \in D PROVE It[1..i] = g[<<i, It[1..(i - 1)]>>]
    <3>1. /\ Max(1..i) = i /\ (1..i) \ {i} = 1..(i - 1)
          /\ 1..i \in SUBSET (1..n) /\ 1..i # {}
      BY <1>1, IndexPrefixes
    <3>2. It[1..i] = Step(i, It[1..(i - 1)])
      BY <1>1, <1>5, <3>1
    <3> QED
      BY <1>2, <2>1, <3>2
  <2> QED
    BY <1>6, <2>1 DEF FollowsTable
<1>8. PICK h \in [0..n -> D] : StepByStep(h, n, base, g) /\ It[1..n] = h[n]
  <2>1. n \in Nat /\ base \in D /\ g \in [(1..n) \X D -> D]
    BY <1>1, <1>2
  <2>2. Folded(It[1..n], n, D, base, g)
    BY <1>7, <2>1, FoldSteps
  <2> QED
    BY <2>2 DEF Folded
<1>9. ASSUME NEW i \in 1..n PROVE h[i] = Step(i, h[i - 1])
  <2>1. h[i - 1] \in D
    BY <1>1
  <2> QED
    BY <1>2, <1>8, <2>1 DEF StepByStep
<1> QED
  <2>1. h \in [0..Len(ms) -> Nat] /\ h[0] = 0 /\ Length(ms) = h[Len(ms)]
    BY <1>3, <1>8 DEF StepByStep, D, base, n
  <2>2. \A i \in 1..Len(ms) : h[i] = h[i - 1] + ms[i].size
    BY <1>9 DEF Step, n
  <2> QED
    BY <2>1, <2>2

\* OfRole(ms, roles) appends the messages of these roles, from the first on.
LEMMA OfRoleUnfolds ==
    ASSUME NEW ms \in Seq(Messages), NEW roles
    PROVE  \E h \in [0..Len(ms) -> Seq(Messages)] :
              /\ h[0] = <<>>
              /\ \A i \in 1..Len(ms) : h[i] = IF ms[i].role \in roles THEN Append(h[i - 1], ms[i]) ELSE h[i - 1]
              /\ OfRole(ms, roles) = h[Len(ms)]
<1> DEFINE n == Len(ms)
           D == Seq(Messages)
           base == <<>>
           Step(i, d) == IF ms[i].role \in roles THEN Append(d, ms[i]) ELSE d
           g == [p \in (1..n) \X D |-> Step(p[1], p[2])]
           Table(F) == F = [s \in SUBSET (DOMAIN ms) |->
                               IF s = {} THEN base ELSE Step(Max(s), F[s \ {Max(s)}])]
           It == CHOOSE F : Table(F)
<1>1. n \in Nat /\ DOMAIN ms = 1..n /\ base \in D /\ \A i \in 1..n, d \in D : Step(i, d) \in D
  <2>1. \A i \in 1..Len(ms) : ms[i] \in Messages
    OBVIOUS
  <2> QED
    BY <2>1
<1>2. /\ g \in [(1..n) \X D -> D]
      /\ \A i \in 1..n, d \in D : g[<<i, d>>] = Step(i, d)
  <2> HIDE DEF n, D, base, Step
  <2> QED
    BY <1>1
<1>3. OfRole(ms, roles) = It[1..n]
  BY <1>1 DEF OfRole, FoldLeft, MapThenFoldSet
<1> HIDE DEF n, D, base, g, Step
<1>4. \E F : Table(F)
  <2>1. PICK F \in [SUBSET (1..n) -> D] : OverSets(F, n, base, g)
    BY <1>1, <1>2, FoldTable
  <2>2. ASSUME NEW s \in SUBSET (1..n), s # {}
        PROVE  g[<<Max(s), F[s \ {Max(s)}]>>] = Step(Max(s), F[s \ {Max(s)}])
    <3>1. Max(s) \in 1..n /\ F[s \ {Max(s)}] \in D
      BY <1>1, <2>2, Extremes
    <3> QED
      BY <1>2, <3>1
  <2>3. Table(F)
    BY <1>1, <2>1, <2>2 DEF OverSets
  <2> HIDE DEF Table
  <2> QED
    BY <2>3
<1>5. Table(It)
  <2> HIDE DEF Table
  <2> QED
    BY <1>4
<1> HIDE DEF It
<1>6. It[{}] = base
  BY <1>5
<1>7. FollowsTable(It, n, D, base, g)
  <2>1. ASSUME NEW i \in 1..n, It[1..(i - 1)] \in D PROVE It[1..i] = g[<<i, It[1..(i - 1)]>>]
    <3>1. /\ Max(1..i) = i /\ (1..i) \ {i} = 1..(i - 1)
          /\ 1..i \in SUBSET (1..n) /\ 1..i # {}
      BY <1>1, IndexPrefixes
    <3>2. It[1..i] = Step(i, It[1..(i - 1)])
      BY <1>1, <1>5, <3>1
    <3> QED
      BY <1>2, <2>1, <3>2
  <2> QED
    BY <1>6, <2>1 DEF FollowsTable
<1>8. PICK h \in [0..n -> D] : StepByStep(h, n, base, g) /\ It[1..n] = h[n]
  <2>1. n \in Nat /\ base \in D /\ g \in [(1..n) \X D -> D]
    BY <1>1, <1>2
  <2>2. Folded(It[1..n], n, D, base, g)
    BY <1>7, <2>1, FoldSteps
  <2> QED
    BY <2>2 DEF Folded
<1>9. ASSUME NEW i \in 1..n PROVE h[i] = Step(i, h[i - 1])
  <2>1. h[i - 1] \in D
    BY <1>1
  <2> QED
    BY <1>2, <1>8, <2>1 DEF StepByStep
<1> QED
  <2>1. h \in [0..Len(ms) -> Seq(Messages)] /\ h[0] = <<>> /\ OfRole(ms, roles) = h[Len(ms)]
    BY <1>3, <1>8 DEF StepByStep, D, base, n
  <2>2. \A i \in 1..Len(ms) : h[i] = IF ms[i].role \in roles THEN Append(h[i - 1], ms[i]) ELSE h[i - 1]
    BY <1>9 DEF Step, n
  <2> QED
    BY <2>1, <2>2

LEMMA AssetFields ==
    ASSUME NEW a \in Assets
    PROVE  a.name \in Keys /\ a.type \in Types
BY DEF Assets

\* What one observation makes of a row, and a target of a seed.
LEMMA MergedIsAsset ==
    ASSUME NEW known \in Assets \cup {NULL}, NEW seen \in Assets
    PROVE  MergedWith(known, seen) \in Assets
BY DEF MergedWith, Assets

LEMMA SeedIsAsset ==
    ASSUME NEW target \in NamedTargets, target[1] # "repository"
    PROVE  SeedFromTarget(target) \in Assets /\ SeedFromTarget(target).name = target[2]
BY DEF NamedTargets, SeedFromTarget, DiscoveredAsset, Assets, Types, Keys

\* Seeds appends one asset for every target that is no repository.
LEMMA SeedsUnfold ==
    ASSUME targets \in Seq(NamedTargets)
    PROVE  \E h \in [0..Len(targets) -> Seq(Assets)] :
              /\ h[0] = << >>
              /\ \A i \in 1..Len(targets) : h[i] = IF targets[i][1] = "repository" THEN h[i - 1]
                     ELSE Append(h[i - 1], SeedFromTarget(targets[i]))
              /\ Seeds = h[Len(targets)]
<1> DEFINE n == Len(targets)
           D == Seq(Assets)
           base == << >>
           Step(i, d) == IF targets[i][1] = "repository" THEN d
                     ELSE Append(d, SeedFromTarget(targets[i]))
           g == [p \in (1..n) \X D |-> Step(p[1], p[2])]
           Table(F) == F = [s \in SUBSET (DOMAIN targets) |->
                               IF s = {} THEN base ELSE Step(Max(s), F[s \ {Max(s)}])]
           It == CHOOSE F : Table(F)
<1>1. n \in Nat /\ DOMAIN targets = 1..n /\ base \in D /\ \A i \in 1..n, d \in D : Step(i, d) \in D
  <2>1. \A i \in 1..Len(targets) : targets[i] \in NamedTargets
    OBVIOUS
  <2> QED
    BY <2>1, SeedIsAsset
<1>2. /\ g \in [(1..n) \X D -> D]
      /\ \A i \in 1..n, d \in D : g[<<i, d>>] = Step(i, d)
  <2> HIDE DEF n, D, base, Step
  <2> QED
    BY <1>1
<1>3. Seeds = It[1..n]
  BY <1>1 DEF Seeds, FoldLeft, MapThenFoldSet
<1> HIDE DEF n, D, base, g, Step
<1>4. \E F : Table(F)
  <2>1. PICK F \in [SUBSET (1..n) -> D] : OverSets(F, n, base, g)
    BY <1>1, <1>2, FoldTable
  <2>2. ASSUME NEW s \in SUBSET (1..n), s # {}
        PROVE  g[<<Max(s), F[s \ {Max(s)}]>>] = Step(Max(s), F[s \ {Max(s)}])
    <3>1. Max(s) \in 1..n /\ F[s \ {Max(s)}] \in D
      BY <1>1, <2>2, Extremes
    <3> QED
      BY <1>2, <3>1
  <2>3. Table(F)
    BY <1>1, <2>1, <2>2 DEF OverSets
  <2> HIDE DEF Table
  <2> QED
    BY <2>3
<1>5. Table(It)
  <2> HIDE DEF Table
  <2> QED
    BY <1>4
<1> HIDE DEF It
<1>6. It[{}] = base
  BY <1>5
<1>7. FollowsTable(It, n, D, base, g)
  <2>1. ASSUME NEW i \in 1..n, It[1..(i - 1)] \in D PROVE It[1..i] = g[<<i, It[1..(i - 1)]>>]
    <3>1. /\ Max(1..i) = i /\ (1..i) \ {i} = 1..(i - 1)
          /\ 1..i \in SUBSET (1..n) /\ 1..i # {}
      BY <1>1, IndexPrefixes
    <3>2. It[1..i] = Step(i, It[1..(i - 1)])
      BY <1>1, <1>5, <3>1
    <3> QED
      BY <1>2, <2>1, <3>2
  <2> QED
    BY <1>6, <2>1 DEF FollowsTable
<1>8. PICK h \in [0..n -> D] : StepByStep(h, n, base, g) /\ It[1..n] = h[n]
  <2>1. n \in Nat /\ base \in D /\ g \in [(1..n) \X D -> D]
    BY <1>1, <1>2
  <2>2. Folded(It[1..n], n, D, base, g)
    BY <1>7, <2>1, FoldSteps
  <2> QED
    BY <2>2 DEF Folded
<1>9. ASSUME NEW i \in 1..n PROVE h[i] = Step(i, h[i - 1])
  <2>1. h[i - 1] \in D
    BY <1>1
  <2> QED
    BY <1>2, <1>8, <2>1 DEF StepByStep
<1> QED
  <2>1. h \in [0..Len(targets) -> Seq(Assets)] /\ h[0] = << >> /\ Seeds = h[Len(targets)]
    BY <1>3, <1>8 DEF StepByStep, D, base, n
  <2>2. \A i \in 1..Len(targets) : h[i] = IF targets[i][1] = "repository" THEN h[i - 1]
                     ELSE Append(h[i - 1], SeedFromTarget(targets[i]))
    BY <1>9 DEF Step, n
  <2> QED
    BY <2>1, <2>2

\* Seeded merges one seed after the other into the rows.
LEMMA SeededUnfolds ==
    ASSUME Seeds \in Seq(Assets)
    PROVE  \E h \in [0..Len(Seeds) -> [Keys -> Assets \cup {NULL}]] :
              /\ h[0] = NoAssets
              /\ \A i \in 1..Len(Seeds) : h[i] = [h[i - 1] EXCEPT ![Seeds[i].name] = MergedWith(@, Seeds[i])]
              /\ Seeded = h[Len(Seeds)]
<1> DEFINE n == Len(Seeds)
           D == [Keys -> Assets \cup {NULL}]
           base == NoAssets
           Step(i, d) == [d EXCEPT ![Seeds[i].name] = MergedWith(@, Seeds[i])]
           g == [p \in (1..n) \X D |-> Step(p[1], p[2])]
           Table(F) == F = [s \in SUBSET (DOMAIN Seeds) |->
                               IF s = {} THEN base ELSE Step(Max(s), F[s \ {Max(s)}])]
           It == CHOOSE F : Table(F)
<1>1. n \in Nat /\ DOMAIN Seeds = 1..n /\ base \in D /\ \A i \in 1..n, d \in D : Step(i, d) \in D
  <2>1. NoAssets \in [Keys -> Assets \cup {NULL}]
    BY DEF NoAssets
  <2>2. ASSUME NEW i \in 1..Len(Seeds), NEW d \in D PROVE Step(i, d) \in D
    <3>0. Seeds[i] \in Assets
      OBVIOUS
    <3>1. Seeds[i] \in Assets /\ Seeds[i].name \in Keys
      BY <3>0, AssetFields
    <3>2. MergedWith(d[Seeds[i].name], Seeds[i]) \in Assets
      BY <3>1, MergedIsAsset
    <3> QED
      BY <3>1, <3>2
  <2> QED
    BY <2>1, <2>2
<1>2. /\ g \in [(1..n) \X D -> D]
      /\ \A i \in 1..n, d \in D : g[<<i, d>>] = Step(i, d)
  <2> HIDE DEF n, D, base, Step
  <2> QED
    BY <1>1
<1>3. Seeded = It[1..n]
  BY <1>1 DEF Seeded, FoldLeft, MapThenFoldSet
<1> HIDE DEF n, D, base, g, Step
<1>4. \E F : Table(F)
  <2>1. PICK F \in [SUBSET (1..n) -> D] : OverSets(F, n, base, g)
    BY <1>1, <1>2, FoldTable
  <2>2. ASSUME NEW s \in SUBSET (1..n), s # {}
        PROVE  g[<<Max(s), F[s \ {Max(s)}]>>] = Step(Max(s), F[s \ {Max(s)}])
    <3>1. Max(s) \in 1..n /\ F[s \ {Max(s)}] \in D
      BY <1>1, <2>2, Extremes
    <3> QED
      BY <1>2, <3>1
  <2>3. Table(F)
    BY <1>1, <2>1, <2>2 DEF OverSets
  <2> HIDE DEF Table
  <2> QED
    BY <2>3
<1>5. Table(It)
  <2> HIDE DEF Table
  <2> QED
    BY <1>4
<1> HIDE DEF It
<1>6. It[{}] = base
  BY <1>5
<1>7. FollowsTable(It, n, D, base, g)
  <2>1. ASSUME NEW i \in 1..n, It[1..(i - 1)] \in D PROVE It[1..i] = g[<<i, It[1..(i - 1)]>>]
    <3>1. /\ Max(1..i) = i /\ (1..i) \ {i} = 1..(i - 1)
          /\ 1..i \in SUBSET (1..n) /\ 1..i # {}
      BY <1>1, IndexPrefixes
    <3>2. It[1..i] = Step(i, It[1..(i - 1)])
      BY <1>1, <1>5, <3>1
    <3> QED
      BY <1>2, <2>1, <3>2
  <2> QED
    BY <1>6, <2>1 DEF FollowsTable
<1>8. PICK h \in [0..n -> D] : StepByStep(h, n, base, g) /\ It[1..n] = h[n]
  <2>1. n \in Nat /\ base \in D /\ g \in [(1..n) \X D -> D]
    BY <1>1, <1>2
  <2>2. Folded(It[1..n], n, D, base, g)
    BY <1>7, <2>1, FoldSteps
  <2> QED
    BY <2>2 DEF Folded
<1>9. ASSUME NEW i \in 1..n PROVE h[i] = Step(i, h[i - 1])
  <2>1. h[i - 1] \in D
    BY <1>1
  <2> QED
    BY <1>2, <1>8, <2>1 DEF StepByStep
<1> QED
  <2>1. h \in [0..Len(Seeds) -> [Keys -> Assets \cup {NULL}]] /\ h[0] = NoAssets /\ Seeded = h[Len(Seeds)]
    BY <1>3, <1>8 DEF StepByStep, D, base, n
  <2>2. \A i \in 1..Len(Seeds) : h[i] = [h[i - 1] EXCEPT ![Seeds[i].name] = MergedWith(@, Seeds[i])]
    BY <1>9 DEF Step, n
  <2> QED
    BY <2>1, <2>2

-----------------------------------------------------------------------------
(* What is said of an asset                                                *)

\* A row is what some observations leave of the asset k: nothing if none named it,
\* else, field by field, the last value any of them gave.
Reflects(row, k, said) ==
    /\ SaidOf(k, said) = {} => row = NULL
    /\ SaidOf(k, said) # {} =>
          /\ row \in Assets /\ row.name = k
          /\ \A field \in Fields : row[field] = LastSaid(k, field, said)

ValuesOf(k, field, said) == {i \in SaidOf(k, said) : said[i][field] # NULL}

\* The last of two series of observations to give a value is the last one of the
\* second series, if that gave any.
LEMMA LastOfBoth ==
    ASSUME NEW s \in Seq(Assets), NEW t \in Seq(Assets), NEW k, NEW field
    PROVE  LastSaid(k, field, s \o t) =
              IF ValuesOf(k, field, t) # {} THEN LastSaid(k, field, t) ELSE LastSaid(k, field, s)
<1> DEFINE m == Len(s)
           n == Len(t)
           st == s \o t
           V == ValuesOf(k, field, st)
           Vs == ValuesOf(k, field, s)
           Vt == ValuesOf(k, field, t)
<1>1. /\ m \in Nat /\ n \in Nat /\ DOMAIN s = 1..m /\ DOMAIN t = 1..n /\ DOMAIN st = 1..(m + n)
      /\ \A i \in 1..m : st[i] = s[i]
      /\ \A i \in 1..n : st[m + i] = t[i]
  OBVIOUS
<1> HIDE DEF m, n, st
<1>2. /\ V = {i \in 1..(m + n) : st[i].name = k /\ st[i][field] # NULL}
      /\ Vs = {i \in 1..m : s[i].name = k /\ s[i][field] # NULL}
      /\ Vt = {i \in 1..n : t[i].name = k /\ t[i][field] # NULL}
  BY <1>1 DEF ValuesOf, SaidOf
<1>3. /\ LastSaid(k, field, st) = IF V = {} THEN NULL ELSE st[Max(V)][field]
      /\ LastSaid(k, field, s) = IF Vs = {} THEN NULL ELSE s[Max(Vs)][field]
      /\ LastSaid(k, field, t) = IF Vt = {} THEN NULL ELSE t[Max(Vt)][field]
  BY DEF LastSaid, ValuesOf
<1> HIDE DEF V, Vs, Vt
<1>4. CASE Vt # {}
  <2>1. Max(Vt) \in Vt /\ \A j \in Vt : j <= Max(Vt)
    BY <1>1, <1>2, <1>4, Extremes
  <2>2. Max(Vt) \in 1..n
    BY <1>2, <2>1
  <2>3. m + Max(Vt) \in V
    <3>1. m + Max(Vt) \in 1..(m + n)
      BY <1>1, <2>2
    <3>2. st[m + Max(Vt)] = t[Max(Vt)]
      BY <1>1, <2>2
    <3> QED
      BY <1>2, <2>1, <3>1, <3>2
  <2>4. ASSUME NEW j \in V PROVE j <= m + Max(Vt)
    <3>1. CASE j <= m
      BY <1>1, <1>2, <2>2, <3>1
    <3>2. CASE j > m
      <4>1. j \in 1..(m + n)
        BY <1>2
      <4>2. j - m \in 1..n /\ m + (j - m) = j
        BY <1>1, <3>2, <4>1
      <4>3. st[j] = t[j - m]
        BY <1>1, <4>2
      <4>4. j - m \in Vt
        BY <1>2, <4>2, <4>3
      <4> QED
        BY <1>1, <2>1, <2>2, <4>2, <4>4
    <3>3. j \in Int
      BY <1>1, <1>2
    <3> QED
      BY <1>1, <3>1, <3>2, <3>3
  <2>5. Max(V) = m + Max(Vt)
    <3>1. m + n \in Nat /\ V \in SUBSET (1..(m + n))
      BY <1>1, <1>2
    <3> QED
      BY <2>3, <2>4, <3>1, GreatestIs
  <2>6. st[Max(V)] = t[Max(Vt)] /\ V # {}
    BY <1>1, <2>2, <2>3, <2>5
  <2> QED
    BY <1>3, <1>4, <2>6 DEF st, Vt
<1>5. CASE Vt = {}
  <2>1. ASSUME NEW j \in 1..(m + n) PROVE j \in V <=> j \in Vs
    <3>1. CASE j <= m
      BY <1>1, <1>2, <3>1
    <3>2. CASE j > m
      <4>1. j - m \in 1..n /\ m + (j - m) = j /\ j \notin 1..m
        BY <1>1, <3>2
      <4>2. st[j] = t[j - m]
        BY <1>1, <4>1
      <4>3. j \notin V
        BY <1>2, <1>5, <4>1, <4>2
      <4> QED
        BY <1>2, <4>1, <4>3
    <3> QED
      BY <1>1, <3>1, <3>2
  <2>2. V \subseteq 1..(m + n) /\ Vs \subseteq 1..(m + n) /\ Vs \subseteq 1..m
    BY <1>1, <1>2
  <2>3. V = Vs
    BY <2>1, <2>2
  <2>4. Vs # {} => st[Max(Vs)] = s[Max(Vs)]
    <3>1. Vs # {} => Max(Vs) \in Vs
      BY <1>1, <2>2, Extremes
    <3> QED
      BY <1>1, <2>2, <3>1
  <2> QED
    BY <1>3, <1>5, <2>3, <2>4 DEF st, Vt
<1> QED
  BY <1>4, <1>5

\* An asset is named by two series together when it is named by one of them.
LEMMA NamedByBoth ==
    ASSUME NEW s \in Seq(Assets), NEW t \in Seq(Assets), NEW k
    PROVE  SaidOf(k, s \o t) = {} <=> (SaidOf(k, s) = {} /\ SaidOf(k, t) = {})
<1> DEFINE m == Len(s)
           n == Len(t)
           st == s \o t
<1>1. /\ m \in Nat /\ n \in Nat /\ DOMAIN s = 1..m /\ DOMAIN t = 1..n /\ DOMAIN st = 1..(m + n)
      /\ \A i \in 1..m : st[i] = s[i]
      /\ \A i \in 1..n : st[m + i] = t[i]
  OBVIOUS
<1> HIDE DEF m, n, st
<1>2. /\ SaidOf(k, st) = {i \in 1..(m + n) : st[i].name = k}
      /\ SaidOf(k, s) = {i \in 1..m : s[i].name = k}
      /\ SaidOf(k, t) = {i \in 1..n : t[i].name = k}
  BY <1>1 DEF SaidOf
<1>3. ASSUME NEW i \in SaidOf(k, s) PROVE i \in SaidOf(k, st)
  BY <1>1, <1>2
<1>4. ASSUME NEW i \in SaidOf(k, t) PROVE m + i \in SaidOf(k, st)
  BY <1>1, <1>2
<1>5. ASSUME NEW i \in SaidOf(k, st) PROVE i \in SaidOf(k, s) \/ i - m \in SaidOf(k, t)
  <2>1. CASE i <= m
    BY <1>1, <1>2, <2>1
  <2>2. CASE i > m
    <3>1. i - m \in 1..n /\ m + (i - m) = i
      BY <1>1, <1>2, <2>2
    <3> QED
      BY <1>1, <1>2, <3>1
  <2>3. i \in Int
    BY <1>1, <1>2
  <2> QED
    BY <1>1, <2>1, <2>2, <2>3
<1> QED
  BY <1>3, <1>4, <1>5 DEF st

LEMMA NullIsNoAsset ==
    /\ NULL \notin Assets /\ NULL \notin Types /\ NULL \notin Keys
BY ReconAssumption

\* One observation alone.
LEMMA ReflectsOne ==
    ASSUME NEW seen \in Assets, NEW k
    PROVE  Reflects(IF seen.name = k THEN seen ELSE NULL, k, <<seen>>)
<1>1. DOMAIN <<seen>> = {1} /\ <<seen>>[1] = seen
  OBVIOUS
<1>2. SaidOf(k, <<seen>>) = IF seen.name = k THEN {1} ELSE {}
  BY <1>1 DEF SaidOf
<1>3. ASSUME seen.name = k, NEW field \in Fields
      PROVE  seen[field] = LastSaid(k, field, <<seen>>)
  <2> DEFINE V == {i \in SaidOf(k, <<seen>>) : <<seen>>[i][field] # NULL}
  <2>1. V = IF seen[field] # NULL THEN {1} ELSE {}
    BY <1>1, <1>2, <1>3
  <2>2. seen[field] # NULL => Max(V) = 1
    <3>1. {1} \in SUBSET (1..1) /\ 1 \in {1} /\ \A j \in {1} : j <= 1
      OBVIOUS
    <3>2. Max({1}) = 1
      BY <3>1, GreatestIs
    <3> QED
      BY <2>1, <3>2
  <2>3. LastSaid(k, field, <<seen>>) = IF V = {} THEN NULL ELSE <<seen>>[Max(V)][field]
    BY DEF LastSaid
  <2> HIDE DEF V
  <2> QED
    BY <1>1, <2>1, <2>2, <2>3
<1> QED
  BY <1>2, <1>3 DEF Reflects

\* What two series leave of an asset is what the second leaves, merged into what
\* the first leaves.
LEMMA ReflectsBoth ==
    ASSUME NEW s \in Seq(Assets), NEW t \in Seq(Assets), NEW k, NEW known, NEW seen,
           Reflects(known, k, s), Reflects(seen, k, t)
    PROVE  Reflects(IF seen = NULL THEN known ELSE MergedWith(known, seen), k, s \o t)
<1>1. CASE SaidOf(k, t) = {}
  <2>1. seen = NULL
    BY <1>1 DEF Reflects
  <2>2. SaidOf(k, s \o t) = {} <=> SaidOf(k, s) = {}
    BY <1>1, NamedByBoth
  <2>3. ASSUME NEW field PROVE LastSaid(k, field, s \o t) = LastSaid(k, field, s)
    <3>1. ValuesOf(k, field, t) = {}
      BY <1>1 DEF ValuesOf
    <3> QED
      BY <3>1, LastOfBoth
  <2> QED
    BY <2>1, <2>2, <2>3 DEF Reflects
<1>2. CASE SaidOf(k, t) # {}
  <2>1. /\ seen \in Assets /\ seen.name = k /\ seen # NULL /\ seen.type # NULL
        /\ \A field \in Fields : seen[field] = LastSaid(k, field, t)
    BY <1>2, AssetFields, NullIsNoAsset DEF Reflects
  <2>2. SaidOf(k, s \o t) # {}
    BY <1>2, NamedByBoth
  <2>3. ASSUME NEW field \in Fields
        PROVE  LastSaid(k, field, s \o t) = IF seen[field] # NULL THEN seen[field]
                                            ELSE LastSaid(k, field, s)
    <3>1. ValuesOf(k, field, t) = {} => seen[field] = NULL
      BY <2>1 DEF LastSaid, ValuesOf
    <3>2. ValuesOf(k, field, t) # {} => LastSaid(k, field, t) # NULL
      <4> SUFFICES ASSUME ValuesOf(k, field, t) # {} PROVE LastSaid(k, field, t) # NULL
        OBVIOUS
      <4>1. ValuesOf(k, field, t) \in SUBSET (1..Len(t)) /\ Len(t) \in Nat
        BY DEF ValuesOf, SaidOf
      <4>2. Max(ValuesOf(k, field, t)) \in ValuesOf(k, field, t)
        BY <4>1, Extremes
      <4> QED
        BY <4>2 DEF LastSaid, ValuesOf
    <3> QED
      BY <2>1, <3>1, <3>2, LastOfBoth
  <2>4. CASE known = NULL
    <3>1. SaidOf(k, s) = {}
      BY <2>4, NullIsNoAsset DEF Reflects
    <3>2. ASSUME NEW field \in Fields PROVE seen[field] = LastSaid(k, field, s \o t)
      <4>1. LastSaid(k, field, s) = NULL
        BY <3>1 DEF LastSaid
      <4> QED
        BY <2>3, <4>1
    <3>3. MergedWith(known, seen) = seen
      BY <2>4 DEF MergedWith
    <3> QED
      BY <2>1, <2>2, <3>2, <3>3 DEF Reflects
  <2>5. CASE known # NULL
    <3>1. known \in Assets /\ known.name = k /\ \A field \in Fields : known[field] = LastSaid(k, field, s)
      BY <2>5 DEF Reflects
    <3> DEFINE row == MergedWith(known, seen)
    <3>2. row \in Assets
      BY <2>1, <3>1, MergedIsAsset
    <3>3. /\ row.name = k
          /\ row.type = seen.type
          /\ row.address = IF seen.address # NULL THEN seen.address ELSE known.address
          /\ row.service = IF seen.service # NULL THEN seen.service ELSE known.service
          /\ row.title = IF seen.title # NULL THEN seen.title ELSE known.title
      BY <2>1, <2>5, <3>1 DEF MergedWith, Assets
    <3> HIDE DEF row
    <3>4. ASSUME NEW field \in Fields
          PROVE  row[field] = IF seen[field] # NULL THEN seen[field] ELSE known[field]
      BY <2>1, <3>3 DEF Fields
    <3>5. ASSUME NEW field \in Fields PROVE row[field] = LastSaid(k, field, s \o t)
      BY <2>3, <3>1, <3>4
    <3> QED
      BY <2>1, <2>2, <3>2, <3>3, <3>5 DEF Reflects, row
  <2> QED
    BY <2>4, <2>5
<1> QED
  BY <1>1, <1>2

\* One observation more, of this asset or of another.
LEMMA ReflectsMore ==
    ASSUME NEW s \in Seq(Assets), NEW seen \in Assets, NEW k, NEW row, Reflects(row, k, s)
    PROVE  Reflects(IF seen.name = k THEN MergedWith(row, seen) ELSE row, k, Append(s, seen))
<1>1. Append(s, seen) = s \o <<seen>> /\ <<seen>> \in Seq(Assets)
  OBVIOUS
<1> DEFINE one == IF seen.name = k THEN seen ELSE NULL
<1>2. Reflects(one, k, <<seen>>)
  BY ReflectsOne
<1>3. one = NULL <=> seen.name # k
  BY NullIsNoAsset
<1>4. Reflects(IF one = NULL THEN row ELSE MergedWith(row, one), k, s \o <<seen>>)
  <2> HIDE DEF one
  <2> QED
    BY <1>1, <1>2, ReflectsBoth
<1> QED
  BY <1>1, <1>3, <1>4

-----------------------------------------------------------------------------
(* The seeds                                                               *)

\* Every target that is no repository has a seed of its name.
LEMMA SeedsNameTargets ==
    ASSUME targets \in Seq(NamedTargets)
    PROVE  /\ Seeds \in Seq(Assets)
           /\ \A i \in 1..Len(targets) : targets[i][1] # "repository" =>
                 SaidOf(targets[i][2], Seeds) # {}
<1> DEFINE n == Len(targets)
<1>1. PICK h \in [0..n -> Seq(Assets)] :
              /\ h[0] = << >>
              /\ \A i \in 1..n : h[i] = IF targets[i][1] = "repository" THEN h[i - 1]
                                        ELSE Append(h[i - 1], SeedFromTarget(targets[i]))
              /\ Seeds = h[n]
  BY SeedsUnfold
<1>2. n \in Nat /\ \A i \in 1..n : targets[i] \in NamedTargets
  OBVIOUS
<1> HIDE DEF n
<1> DEFINE Named(j) == \A i \in 1..j : targets[i][1] # "repository" => SaidOf(targets[i][2], h[j]) # {}
           Good == {j \in 0..n : Named(j)}
<1>3. 0 \in Good
  BY <1>2
<1>4. ASSUME NEW j \in 0..(n - 1), j \in Good PROVE j + 1 \in Good
  <2>1. j \in 0..n /\ j + 1 \in 0..n /\ j + 1 \in 1..n /\ (j + 1) - 1 = j /\ 1..(j + 1) = 1..j \cup {j + 1}
    BY <1>2
  <2>2. h[j] \in Seq(Assets) /\ targets[j + 1] \in NamedTargets
    BY <1>2, <2>1
  <2>3. CASE targets[j + 1][1] = "repository"
    <3>1. h[j + 1] = h[j]
      BY <1>1, <2>1, <2>3
    <3>2. Named(j + 1)
      BY <1>4, <2>1, <2>3, <3>1
    <3> HIDE DEF Named
    <3> QED
      BY <2>1, <3>2
  <2>4. CASE targets[j + 1][1] # "repository"
    <3> DEFINE seed == SeedFromTarget(targets[j + 1])
    <3>1. seed \in Assets /\ seed.name = targets[j + 1][2]
      BY <2>2, <2>4, SeedIsAsset
    <3>2. h[j + 1] = Append(h[j], seed)
      BY <1>1, <2>1, <2>4
    <3> HIDE DEF seed
    <3>3. h[j + 1] = h[j] \o <<seed>> /\ <<seed>> \in Seq(Assets)
      BY <2>2, <3>1, <3>2
    <3>4. SaidOf(targets[j + 1][2], <<seed>>) # {}
      <4>1. 1 \in DOMAIN <<seed>> /\ <<seed>>[1] = seed
        OBVIOUS
      <4> QED
        BY <3>1, <4>1 DEF SaidOf
    <3>5. \A k : SaidOf(k, h[j + 1]) = {} <=> (SaidOf(k, h[j]) = {} /\ SaidOf(k, <<seed>>) = {})
      BY <2>2, <3>3, NamedByBoth
    <3>6. Named(j + 1)
      <4> SUFFICES ASSUME NEW i \in 1..(j + 1), targets[i][1] # "repository"
                   PROVE  SaidOf(targets[i][2], h[j + 1]) # {}
        OBVIOUS
      <4> HIDE DEF n
      <4>1. CASE i \in 1..j
        <5>1. SaidOf(targets[i][2], h[j]) # {}
          BY <1>4, <4>1
        <5> QED
          BY <3>5, <5>1
      <4>2. CASE i = j + 1
        BY <3>4, <3>5, <4>2
      <4> QED
        BY <2>1, <4>1, <4>2
    <3> HIDE DEF Named
    <3> QED
      BY <2>1, <3>6
  <2> QED
    BY <2>3, <2>4
<1>5. 0..n \subseteq Good
  <2> HIDE DEF Good
  <2> QED
    BY <1>2, <1>3, <1>4, Upwards
<1>6. Named(n)
  <2>1. n \in 0..n
    BY <1>2
  <2> HIDE DEF Named
  <2> QED
    BY <1>5, <2>1
<1> QED
  <2>1. n \in 0..n
    BY <1>2
  <2> QED
    BY <1>1, <1>6, <2>1 DEF n

\* Seeded is what the seeds leave of every asset.
LEMMA SeededReflects ==
    ASSUME Seeds \in Seq(Assets)
    PROVE  \A k \in Keys : Reflects(Seeded[k], k, Seeds)
<1> DEFINE n == Len(Seeds)
           Firsts(j) == [i \in 1..j |-> Seeds[i]]
<1>1. PICK h \in [0..n -> [Keys -> Assets \cup {NULL}]] :
              /\ h[0] = NoAssets
              /\ \A i \in 1..n : h[i] = [h[i - 1] EXCEPT ![Seeds[i].name] = MergedWith(@, Seeds[i])]
              /\ Seeded = h[n]
  BY SeededUnfolds
<1>2. /\ n \in Nat /\ \A i \in 1..n : Seeds[i] \in Assets
      /\ \A j \in 0..n : Firsts(j) \in Seq(Assets)
      /\ Firsts(n) = Seeds
  OBVIOUS
<1> HIDE DEF n
<1> DEFINE Right(j) == \A k \in Keys : Reflects(h[j][k], k, Firsts(j))
           Good == {j \in 0..n : Right(j)}
<1>3. Right(0)
  <2>1. \A k \in Keys : h[0][k] = NULL
    BY <1>1 DEF NoAssets
  <2>2. \A k : SaidOf(k, Firsts(0)) = {}
    BY DEF SaidOf
  <2> HIDE DEF Firsts
  <2> QED
    BY <2>1, <2>2 DEF Reflects
<1>4. ASSUME NEW j \in 0..(n - 1), Right(j) PROVE Right(j + 1)
  <2>1. j \in 0..n /\ j + 1 \in 0..n /\ j + 1 \in 1..n /\ (j + 1) - 1 = j
    BY <1>2
  <2> DEFINE seen == Seeds[j + 1]
  <2>2. seen \in Assets /\ Firsts(j) \in Seq(Assets)
    BY <1>2, <2>1
  <2>3. Append(Firsts(j), seen) = Firsts(j + 1)
    BY <1>2, <2>1
  <2>4. h[j + 1] = [h[j] EXCEPT ![seen.name] = MergedWith(@, seen)]
        /\ h[j] \in [Keys -> Assets \cup {NULL}]
    BY <1>1, <2>1
  <2> HIDE DEF seen, Firsts
  <2>5. ASSUME NEW k \in Keys PROVE Reflects(h[j + 1][k], k, Firsts(j + 1))
    <3>1. h[j + 1][k] = IF seen.name = k THEN MergedWith(h[j][k], seen) ELSE h[j][k]
      BY <2>4
    <3>2. Reflects(IF seen.name = k THEN MergedWith(h[j][k], seen) ELSE h[j][k], k,
                   Append(Firsts(j), seen))
      BY <1>4, <2>2, ReflectsMore
    <3> QED
      BY <2>3, <3>1, <3>2
  <2> QED
    BY <2>5
<1> HIDE DEF Right
<1>5. 0..n \subseteq Good
  <2>1. 0 \in Good /\ \A j \in 0..(n - 1) : j \in Good => j + 1 \in Good
    BY <1>2, <1>3, <1>4
  <2> HIDE DEF Good
  <2> QED
    BY <1>2, <2>1, Upwards
<1>6. Right(n)
  BY <1>2, <1>5
<1> QED
  BY <1>1, <1>2, <1>6 DEF Right

-----------------------------------------------------------------------------
(* The files                                                               *)

LEMMA LinesAreAssets ==
    /\ ParseHostnames \subseteq Assets
    /\ ParseIpPairs \subseteq Assets
    /\ ParseWebUrls \subseteq Assets
    /\ ParseHttpxJsonl \subseteq Assets
<1>1. ASSUME NEW name \in Keys, NEW type \in Types, NEW ip \in Addresses \cup {NULL},
             NEW service \in {"http", "https", NULL}, NEW title \in {"title", NULL}
      PROVE  DiscoveredAsset(name, type, ip, service, title) \in Assets
  BY DEF DiscoveredAsset, Assets
<1>2. /\ HostNames \subseteq Keys /\ Addresses \subseteq Keys /\ Pages \subseteq Keys
      /\ "subdomain" \in Types /\ "host" \in Types /\ "url" \in Types
  BY DEF Keys, Types
<1>3. ParseHostnames \subseteq Assets
  BY <1>1, <1>2 DEF ParseHostnames
<1>4. ParseIpPairs \subseteq Assets
  <2>1. \A h \in HostNames, ip \in Addresses \cup {NULL} :
            DiscoveredAsset(h, "subdomain", ip, NULL, NULL) \in Assets
    BY <1>1, <1>2
  <2>2. \A ip \in Addresses : DiscoveredAsset(ip, "host", ip, NULL, NULL) \in Assets
    BY <1>1, <1>2
  <2> QED
    BY <2>1, <2>2 DEF ParseIpPairs
<1>5. ParseWebUrls \subseteq Assets
  <2>1. \A u \in Pages, scheme \in {"http", "https"} :
            DiscoveredAsset(u, "url", NULL, scheme, NULL) \in Assets
    BY <1>1, <1>2
  <2> QED
    BY <2>1 DEF ParseWebUrls
<1>6. ParseHttpxJsonl \subseteq Assets
  <2>1. \A u \in Pages, ip \in Addresses \cup {NULL}, service \in {"https", NULL},
           title \in {"title", NULL} : DiscoveredAsset(u, "url", ip, service, title) \in Assets
    <3> SUFFICES ASSUME NEW u \in Pages, NEW ip \in Addresses \cup {NULL},
                        NEW service \in {"https", NULL}, NEW title \in {"title", NULL}
                 PROVE  DiscoveredAsset(u, "url", ip, service, title) \in Assets
      OBVIOUS
    <3>1. u \in Keys /\ "url" \in Types /\ service \in {"http", "https", NULL}
      BY <1>2
    <3> QED
      BY <1>1, <3>1
  <2>2. ASSUME NEW seen \in ParseHttpxJsonl PROVE seen \in Assets
    <3>1. PICK u \in Pages, ip \in Addresses \cup {NULL}, service \in {"https", NULL},
               title \in {"title", NULL} : seen = DiscoveredAsset(u, "url", ip, service, title)
      BY DEF ParseHttpxJsonl
    <3> QED
      BY <2>1, <3>1
  <2> QED
    BY <2>2
<1> QED
  BY <1>3, <1>4, <1>5, <1>6

LEMMA FilesHoldAssets ==
    /\ Len(Layout) = 7
    /\ \A file \in 0..(2 * Len(Layout) - 1) : FileAt(file) \subseteq Assets
<1>1. Len(Layout) = 7
  BY DEF Layout
<1>2. \A i \in 1..7 : Layout[i] \subseteq Assets
  BY LinesAreAssets DEF Layout
<1>3. ASSUME NEW file \in 0..(2 * Len(Layout) - 1) PROVE FileAt(file) \subseteq Assets
  <2>1. (file % 7) + 1 \in 1..7
    BY <1>1
  <2> QED
    BY <1>1, <1>2, <2>1 DEF FileAt
<1> QED
  BY <1>1, <1>3

\* The root domain, if the run has one, is a hostname.
LEMMA PrimaryDomainIsHost ==
    ASSUME targets \in Seq(NamedTargets)
    PROVE  PrimaryDomain \in HostNames \cup {NULL}
<1> DEFINE domains == {i \in DOMAIN targets : targets[i][1] = "domain"}
<1>1. domains \in SUBSET (1..Len(targets)) /\ Len(targets) \in Nat
  OBVIOUS
<1>2. CASE domains # {}
  <2>1. Min(domains) \in domains
    <3> HIDE DEF domains
    <3> QED
      BY <1>1, <1>2, Extremes
  <2>2. targets[Min(domains)] \in NamedTargets /\ targets[Min(domains)][1] = "domain"
    BY <2>1
  <2>3. targets[Min(domains)][2] \in HostNames
    <3> DEFINE target == targets[Min(domains)]
    <3> HIDE DEF target
    <3>1. target \in NamedTargets /\ target[1] = "domain"
      BY <2>2 DEF target
    <3>2. target[2] \in HostNames
      BY <3>1 DEF NamedTargets
    <3> QED
      BY <3>2 DEF target
  <2> QED
    BY <1>2, <2>3 DEF PrimaryDomain
<1>3. CASE domains = {}
  BY <1>3 DEF PrimaryDomain
<1> QED
  BY <1>2, <1>3

\* What is computed of the targets stays as they do.
LEMMA TargetsKept ==
    ASSUME targets' = targets
    PROVE  Seeds' = Seeds /\ PrimaryDomain' = PrimaryDomain
<1>1. PrimaryDomain' = PrimaryDomain
  BY DEF PrimaryDomain
<1>2. Seeds' = Seeds
  BY ZenonT(30) DEF Seeds, FoldLeft, MapThenFoldSet
<1> QED
  BY <1>1, <1>2

-----------------------------------------------------------------------------
(* The recon node                                                          *)

Kept(rows) == {k \in Keys : rows[k] # NULL}

\* What every field holds, and where the node is.
ReconTyped ==
    /\ targets \in Seq(NamedTargets)
    /\ recon \in [pc : {"planned", "parsing", "parsed", "recorded"}, ran : BOOLEAN,
                  at : 0..(2 * Len(Layout) - 1)]
    /\ merged \in [Keys -> Assets \cup {NULL}]
    /\ observed \in Seq(Assets)
    /\ recon.pc = "planned" => ~recon.ran /\ merged = NoAssets /\ observed = << >> /\ ~capped

\* The dictionary is what the root domain and the lines leave, and has its size.
ReconKeeps ==
    /\ \A k \in Keys : Reflects(merged[k], k, Root \o observed)
    /\ IsFiniteSet(Kept(merged)) /\ Cardinality(Kept(merged)) <= MaxAssets
    /\ capped => Cardinality(Kept(merged)) = MaxAssets
    /\ recon.pc = "parsing" => Cardinality(Kept(merged)) < MaxAssets

\* What is recorded is what everything that was said leaves.
ReconRecords ==
    recon.pc = "recorded" => \A k \in Keys : Reflects(recorded[k], k, EverythingSaid)

ReconIInv == ReconTyped /\ ReconKeeps /\ ReconRecords

\* The root domain is one asset, or none.
LEMMA RootIsAssets ==
    ASSUME targets \in Seq(NamedTargets)
    PROVE  /\ Root \in Seq(Assets)
           /\ PrimaryDomain # NULL =>
                 /\ PrimaryDomain \in Keys
                 /\ DiscoveredAsset(PrimaryDomain, "domain", NULL, NULL, NULL) \in Assets
<1>1. PrimaryDomain \in HostNames \cup {NULL}
  BY PrimaryDomainIsHost
<1>2. PrimaryDomain # NULL =>
         /\ PrimaryDomain \in Keys
         /\ DiscoveredAsset(PrimaryDomain, "domain", NULL, NULL, NULL) \in Assets
  BY <1>1 DEF Keys, Types, DiscoveredAsset, Assets
<1> QED
  BY <1>2 DEF Root

LEMMA ReconInitIInv == ReconInit => ReconIInv
<1> SUFFICES ASSUME ReconInit PROVE ReconIInv
  OBVIOUS
<1>1. PICK n \in 1..MaxTargets : targets \in [1..n -> NamedTargets]
  BY DEF ReconInit
<1>2. targets \in Seq(NamedTargets)
  <2>1. n \in Nat
    BY <1>1, ReconAssumption
  <2> QED
    BY <1>1, <2>1
<1>3. ReconTyped
  <2>1. /\ recon = [pc |-> "planned", ran |-> FALSE, at |-> 0] /\ merged = NoAssets
        /\ observed = << >> /\ capped = FALSE
    BY DEF ReconInit
  <2>2. 0 \in 0..(2 * Len(Layout) - 1)
    BY FilesHoldAssets
  <2>3. recon \in [pc : {"planned", "parsing", "parsed", "recorded"}, ran : BOOLEAN,
                   at : 0..(2 * Len(Layout) - 1)] /\ ~recon.ran
    BY <2>1, <2>2
  <2>4. observed \in Seq(Assets)
    BY <2>1
  <2>5. merged \in [Keys -> Assets \cup {NULL}]
    BY <2>1 DEF NoAssets
  <2> QED
    BY <1>2, <2>1, <2>3, <2>4, <2>5 DEF ReconTyped
<1>4. Root = << >> /\ observed = << >> /\ merged = NoAssets
  BY DEF ReconInit, Root
<1>5. Kept(merged) = {}
  BY <1>4 DEF Kept, NoAssets
<1>6. \A k \in Keys : Reflects(merged[k], k, Root \o observed)
  <2>1. Root \o observed = << >>
    BY <1>4
  <2>2. \A k : SaidOf(k, << >>) = {}
    BY DEF SaidOf
  <2> QED
    BY <1>4, <2>1, <2>2 DEF Reflects, NoAssets
<1>7. IsFiniteSet(Kept(merged)) /\ Cardinality(Kept(merged)) = 0
  BY <1>5, FS_EmptySet
<1> QED
  BY <1>3, <1>6, <1>7, ReconAssumption DEF ReconInit, ReconIInv, ReconKeeps, ReconRecords

LEMMA PlanReconIInv ==
    ASSUME ReconIInv, NEW ran \in BOOLEAN, PlanRecon(ran)
    PROVE  ReconIInv'
<1> DEFINE root == DiscoveredAsset(PrimaryDomain, "domain", NULL, NULL, NULL)
<1>1. /\ targets' = targets /\ observed' = << >> /\ capped' = FALSE /\ merged = NoAssets
      /\ recon' = [recon EXCEPT !.pc = IF ran THEN "parsing" ELSE "parsed", !.ran = ran]
      /\ merged' = IF ran /\ PrimaryDomain # NULL THEN [merged EXCEPT ![PrimaryDomain] = root]
                   ELSE merged
  BY DEF PlanRecon, ReconIInv, ReconTyped
<1>2. /\ targets \in Seq(NamedTargets) /\ recon'.ran = ran
      /\ recon'.pc # "planned" /\ recon'.pc # "recorded"
      /\ recon' \in [pc : {"planned", "parsing", "parsed", "recorded"}, ran : BOOLEAN,
                     at : 0..(2 * Len(Layout) - 1)]
  BY <1>1 DEF ReconIInv, ReconTyped
<1>3. PrimaryDomain # NULL => PrimaryDomain \in Keys /\ root \in Assets
  BY <1>2, RootIsAssets
<1>4. Root' = IF ran /\ PrimaryDomain # NULL THEN <<root>> ELSE << >>
  BY <1>1, <1>2, TargetsKept DEF Root
<1>5. merged' \in [Keys -> Assets \cup {NULL}]
  BY <1>1, <1>3 DEF NoAssets
<1>6. ReconTyped'
  <2>1. observed' \in Seq(Assets)
    BY <1>1
  <2>2. targets' \in Seq(NamedTargets)
    BY <1>1, <1>2
  <2> QED
    BY <1>2, <1>5, <2>1, <2>2 DEF ReconTyped
<1>7. CASE ran /\ PrimaryDomain # NULL
  <2>1. (Root \o observed)' = <<root>>
    BY <1>1, <1>4, <1>7
  <2>2. \A k \in Keys : merged'[k] = IF root.name = k THEN root ELSE NULL
    BY <1>1, <1>3, <1>7 DEF NoAssets, DiscoveredAsset
  <2>3. \A k \in Keys : Reflects(merged'[k], k, <<root>>)
    <3> HIDE DEF root
    <3> QED
      BY <1>3, <1>7, <2>2, ReflectsOne
  <2>4. Kept(merged)' = {PrimaryDomain}
    <3>1. root.name = PrimaryDomain /\ root # NULL
      BY <1>3, <1>7, NullIsNoAsset DEF DiscoveredAsset
    <3> HIDE DEF root
    <3> QED
      BY <1>3, <1>7, <2>2, <3>1 DEF Kept
  <2>5. IsFiniteSet(Kept(merged)') /\ Cardinality(Kept(merged)') = 1
    BY <2>4, FS_Singleton
  <2>6. ReconKeeps'
    <3>1. \A k \in Keys : Reflects(merged'[k], k, (Root \o observed)')
      BY <2>1, <2>3
    <3>2. 1 < MaxAssets /\ 1 <= MaxAssets
      BY ReconAssumption
    <3> HIDE DEF root
    <3> QED
      BY <1>1, <2>5, <3>1, <3>2 DEF ReconKeeps
  <2> QED
    BY <1>2, <1>6, <2>6 DEF ReconIInv, ReconRecords
<1>8. CASE ~(ran /\ PrimaryDomain # NULL)
  <2>1. (Root \o observed)' = << >> /\ merged' = NoAssets
    BY <1>1, <1>4, <1>8
  <2>2. \A k : SaidOf(k, << >>) = {}
    BY DEF SaidOf
  <2>3. \A k \in Keys : Reflects(merged'[k], k, (Root \o observed)')
    BY <2>1, <2>2 DEF Reflects, NoAssets
  <2>4. Kept(merged)' = {}
    BY <2>1 DEF Kept, NoAssets
  <2>5. IsFiniteSet(Kept(merged)') /\ Cardinality(Kept(merged)') = 0
    BY <2>4, FS_EmptySet
  <2>6. ReconKeeps'
    BY <1>1, <2>3, <2>5, ReconAssumption DEF ReconKeeps
  <2> QED
    BY <1>2, <1>6, <2>6 DEF ReconIInv, ReconRecords
<1> QED
  BY <1>7, <1>8

LEMMA ParseReconIInv ==
    ASSUME ReconIInv, NEW file \in 0..(2 * Len(Layout) - 1), NEW seen \in FileAt(file),
           ParseRecon(file, seen)
    PROVE  ReconIInv'
<1> DEFINE full == Cardinality(Kept(merged)') >= MaxAssets
<1>1. seen \in Assets /\ seen.name \in Keys /\ seen # NULL
  BY FilesHoldAssets, AssetFields, NullIsNoAsset
<1>2. /\ recon.pc = "parsing" /\ targets' = targets
      /\ observed' = Append(observed, seen)
      /\ merged' = [merged EXCEPT ![seen.name] = MergedWith(@, seen)]
  BY DEF ParseRecon
<1>3. /\ capped' = full
      /\ recon' = IF full THEN [recon EXCEPT !.pc = "parsed", !.at = 0]
                  ELSE [recon EXCEPT !.at = file]
  BY DEF ParseRecon, Kept
<1>4. /\ targets \in Seq(NamedTargets) /\ observed \in Seq(Assets)
      /\ merged \in [Keys -> Assets \cup {NULL}]
      /\ recon \in [pc : {"planned", "parsing", "parsed", "recorded"}, ran : BOOLEAN,
                    at : 0..(2 * Len(Layout) - 1)]
  BY DEF ReconIInv, ReconTyped
<1> HIDE DEF full
<1>5. /\ recon'.ran = recon.ran /\ recon'.pc # "planned" /\ recon'.pc # "recorded"
      /\ recon'.pc = "parsing" => ~full
      /\ recon' \in [pc : {"planned", "parsing", "parsed", "recorded"}, ran : BOOLEAN,
                     at : 0..(2 * Len(Layout) - 1)]
  <2>1. 0 \in 0..(2 * Len(Layout) - 1)
    BY FilesHoldAssets
  <2>2. CASE full
    BY <1>2, <1>3, <1>4, <2>1, <2>2
  <2>3. CASE ~full
    BY <1>2, <1>3, <1>4, <2>3
  <2> QED
    BY <2>2, <2>3
<1>6. MergedWith(merged[seen.name], seen) \in Assets
  BY <1>1, <1>4, MergedIsAsset
<1>7. merged' \in [Keys -> Assets \cup {NULL}]
  BY <1>1, <1>2, <1>4, <1>6
<1>8. ReconTyped'
  <2>1. observed' \in Seq(Assets)
    BY <1>1, <1>2, <1>4
  <2>2. targets' \in Seq(NamedTargets)
    BY <1>2, <1>4
  <2> QED
    BY <1>5, <1>7, <2>1, <2>2 DEF ReconTyped
<1>9. Root' = Root /\ Root \in Seq(Assets)
  BY <1>2, <1>4, <1>5, TargetsKept, RootIsAssets DEF Root
<1>10. \A k \in Keys : Reflects(merged'[k], k, (Root \o observed)')
  <2>1. (Root \o observed)' = Append(Root \o observed, seen) /\ Root \o observed \in Seq(Assets)
    <3> HIDE DEF Root
    <3>1. Root' \o observed' = Root \o Append(observed, seen)
      BY <1>2, <1>9
    <3>2. Root \o Append(observed, seen) = Append(Root \o observed, seen)
      BY <1>1, <1>4, <1>9, SMTT(40)
    <3> QED
      BY <1>4, <1>9, <3>1, <3>2
  <2>2. ASSUME NEW k \in Keys PROVE Reflects(merged'[k], k, (Root \o observed)')
    <3>1. Reflects(merged[k], k, Root \o observed)
      BY DEF ReconIInv, ReconKeeps
    <3>2. merged'[k] = IF seen.name = k THEN MergedWith(merged[k], seen) ELSE merged[k]
      BY <1>1, <1>2, <1>4
    <3>3. Reflects(IF seen.name = k THEN MergedWith(merged[k], seen) ELSE merged[k], k,
                   Append(Root \o observed, seen))
      BY <1>1, <2>1, <3>1, ReflectsMore
    <3> QED
      BY <2>1, <3>2, <3>3
  <2> QED
    BY <2>2
<1>11. Kept(merged)' = Kept(merged) \cup {seen.name}
  <2>1. \A k \in Keys : merged'[k] # NULL <=> (merged[k] # NULL \/ k = seen.name)
    BY <1>1, <1>2, <1>4, <1>6, NullIsNoAsset
  <2> QED
    BY <1>1, <2>1 DEF Kept
<1>12. /\ IsFiniteSet(Kept(merged)) /\ Cardinality(Kept(merged)) < MaxAssets
       /\ Cardinality(Kept(merged)) \in Nat
  BY <1>2, FS_CardinalityType DEF ReconIInv, ReconKeeps
<1>13. /\ IsFiniteSet(Kept(merged)') /\ Cardinality(Kept(merged)') \in Nat
       /\ Cardinality(Kept(merged)') <= Cardinality(Kept(merged)) + 1
  <2> DEFINE old == Kept(merged)
             new == Kept(merged)'
             name == seen.name
  <2>1. new = old \cup {name} /\ IsFiniteSet(old) /\ Cardinality(old) \in Nat
    BY <1>11, <1>12
  <2> HIDE DEF old, new, name
  <2>2. /\ IsFiniteSet(old \cup {name})
        /\ Cardinality(old \cup {name}) = IF name \in old THEN Cardinality(old)
                                          ELSE Cardinality(old) + 1
    BY <2>1, FS_AddElement
  <2>3. IsFiniteSet(new) /\ Cardinality(new) \in Nat /\ Cardinality(new) <= Cardinality(old) + 1
    BY <2>1, <2>2
  <2> QED
    BY <2>3 DEF old, new
<1>14. /\ Cardinality(Kept(merged)') <= MaxAssets
       /\ full => Cardinality(Kept(merged)') = MaxAssets
       /\ ~full => Cardinality(Kept(merged)') < MaxAssets
  BY <1>12, <1>13, ReconAssumption DEF full
<1>15. ReconKeeps'
  BY <1>3, <1>5, <1>10, <1>13, <1>14 DEF ReconKeeps
<1> QED
  BY <1>5, <1>8, <1>15 DEF ReconIInv, ReconRecords

LEMMA FilesEndIInv ==
    ASSUME ReconIInv, FilesEnd
    PROVE  ReconIInv'
<1>1. /\ recon' = [recon EXCEPT !.pc = "parsed", !.at = 0]
      /\ targets' = targets /\ merged' = merged /\ observed' = observed /\ capped' = capped
  BY DEF FilesEnd
<1>2. 0 \in 0..(2 * Len(Layout) - 1)
  BY FilesHoldAssets
<1>3. ReconTyped'
  BY <1>1, <1>2 DEF ReconIInv, ReconTyped
<1>4. recon'.ran = recon.ran /\ recon'.pc = "parsed"
  BY <1>1 DEF ReconIInv, ReconTyped
<1>5. Root' = Root
  BY <1>1, <1>4, TargetsKept DEF Root
<1>6. ReconKeeps'
  <2>1. \A k \in Keys : Reflects(merged'[k], k, (Root \o observed)')
    BY <1>1, <1>5 DEF ReconIInv, ReconKeeps
  <2>2. Kept(merged)' = Kept(merged)
    BY <1>1 DEF Kept
  <2> QED
    BY <1>1, <1>4, <2>1, <2>2 DEF ReconIInv, ReconKeeps
<1> QED
  BY <1>3, <1>4, <1>6 DEF ReconIInv, ReconRecords

LEMMA RecordInventoryIInv ==
    ASSUME ReconIInv, RecordInventory
    PROVE  ReconIInv'
<1>1. /\ recon' = [recon EXCEPT !.pc = "recorded"] /\ recorded' = MergeDuplicates
      /\ targets' = targets /\ merged' = merged /\ observed' = observed /\ capped' = capped
  BY DEF RecordInventory
<1>2. ReconTyped'
  BY <1>1 DEF ReconIInv, ReconTyped
<1>3. recon'.ran = recon.ran /\ recon'.pc = "recorded"
  BY <1>1 DEF ReconIInv, ReconTyped
<1>4. Root' = Root /\ Seeds' = Seeds
  BY <1>1, <1>3, TargetsKept DEF Root
<1>5. ReconKeeps'
  <2>1. \A k \in Keys : Reflects(merged'[k], k, (Root \o observed)')
    BY <1>1, <1>4 DEF ReconIInv, ReconKeeps
  <2>2. Kept(merged)' = Kept(merged)
    BY <1>1 DEF Kept
  <2> QED
    BY <1>1, <1>3, <2>1, <2>2 DEF ReconIInv, ReconKeeps
<1>6. Seeds \in Seq(Assets) /\ Root \o observed \in Seq(Assets)
  <2>1. targets \in Seq(NamedTargets) /\ observed \in Seq(Assets)
    BY DEF ReconIInv, ReconTyped
  <2>2. Root \in Seq(Assets) /\ Seeds \in Seq(Assets)
    BY <2>1, RootIsAssets, SeedsNameTargets
  <2> QED
    BY <2>1, <2>2
<1>7. ASSUME NEW k \in Keys PROVE Reflects(recorded'[k], k, EverythingSaid')
  <2>1. Reflects(Seeded[k], k, Seeds)
    BY <1>6, SeededReflects
  <2>2. Reflects(merged[k], k, Root \o observed)
    BY DEF ReconIInv, ReconKeeps
  <2>3. Reflects(IF merged[k] = NULL THEN Seeded[k] ELSE MergedWith(Seeded[k], merged[k]), k,
                 Seeds \o (Root \o observed))
    BY <1>6, <2>1, <2>2, ReflectsBoth
  <2>4. EverythingSaid' = Seeds \o (Root \o observed)
    BY <1>1, <1>4 DEF EverythingSaid
  <2>5. recorded'[k] = IF merged[k] = NULL THEN Seeded[k] ELSE MergedWith(Seeded[k], merged[k])
    BY <1>1 DEF MergeDuplicates
  <2> QED
    BY <2>3, <2>4, <2>5
<1> QED
  BY <1>2, <1>5, <1>7 DEF ReconIInv, ReconRecords

LEMMA ReconStepIInv ==
    ASSUME ReconIInv, [ReconNext]_reconVars
    PROVE  ReconIInv'
<1>1. CASE \E ran \in BOOLEAN : PlanRecon(ran)
  BY <1>1, PlanReconIInv
<1>2. CASE \E file \in 0..(2 * Len(Layout) - 1) : \E seen \in FileAt(file) : ParseRecon(file, seen)
  BY <1>2, ParseReconIInv
<1>3. CASE FilesEnd
  BY <1>3, FilesEndIInv
<1>4. CASE RecordInventory
  BY <1>4, RecordInventoryIInv
<1>5. CASE UNCHANGED reconVars
  <2>1. /\ targets' = targets /\ recon' = recon /\ merged' = merged /\ recorded' = recorded
        /\ observed' = observed /\ capped' = capped
    BY <1>5 DEF reconVars
  <2>2. ReconTyped'
    BY <2>1 DEF ReconIInv, ReconTyped
  <2>3. Root' = Root /\ Seeds' = Seeds
    BY <2>1, TargetsKept DEF Root
  <2>4. EverythingSaid' = EverythingSaid
    BY <2>1, <2>3 DEF EverythingSaid
  <2>5. \A k \in Keys : Reflects(merged'[k], k, (Root \o observed)')
    BY <2>1, <2>3 DEF ReconIInv, ReconKeeps
  <2>6. Kept(merged)' = Kept(merged)
    BY <2>1 DEF Kept
  <2>7. ReconKeeps'
    BY <2>1, <2>5, <2>6 DEF ReconIInv, ReconKeeps
  <2> QED
    BY <2>1, <2>2, <2>4, <2>7 DEF ReconIInv, ReconRecords
<1> QED
  BY <1>1, <1>2, <1>3, <1>4, <1>5 DEF ReconNext

\* What holds of the inventory follows from what it reflects.
LEMMA ReconIInvGives == ReconIInv => ReconInv
<1> SUFFICES ASSUME ReconIInv PROVE ReconInv
  OBVIOUS
<1>1. targets \in Seq(NamedTargets)
  BY DEF ReconIInv, ReconTyped
<1>2. Seeds \in Seq(Assets) /\ Root \o observed \in Seq(Assets)
  <2>1. Root \in Seq(Assets) /\ observed \in Seq(Assets)
    BY <1>1, RootIsAssets DEF ReconIInv, ReconTyped
  <2> QED
    BY <1>1, <2>1, SeedsNameTargets
<1>3. ReconTypeOK
  <2>1. ASSUME NEW k \in Keys, merged[k] # NULL PROVE merged[k].name = k
    BY <2>1 DEF ReconIInv, ReconKeeps, Reflects
  <2>2. /\ recon.pc \in {"planned", "parsing", "parsed", "recorded"}
        /\ recon.at \in 0..(2 * Len(Layout) - 1)
    BY DEF ReconIInv, ReconTyped
  <2>3. recon.at < 2 * Len(Layout)
    BY <2>2, FilesHoldAssets
  <2> QED
    BY <2>1, <2>2, <2>3 DEF ReconTypeOK
<1>4. NamedAreRecorded
  <2> SUFFICES ASSUME recon.pc = "recorded", NEW i \in DOMAIN targets, targets[i][1] # "repository"
               PROVE  recorded[targets[i][2]] # NULL
    BY DEF NamedAreRecorded
  <2> DEFINE k == targets[i][2]
  <2>1. SaidOf(k, Seeds) # {}
    BY <1>1, SeedsNameTargets
  <2>2. k \in Keys
    <3>1. targets[i] \in NamedTargets
      BY <1>1
    <3> QED
      BY <3>1 DEF NamedTargets, Keys
  <2>3. SaidOf(k, EverythingSaid) # {}
    <3> HIDE DEF k
    <3> QED
      BY <1>2, <2>1, NamedByBoth DEF EverythingSaid
  <2> HIDE DEF k
  <2>4. Reflects(recorded[k], k, EverythingSaid)
    BY <2>2 DEF ReconIInv, ReconRecords
  <2>5. recorded[k] \in Assets
    BY <2>3, <2>4 DEF Reflects
  <2> QED
    BY <2>5, NullIsNoAsset DEF k
<1>5. LastSaidIsRecorded
  <2> SUFFICES ASSUME recon.pc = "recorded", NEW k \in Keys
               PROVE  /\ recorded[k] = NULL <=> SaidOf(k, EverythingSaid) = {}
                      /\ recorded[k] # NULL =>
                            \A field \in Fields :
                                recorded[k][field] = LastSaid(k, field, EverythingSaid)
    BY DEF LastSaidIsRecorded
  <2>1. Reflects(recorded[k], k, EverythingSaid)
    BY DEF ReconIInv, ReconRecords
  <2> QED
    BY <2>1, NullIsNoAsset DEF Reflects
<1>6. CapHonoured
  BY DEF ReconIInv, ReconKeeps, CapHonoured, Kept
<1> QED
  BY <1>3, <1>4, <1>5, <1>6 DEF ReconInv

\* A recon node records every named target and, of every asset, the last that was
\* said; its dictionary stays within MAX_ASSETS (agent/nodes/recon.py,
\* scanners/recon_assets.py, services/asset.py).
THEOREM ReconInvHolds == ReconSpec => []ReconInv
<1>1. ReconInit => ReconIInv
  BY ReconInitIInv
<1>2. ReconIInv /\ [ReconNext]_reconVars => ReconIInv'
  BY ReconStepIInv
<1>3. ReconIInv => ReconInv
  BY ReconIInvGives
<1> QED
  BY <1>1, <1>2, <1>3, PTL DEF ReconSpec

-----------------------------------------------------------------------------
(* The walk over the turns                                                 *)

\* A message cut to a limit is the same message, and at most one newline longer.
LEMMA TruncatedIs ==
    ASSUME NEW m \in Messages, NEW limit \in Nat, LeastTurn <= limit
    PROVE  /\ Truncated(m, limit) \in Messages
           /\ Truncated(m, limit).id = m.id /\ Truncated(m, limit).role = m.role
           /\ Truncated(m, limit).size <= limit + 1
<1>1. Notice \in Nat \ {0} /\ LeastTurn \in Nat /\ 2 * Notice <= LeastTurn
  BY BudgetAssumption
<1> DEFINE size == Larger(limit - Notice, limit \div 2) + Notice + 1
<1>2. size \in Nat \ {0} /\ size <= limit + 1
  <2>1. limit \div 2 \in Nat /\ 2 * (limit \div 2) <= limit
    OBVIOUS
  <2> QED
    BY <1>1, <2>1 DEF Larger
<1>3. m.size \in Nat
  BY DEF Messages
<1>4. CASE m.size <= limit
  BY <1>3, <1>4 DEF Truncated
<1>5. CASE ~(m.size <= limit)
  <2>1. Truncated(m, limit) = [m EXCEPT !.size = size, !.cut = TRUE]
    BY <1>5 DEF Truncated
  <2> HIDE DEF size
  <2> QED
    BY <1>2, <2>1 DEF Messages
<1> QED
  BY <1>4, <1>5

Walks == [kept : Seq(Messages), left : Int]

\* KeepTurns walks from the newest turn to the oldest.
LEMMA KeepTurnsUnfolds ==
    ASSUME NEW turns \in Seq(Messages), NEW room \in Int
    PROVE  \E h \in [1..(Len(turns) + 1) -> Walks] :
              /\ h[Len(turns) + 1] = [kept |-> <<>>, left |-> room]
              /\ \A i \in 1..Len(turns) : h[i] = IF turns[i].size <= h[i + 1].left
                      THEN [kept |-> <<turns[i]>> \o h[i + 1].kept, left |-> h[i + 1].left - turns[i].size]
                      ELSE IF h[i + 1].kept = <<>>
                           THEN [kept |-> <<Truncated(turns[i], Larger(h[i + 1].left, LeastTurn))>>,
                                 left |-> 0]
                           ELSE h[i + 1]
              /\ KeepTurns(turns, room) = h[1].kept
<1> DEFINE n == Len(turns)
           D == Walks
           base == [kept |-> <<>>, left |-> room]
           Step(i, d) == IF turns[i].size <= d.left
                      THEN [kept |-> <<turns[i]>> \o d.kept, left |-> d.left - turns[i].size]
                      ELSE IF d.kept = <<>>
                           THEN [kept |-> <<Truncated(turns[i], Larger(d.left, LeastTurn))>>,
                                 left |-> 0]
                           ELSE d
           g == [p \in (1..n) \X D |-> Step(p[1], p[2])]
           Table(F) == F = [s \in SUBSET (DOMAIN turns) |->
                               IF s = {} THEN base ELSE Step(Min(s), F[s \ {Min(s)}])]
           It == CHOOSE F : Table(F)
<1>1. n \in Nat /\ DOMAIN turns = 1..n /\ base \in D /\ \A i \in 1..n, d \in D : Step(i, d) \in D
  <2>1. base \in Walks
    BY DEF Walks
  <2>2. ASSUME NEW i \in 1..Len(turns), NEW d \in Walks PROVE Step(i, d) \in Walks
    <3>0. turns[i] \in Messages
      OBVIOUS
    <3>1. turns[i] \in Messages /\ turns[i].size \in Nat /\ d.kept \in Seq(Messages) /\ d.left \in Int
      <4>1. turns[i].size \in Nat
        BY <3>0 DEF Messages
      <4> QED
        BY <3>0, <4>1 DEF Walks
    <3>2. Larger(d.left, LeastTurn) \in Nat /\ LeastTurn <= Larger(d.left, LeastTurn)
      BY <3>1, BudgetAssumption, SMTT(40) DEF Larger
    <3>3. Truncated(turns[i], Larger(d.left, LeastTurn)) \in Messages
      BY <3>1, <3>2, TruncatedIs
    <3>4. [kept |-> <<turns[i]>> \o d.kept, left |-> d.left - turns[i].size] \in Walks
      BY <3>1 DEF Walks
    <3>5. [kept |-> <<Truncated(turns[i], Larger(d.left, LeastTurn))>>, left |-> 0] \in Walks
      BY <3>3 DEF Walks
    <3> QED
      BY <3>4, <3>5
  <2>3. Len(turns) \in Nat /\ DOMAIN turns = 1..Len(turns)
    OBVIOUS
  <2> HIDE DEF Step
  <2> QED
    BY <2>1, <2>2, <2>3
<1>2. /\ g \in [(1..n) \X D -> D]
      /\ \A i \in 1..n, d \in D : g[<<i, d>>] = Step(i, d)
  <2> HIDE DEF n, D, base, Step
  <2> QED
    BY <1>1
<1>3. KeepTurns(turns, room) = It[1..n].kept
  BY <1>1 DEF KeepTurns, FoldRight, MapThenFoldSet
<1> HIDE DEF n, D, base, g, Step
<1>4. \E F : Table(F)
  <2>1. PICK F \in [SUBSET (1..n) -> D] : OverSetsDown(F, n, base, g)
    BY <1>1, <1>2, FoldTableDown
  <2>2. ASSUME NEW s \in SUBSET (1..n), s # {}
        PROVE  g[<<Min(s), F[s \ {Min(s)}]>>] = Step(Min(s), F[s \ {Min(s)}])
    <3>1. Min(s) \in 1..n /\ F[s \ {Min(s)}] \in D
      BY <1>1, <2>2, Extremes
    <3> QED
      BY <1>2, <3>1
  <2>3. Table(F)
    BY <1>1, <2>1, <2>2 DEF OverSetsDown
  <2> HIDE DEF Table
  <2> QED
    BY <2>3
<1>5. Table(It)
  <2> HIDE DEF Table
  <2> QED
    BY <1>4
<1> HIDE DEF It
<1>6. It[{}] = base
  BY <1>5
<1>7. FollowsTableDown(It, n, D, base, g)
  <2>1. ASSUME NEW i \in 1..n, It[(i + 1)..n] \in D PROVE It[i..n] = g[<<i, It[(i + 1)..n]>>]
    <3>1. /\ Min(i..n) = i /\ (i..n) \ {i} = (i + 1)..n
          /\ i..n \in SUBSET (1..n) /\ i..n # {}
      BY <1>1, IndexSuffixes
    <3>2. It[i..n] = Step(i, It[(i + 1)..n])
      BY <1>1, <1>5, <3>1
    <3> QED
      BY <1>2, <2>1, <3>2
  <2> QED
    BY <1>6, <2>1 DEF FollowsTableDown
<1>8. PICK h \in [1..(n + 1) -> D] : StepByStepDown(h, n, base, g) /\ It[1..n] = h[1]
  <2>1. n \in Nat /\ base \in D /\ g \in [(1..n) \X D -> D]
    BY <1>1, <1>2
  <2>2. FoldedDown(It[1..n], n, D, base, g)
    BY <1>7, <2>1, FoldStepsDown
  <2> QED
    BY <2>2 DEF FoldedDown
<1>9. ASSUME NEW i \in 1..n PROVE h[i] = Step(i, h[i + 1])
  <2>1. h[i + 1] \in D
    BY <1>1
  <2> QED
    BY <1>2, <1>8, <2>1 DEF StepByStepDown
<1> QED
  <2>1. h \in [1..(Len(turns) + 1) -> Walks] /\ h[Len(turns) + 1] = [kept |-> <<>>, left |-> room]
        /\ KeepTurns(turns, room) = h[1].kept
    BY <1>3, <1>8 DEF StepByStepDown, D, base, n
  <2>2. \A i \in 1..Len(turns) : h[i] = IF turns[i].size <= h[i + 1].left
                      THEN [kept |-> <<turns[i]>> \o h[i + 1].kept, left |-> h[i + 1].left - turns[i].size]
                      ELSE IF h[i + 1].kept = <<>>
                           THEN [kept |-> <<Truncated(turns[i], Larger(h[i + 1].left, LeastTurn))>>,
                                 left |-> 0]
                           ELSE h[i + 1]
    BY <1>9 DEF Step, n
  <2> QED
    BY <2>1, <2>2

\* A message in front adds its size.
LEMMA LengthOfMore ==
    ASSUME NEW m \in Messages, NEW s \in Seq(Messages)
    PROVE  Length(<<m>> \o s) = m.size + Length(s) /\ Length(s) \in Nat
<1> DEFINE n == Len(s)
           ms == <<m>> \o s
<1>1. /\ n \in Nat /\ ms \in Seq(Messages) /\ Len(ms) = n + 1 /\ ms[1] = m
      /\ \A i \in 1..n : ms[i + 1] = s[i]
  OBVIOUS
<1> HIDE DEF ms, n
<1>2. PICK h \in [0..n -> Nat] :
          h[0] = 0 /\ (\A i \in 1..n : h[i] = h[i - 1] + s[i].size) /\ Length(s) = h[n]
  BY LengthUnfolds DEF n
<1>3. PICK f \in [0..(n + 1) -> Nat] :
          /\ f[0] = 0 /\ (\A i \in 1..(n + 1) : f[i] = f[i - 1] + ms[i].size)
          /\ Length(ms) = f[n + 1]
  BY <1>1, LengthUnfolds
<1>4. m.size \in Nat /\ \A i \in 1..n : s[i].size \in Nat
  <2>1. \A i \in 1..n : s[i] \in Messages
    BY DEF n
  <2> QED
    BY <2>1 DEF Messages
<1> DEFINE Ahead == {i \in 0..n : f[i + 1] = m.size + h[i]}
<1>5. 0 \in Ahead
  <2>1. 1 \in 1..(n + 1) /\ 0 + 1 = 1 /\ 1 - 1 = 0 /\ 0 \in 0..n
    BY <1>1
  <2>2. f[1] = f[0] + ms[1].size
    BY <1>3, <2>1
  <2> QED
    BY <1>1, <1>2, <1>3, <1>4, <2>1, <2>2
<1>6. ASSUME NEW i \in 0..(n - 1), i \in Ahead PROVE i + 1 \in Ahead
  <2>1. /\ i + 1 \in 1..n /\ i + 1 \in 0..n /\ (i + 1) - 1 = i /\ i \in 0..n
        /\ (i + 1) + 1 \in 1..(n + 1) /\ ((i + 1) + 1) - 1 = i + 1
    BY <1>1
  <2>2. f[(i + 1) + 1] = f[i + 1] + ms[(i + 1) + 1].size
    BY <1>3, <2>1
  <2>3. h[i + 1] = h[i] + s[i + 1].size
    BY <1>2, <2>1
  <2>4. ms[(i + 1) + 1] = s[i + 1] /\ s[i + 1].size \in Nat /\ h[i] \in Nat
    BY <1>1, <1>4, <2>1
  <2>5. f[i + 1] = m.size + h[i]
    BY <1>6
  <2> QED
    BY <1>4, <2>1, <2>2, <2>3, <2>4, <2>5
<1>7. 0..n \subseteq Ahead
  <2> HIDE DEF Ahead
  <2> QED
    BY <1>1, <1>5, <1>6, Upwards
<1>8. n \in 0..n
  BY <1>1
<1> QED
  BY <1>2, <1>3, <1>7, <1>8 DEF ms

LEMMA LengthOfOne ==
    ASSUME NEW m \in Messages
    PROVE  Length(<<m>>) = m.size
<1>1. <<>> \in Seq(Messages) /\ <<m>> = <<m>> \o <<>> /\ Len(<<>>) = 0
  OBVIOUS
<1>2. Length(<<>>) = 0
  BY <1>1, LengthUnfolds
<1>3. Length(<<m>> \o <<>>) = m.size + Length(<<>>)
  BY <1>1, LengthOfMore
<1>4. m.size \in Nat
  BY DEF Messages
<1> QED
  BY <1>1, <1>2, <1>3, <1>4

\* A system prompt, and turns after it.
Opens(ms) ==
    /\ ms \in Seq(Messages) /\ Len(ms) >= 1
    /\ ms[1].role = "system" /\ \A i \in 2..Len(ms) : ms[i].role # "system"

\* The system prompt of such messages is the first, their turns are the others.
LEMMA SystemOfOpens ==
    ASSUME NEW ms, Opens(ms)
    PROVE  SystemOf(ms) = <<ms[1]>>
<1> DEFINE n == Len(ms)
<1>1. PICK h \in [0..n -> Seq(Messages)] :
          /\ h[0] = <<>>
          /\ \A i \in 1..n : h[i] = IF ms[i].role \in {"system"} THEN Append(h[i - 1], ms[i])
                                    ELSE h[i - 1]
          /\ OfRole(ms, {"system"}) = h[n]
  BY OfRoleUnfolds, ZenonT(60) DEF Opens
<1>2. n \in Nat /\ n >= 1 /\ ms[1].role = "system" /\ \A i \in 2..n : ms[i].role # "system"
  BY DEF Opens
<1> HIDE DEF n
<1> DEFINE Just == {i \in 0..n : i # 0 => h[i] = <<ms[1]>>}
<1>3. 0 \in Just
  BY <1>2
<1>4. ASSUME NEW i \in 0..(n - 1), i \in Just PROVE i + 1 \in Just
  <2>1. i + 1 \in 1..n /\ i + 1 \in 0..n /\ (i + 1) - 1 = i
    BY <1>2
  <2>2. CASE i = 0
    <3>1. i + 1 = 1 /\ ms[i + 1].role \in {"system"}
      BY <1>2, <2>2
    <3>2. h[i + 1] = Append(h[i], ms[i + 1])
      BY <1>1, <2>1, <3>1
    <3>3. h[i + 1] = <<ms[1]>>
      BY <1>1, <2>2, <3>1, <3>2
    <3> QED
      BY <2>1, <3>3
  <2>3. CASE i # 0
    <3>1. i + 1 \in 2..n
      BY <1>2, <2>3
    <3> QED
      BY <1>1, <1>2, <1>4, <2>1, <2>3, <3>1
  <2> QED
    BY <2>2, <2>3
<1>5. 0..n \subseteq Just
  <2> HIDE DEF Just
  <2> QED
    BY <1>2, <1>3, <1>4, Upwards
<1>6. n \in 0..n /\ n # 0
  BY <1>2
<1> QED
  BY <1>1, <1>5, <1>6 DEF SystemOf

LEMMA TurnsOfOpens ==
    ASSUME NEW ms, Opens(ms)
    PROVE  TurnsOf(ms) = [i \in 1..(Len(ms) - 1) |-> ms[i + 1]]
<1> DEFINE n == Len(ms)
           roles == Roles \ {"system"}
           First(i) == [j \in 1..i |-> ms[j + 1]]
<1>1. PICK h \in [0..n -> Seq(Messages)] :
          /\ h[0] = <<>>
          /\ \A i \in 1..n : h[i] = IF ms[i].role \in roles THEN Append(h[i - 1], ms[i])
                                    ELSE h[i - 1]
          /\ OfRole(ms, roles) = h[n]
  <2> HIDE DEF roles
  <2> QED
    BY OfRoleUnfolds, SMTT(40) DEF Opens
<1>2. n \in Nat /\ n >= 1 /\ ms[1].role \notin roles /\ \A i \in 2..n : ms[i].role \in roles
  <2>1. ASSUME NEW i \in 1..n PROVE ms[i].role \in Roles
    <3>1. ms[i] \in Messages
      BY DEF Opens
    <3> QED
      BY <3>1 DEF Messages
  <2>2. n \in Nat
    BY DEF Opens
  <2> QED
    BY <2>1, <2>2 DEF Opens
<1> HIDE DEF n, roles
<1> DEFINE Just == {i \in 0..n : i # 0 => h[i] = First(i - 1)}
<1>3. 0 \in Just
  BY <1>2
<1>4. ASSUME NEW i \in 0..(n - 1), i \in Just PROVE i + 1 \in Just
  <2>1. i + 1 \in 1..n /\ i + 1 \in 0..n /\ (i + 1) - 1 = i
    BY <1>2
  <2>2. CASE i = 0
    <3>1. h[1] = h[0]
      BY <1>1, <1>2, <2>1, <2>2
    <3>2. First(0) = <<>>
      OBVIOUS
    <3> QED
      BY <1>1, <2>1, <2>2, <3>1, <3>2
  <2>3. CASE i # 0
    <3>1. i + 1 \in 2..n /\ i - 1 \in Nat /\ (i - 1) + 1 = i
      BY <1>2, <2>3
    <3>2. h[i + 1] = Append(First(i - 1), ms[i + 1])
      BY <1>1, <1>2, <1>4, <2>1, <2>3, <3>1, ZenonT(60)
    <3>3. Append(First(i - 1), ms[i + 1]) = First(i)
      BY <3>1
    <3> QED
      BY <2>1, <3>2, <3>3
  <2> QED
    BY <2>2, <2>3
<1>5. 0..n \subseteq Just
  <2> HIDE DEF Just
  <2> QED
    BY <1>2, <1>3, <1>4, Upwards
<1>6. n \in 0..n /\ n # 0
  BY <1>2
<1> QED
  BY <1>1, <1>5, <1>6 DEF TurnsOf, n, roles

\* What the walk has kept when it has come to the message of some id: the newest
\* turn and others in their order, uncut but for the newest, within the room.
Walked(w, id, newest, room) ==
    LET n == Len(w.kept) IN
    /\ w.kept \in Seq(Messages) /\ n >= 1 /\ w.left \in Nat
    /\ w.kept[n].id = newest
    /\ \A i \in 1..n : w.kept[i].role # "system" /\ w.kept[i].id >= id
    /\ \A i, j \in 1..n : i < j => w.kept[i].id <= w.kept[j].id
    /\ \A i \in 1..(n - 1) : ~w.kept[i].cut
    /\ Length(w.kept) + w.left <= Larger(room, LeastTurn) + 1

\* The newest turn is kept whole, or truncated to the room it may have.
LEMMA WalkStarts ==
    ASSUME NEW m \in Messages, m.role # "system", NEW room \in Int, NEW w,
           w = IF m.size <= room THEN [kept |-> <<m>>, left |-> room - m.size]
               ELSE [kept |-> <<Truncated(m, Larger(room, LeastTurn))>>, left |-> 0]
    PROVE  Walked(w, m.id, m.id, room)
<1> DEFINE limit == Larger(room, LeastTurn)
<1>1. limit \in Nat /\ LeastTurn <= limit /\ room <= limit /\ m.size \in Nat \ {0} /\ m.id \in Nat
  BY BudgetAssumption DEF Larger, Messages
<1>2. PICK k \in Messages : /\ w.kept = <<k>> /\ k.id = m.id /\ k.role = m.role
                            /\ w.left \in Nat /\ k.size + w.left <= limit + 1
  <2>1. CASE m.size <= room
    <3>1. w.kept = <<m>> /\ w.left = room - m.size
      BY <2>1
    <3>2. w.left \in Nat /\ m.size + w.left <= limit + 1
      BY <1>1, <2>1, <3>1
    <3> QED
      BY <3>1, <3>2
  <2>2. CASE ~(m.size <= room)
    <3> DEFINE k == Truncated(m, limit)
    <3>1. w.kept = <<k>> /\ w.left = 0
      BY <2>2
    <3> HIDE DEF limit
    <3>2. k \in Messages /\ k.id = m.id /\ k.role = m.role /\ k.size <= limit + 1
      BY <1>1, TruncatedIs
    <3>3. k.size \in Nat
      BY <3>2 DEF Messages
    <3> HIDE DEF k
    <3>4. w.left \in Nat /\ k.size + w.left <= limit + 1
      BY <1>1, <3>1, <3>2, <3>3
    <3> QED
      BY <3>1, <3>2, <3>4
  <2> QED
    BY <2>1, <2>2
<1>3. Length(w.kept) = k.size
  BY <1>2, LengthOfOne
<1>4. <<k>> \in Seq(Messages) /\ Len(<<k>>) = 1 /\ <<k>>[1] = k
  OBVIOUS
<1>5. \A i \in 1..1 : i = 1
  OBVIOUS
<1> HIDE DEF limit
<1>6. Length(w.kept) + w.left <= Larger(room, LeastTurn) + 1
  BY <1>2, <1>3 DEF limit
<1> QED
  BY <1>1, <1>2, <1>4, <1>5, <1>6 DEF Walked

\* An earlier turn is kept in front of the others when it fits, and left out if not.
LEMMA WalkContinues ==
    ASSUME NEW m \in Messages, m.role # "system", ~m.cut, NEW room \in Int, NEW newest \in Nat,
           NEW w, Walked(w, m.id + 1, newest, room), NEW more,
           more = IF m.size <= w.left
                  THEN [kept |-> <<m>> \o w.kept, left |-> w.left - m.size] ELSE w
    PROVE  Walked(more, m.id, newest, room)
<1> DEFINE n == Len(w.kept)
<1>1. /\ w.kept \in Seq(Messages) /\ n \in Nat /\ n >= 1 /\ w.left \in Nat
      /\ w.kept[n].id = newest
      /\ \A i \in 1..n : w.kept[i].role # "system" /\ w.kept[i].id >= m.id + 1
      /\ \A i, j \in 1..n : i < j => w.kept[i].id <= w.kept[j].id
      /\ \A i \in 1..(n - 1) : ~w.kept[i].cut
      /\ Length(w.kept) + w.left <= Larger(room, LeastTurn) + 1
  BY DEF Walked
<1>2. /\ m.id \in Nat /\ m.size \in Nat /\ \A i \in 1..n : w.kept[i].id \in Nat
  <2>1. \A i \in 1..n : w.kept[i] \in Messages
    BY <1>1
  <2> QED
    BY <2>1 DEF Messages
<1>3. CASE m.size <= w.left
  <2> DEFINE kept == <<m>> \o w.kept
  <2>1. more.kept = kept /\ more.left = w.left - m.size
    BY <1>3
  <2>2. /\ kept \in Seq(Messages) /\ Len(kept) = n + 1 /\ kept[1] = m
        /\ \A i \in 1..n : kept[i + 1] = w.kept[i]
    BY <1>1
  <2>3. ASSUME NEW i \in 1..(n + 1) PROVE i = 1 \/ (i - 1 \in 1..n /\ kept[i] = w.kept[i - 1])
    <3>1. i = 1 \/ (i - 1 \in 1..n /\ (i - 1) + 1 = i)
      BY <1>1
    <3> QED
      BY <2>2, <3>1
  <2>4. Length(kept) = m.size + Length(w.kept) /\ Length(w.kept) \in Nat
    BY <1>1, LengthOfMore
  <2> HIDE DEF kept, n
  <2>5. kept[n + 1].id = newest
    BY <1>1, <2>2
  <2>11. ASSUME NEW i \in 1..n
         PROVE  w.kept[i].role # "system" /\ w.kept[i].id >= m.id /\ m.id <= w.kept[i].id
    <3>1. w.kept[i].id \in Nat /\ w.kept[i].id >= m.id + 1 /\ w.kept[i].role # "system"
      BY <1>1, <1>2
    <3> QED
      BY <1>2, <3>1, SMTT(40)
  <2>6. ASSUME NEW i \in 1..(n + 1) PROVE kept[i].role # "system" /\ kept[i].id >= m.id
    <3>1. CASE i = 1
      <4>1. kept[i] = m
        BY <2>2, <3>1
      <4> QED
        BY <1>2, <4>1
    <3>2. CASE i # 1
      BY <2>3, <2>11, <3>2
    <3> QED
      BY <3>1, <3>2
  <2>7. ASSUME NEW i \in 1..(n + 1), NEW j \in 1..(n + 1), i < j PROVE kept[i].id <= kept[j].id
    <3>1. j - 1 \in 1..n /\ kept[j] = w.kept[j - 1]
      BY <1>1, <2>3, <2>7, SMTT(40)
    <3>2. CASE i = 1
      <4>1. kept[i] = m
        BY <2>2, <3>2
      <4> QED
        BY <2>11, <3>1, <4>1
    <3>3. CASE i # 1
      <4>1. i - 1 \in 1..n /\ kept[i] = w.kept[i - 1]
        BY <2>3, <3>3
      <4>2. i - 1 < j - 1
        BY <2>7
      <4> QED
        BY <1>1, <3>1, <4>1, <4>2
    <3> QED
      BY <3>2, <3>3
  <2>8. ASSUME NEW i \in 1..n PROVE ~kept[i].cut
    <3>1. CASE i = 1
      BY <2>2, <3>1
    <3>2. CASE i # 1
      <4>1. i \in 1..(n + 1) /\ i - 1 \in 1..(n - 1)
        BY <1>1, <3>2
      <4>2. kept[i] = w.kept[i - 1]
        BY <2>3, <3>2, <4>1
      <4> QED
        BY <1>1, <4>1, <4>2, SMTT(40)
    <3> QED
      BY <3>1, <3>2
  <2>9. Length(kept) + more.left <= Larger(room, LeastTurn) + 1 /\ more.left \in Nat
    <3>1. Length(kept) + more.left = Length(w.kept) + w.left
      BY <1>1, <1>2, <2>1, <2>4, SMTT(40)
    <3>2. more.left \in Nat
      BY <1>1, <1>2, <1>3, <2>1, SMTT(40)
    <3> QED
      BY <1>1, <3>1, <3>2
  <2>10. n + 1 >= 1 /\ (n + 1) - 1 = n
    BY <1>1
  <2> QED
    BY <2>1, <2>2, <2>5, <2>6, <2>7, <2>8, <2>9, <2>10, ZenonT(60) DEF Walked
<1>4. CASE ~(m.size <= w.left)
  <2>1. more = w
    BY <1>4
  <2>2. \A i \in 1..n : w.kept[i].id >= m.id
    BY <1>1, <1>2, SMTT(40)
  <2> QED
    BY <1>1, <2>1, <2>2 DEF Walked
<1> QED
  BY <1>3, <1>4

LEMMA WalkEnds ==
    ASSUME NEW turns \in Seq(Messages), Len(turns) >= 1, NEW room \in Int,
           \A i \in 1..Len(turns) : turns[i].id = i + 1 /\ turns[i].role # "system" /\ ~turns[i].cut
    PROVE  \E w \in Walks :
              w.kept = KeepTurns(turns, room) /\ Walked(w, 2, Len(turns) + 1, room)
<1> DEFINE n == Len(turns)
           Rest(i, d) == IF d.kept = <<>>
                         THEN [kept |-> <<Truncated(turns[i], Larger(d.left, LeastTurn))>>,
                               left |-> 0]
                         ELSE d
<1>1. PICK h \in [1..(n + 1) -> Walks] :
          /\ h[n + 1] = [kept |-> <<>>, left |-> room]
          /\ \A i \in 1..n : h[i] = IF turns[i].size <= h[i + 1].left
                                    THEN [kept |-> <<turns[i]>> \o h[i + 1].kept,
                                          left |-> h[i + 1].left - turns[i].size]
                                    ELSE Rest(i, h[i + 1])
          /\ KeepTurns(turns, room) = h[1].kept
  BY KeepTurnsUnfolds, ZenonT(60)
<1>2. /\ n \in Nat /\ n >= 1 /\ \A i \in 1..n : turns[i] \in Messages
      /\ \A i \in 1..n : turns[i].id = i + 1 /\ turns[i].role # "system" /\ ~turns[i].cut
  OBVIOUS
<1> HIDE DEF n
<1> DEFINE Good == {j \in 0..(n - 1) : Walked(h[n - j], (n - j) + 1, n + 1, room)}
<1>3. 0 \in Good
  <2> DEFINE m == turns[n]
  <2>1. n \in 1..n /\ m \in Messages /\ m.id = n + 1 /\ m.role # "system"
    BY <1>2
  <2>2. h[n] = IF m.size <= room THEN [kept |-> <<m>>, left |-> room - m.size]
               ELSE [kept |-> <<Truncated(m, Larger(room, LeastTurn))>>, left |-> 0]
    <3>1. h[n + 1].kept = <<>> /\ h[n + 1].left = room /\ <<m>> \o <<>> = <<m>>
      BY <1>1
    <3>2. h[n] = IF m.size <= h[n + 1].left
                 THEN [kept |-> <<m>> \o h[n + 1].kept, left |-> h[n + 1].left - m.size]
                 ELSE Rest(n, h[n + 1])
      BY <1>1, <2>1
    <3> QED
      BY <3>1, <3>2
  <2> HIDE DEF m
  <2>3. Walked(h[n], m.id, m.id, room)
    BY <2>1, <2>2, WalkStarts
  <2>4. n - 0 = n /\ 0 \in 0..(n - 1)
    BY <1>2
  <2> QED
    BY <2>1, <2>3, <2>4
<1>4. ASSUME NEW j \in 0..((n - 1) - 1), j \in Good PROVE j + 1 \in Good
  <2> DEFINE i == n - (j + 1)
             m == turns[i]
             w == h[i + 1]
  <2>1. i \in 1..n /\ n - j = i + 1 /\ j + 1 \in 0..(n - 1)
    BY <1>2
  <2> HIDE DEF i
  <2>2. m \in Messages /\ m.id = i + 1 /\ m.role # "system" /\ ~m.cut
    BY <1>2, <2>1
  <2>3. Walked(w, m.id + 1, n + 1, room)
    BY <1>4, <2>1, <2>2
  <2>4. w.kept # <<>>
    BY <2>3 DEF Walked
  <2>5. h[i] = IF m.size <= w.left THEN [kept |-> <<m>> \o w.kept, left |-> w.left - m.size]
               ELSE w
    BY <1>1, <2>1, <2>4
  <2> HIDE DEF m, w
  <2>6. n + 1 \in Nat
    BY <1>2
  <2>7. Walked(h[i], m.id, n + 1, room)
    BY <2>2, <2>3, <2>5, <2>6, WalkContinues
  <2> QED
    BY <2>1, <2>2, <2>7 DEF i
<1>5. n - 1 \in Good
  <2>1. 0..(n - 1) \subseteq Good
    <3>1. n - 1 \in Nat
      BY <1>2
    <3> HIDE DEF Good
    <3> QED
      BY <1>3, <1>4, <3>1, Upwards
  <2>2. n - 1 \in 0..(n - 1)
    BY <1>2
  <2> HIDE DEF Good
  <2> QED
    BY <2>1, <2>2
<1>6. Walked(h[1], 2, n + 1, room) /\ h[1] \in Walks
  <2>1. n - (n - 1) = 1 /\ 1 + 1 = 2 /\ 1 \in 1..(n + 1)
    BY <1>2
  <2> QED
    BY <1>5, <2>1
<1> QED
  BY <1>1, <1>6 DEF n

-----------------------------------------------------------------------------
(* The exchange                                                            *)

\* The messages of an exchange: the system prompt and the turns, numbered, uncut.
Conversing(ms) ==
    /\ Opens(ms) /\ Len(ms) >= 2
    /\ \A i \in 1..Len(ms) : ms[i].id = i /\ ~ms[i].cut

\* What may be sent of the messages ms.
Fit(out, ms) ==
    /\ Opens(out) /\ out[1] = ms[1]
    /\ out[Len(out)].id = ms[Len(ms)].id
    /\ \A i, j \in 1..Len(out) : i < j => out[i].id <= out[j].id \/ out[i].role = "system"
    /\ \A i \in 1..(Len(out) - 1) : ~out[i].cut
    /\ Length(out) <= Larger(Limit, ms[1].size + LeastTurn) + Marker + 1

LEMMA BudgetFits ==
    ASSUME NEW ms, Conversing(ms)
    PROVE  Fit(EnforceBudget(ms), ms)
<1> DEFINE n == Len(ms)
<1>1. /\ Opens(ms) /\ ms \in Seq(Messages) /\ n \in Nat /\ n >= 2
      /\ \A i \in 1..n : ms[i] \in Messages /\ ms[i].id = i /\ ~ms[i].cut
      /\ ms[1].role = "system" /\ \A i \in 2..n : ms[i].role # "system"
  BY DEF Conversing, Opens
<1>2. /\ Limit \in Nat /\ Marker \in Nat \ {0} /\ LeastTurn \in Nat
      /\ ms[1].size \in Nat /\ Length(ms) \in Nat
  <2>1. ms[1] \in Messages
    BY <1>1
  <2>2. Length(ms) \in Nat
    BY <1>1, <2>1, LengthOfMore
  <2> QED
    BY <2>1, <2>2, BudgetAssumption DEF Messages
<1>3. CASE Length(ms) <= Limit
  <2>1. EnforceBudget(ms) = ms
    BY <1>3 DEF EnforceBudget
  <2>2. \A i, j \in 1..n : i < j => ms[i].id <= ms[j].id
    BY <1>1
  <2>3. Length(ms) <= Larger(Limit, ms[1].size + LeastTurn) + Marker + 1
    BY <1>2, <1>3 DEF Larger
  <2>4. \A i \in 1..(n - 1) : ~ms[i].cut
    BY <1>1
  <2> QED
    BY <1>1, <2>1, <2>2, <2>3, <2>4 DEF Fit
<1>4. CASE ~(Length(ms) <= Limit)
  <2> DEFINE first == ms[1]
             turns == TurnsOf(ms)
             room == Limit - first.size
             kept == KeepTurns(turns, room)
             mark == Message("user", Marker, 0)
             marker == IF Len(kept) < Len(turns) THEN <<mark>> ELSE <<>>
             out == EnforceBudget(ms)
  <2>1. SystemOf(ms) = <<first>> /\ Length(<<first>>) = first.size /\ first \in Messages
    <3>1. first \in Messages
      BY <1>1
    <3> HIDE DEF first
    <3>2. Length(<<first>>) = first.size
      BY <3>1, LengthOfOne
    <3> QED
      BY <1>1, <3>1, <3>2, SystemOfOpens DEF first
  <2>2. /\ turns \in Seq(Messages) /\ Len(turns) = n - 1
        /\ \A i \in 1..Len(turns) :
              turns[i].id = i + 1 /\ turns[i].role # "system" /\ ~turns[i].cut
    <3>1. turns = [i \in 1..(n - 1) |-> ms[i + 1]]
      BY <1>1, TurnsOfOpens
    <3>2. n - 1 \in Nat /\ \A i \in 1..(n - 1) : i + 1 \in 1..n /\ i + 1 \in 2..n
      BY <1>1
    <3> HIDE DEF turns, n
    <3>3. turns \in Seq(Messages) /\ Len(turns) = n - 1
      BY <1>1, <3>1, <3>2
    <3> QED
      BY <1>1, <3>1, <3>2, <3>3
  <2>3. out = <<first>> \o marker \o kept
    BY <1>4, <2>1 DEF EnforceBudget
  <2>4. PICK w \in Walks : w.kept = kept /\ Walked(w, 2, n, room)
    <3>1. Len(turns) >= 1 /\ room \in Int /\ Len(turns) + 1 = n
      BY <1>1, <1>2, <2>2
    <3> HIDE DEF turns, room, n
    <3> QED
      BY <2>2, <3>1, WalkEnds
  <2>5. mark \in Messages /\ mark.id = 0 /\ mark.size = Marker /\ mark.role # "system" /\ ~mark.cut
    BY <1>2 DEF Message, Messages, Roles
  <2> HIDE DEF first, turns, kept, mark, out
  <2> DEFINE tail == marker \o kept
             k == Len(kept)
  <2>6. /\ kept \in Seq(Messages) /\ k \in Nat /\ k >= 1 /\ w.left \in Nat /\ kept[k].id = n
        /\ \A i \in 1..k : kept[i].role # "system" /\ kept[i].id >= 2
        /\ \A i, j \in 1..k : i < j => kept[i].id <= kept[j].id
        /\ \A i \in 1..(k - 1) : ~kept[i].cut
        /\ Length(kept) + w.left <= Larger(room, LeastTurn) + 1
    BY <2>4 DEF Walked
  <2>7. /\ tail \in Seq(Messages) /\ Len(tail) \in Nat /\ Len(tail) >= 1
        /\ tail[Len(tail)].id = n
        /\ \A i \in 1..Len(tail) : tail[i].role # "system"
        /\ \A i, j \in 1..Len(tail) : i < j => tail[i].id <= tail[j].id
        /\ \A i \in 1..(Len(tail) - 1) : ~tail[i].cut
        /\ Length(tail) \in Nat /\ Length(tail) <= Length(kept) + Marker
    <3>1. Length(kept) \in Nat
      BY <2>1, <2>6, LengthOfMore
    <3>2. CASE marker = <<>>
      <4>1. tail = kept
        BY <2>6, <3>2
      <4> HIDE DEF tail
      <4>2. Length(kept) <= Length(kept) + Marker
        BY <1>2, <3>1
      <4> QED
        BY <2>6, <3>1, <4>1, <4>2
    <3>3. CASE marker = <<mark>>
      <4>1. tail = <<mark>> \o kept
        BY <3>3
      <4>2. /\ tail \in Seq(Messages) /\ Len(tail) = k + 1 /\ tail[1] = mark
            /\ \A i \in 1..k : tail[i + 1] = kept[i]
        BY <2>5, <2>6, <4>1
      <4>3. Length(tail) = Marker + Length(kept)
        BY <2>5, <2>6, <4>1, LengthOfMore
      <4> HIDE DEF tail, k
      <4>4. ASSUME NEW i \in 1..(k + 1) PROVE i = 1 \/ (i - 1 \in 1..k /\ tail[i] = kept[i - 1])
        <5>1. i = 1 \/ (i - 1 \in 1..k /\ (i - 1) + 1 = i)
          BY <2>6
        <5> QED
          BY <4>2, <5>1
      <4>5. tail[k + 1].id = n
        BY <2>6, <4>2
      <4>6. \A i \in 1..(k + 1) : tail[i].role # "system"
        BY <2>5, <2>6, <4>2, <4>4
      <4>7. ASSUME NEW i \in 1..(k + 1), NEW j \in 1..(k + 1), i < j
            PROVE  tail[i].id <= tail[j].id
        <5>1. j - 1 \in 1..k /\ tail[j] = kept[j - 1]
          BY <2>6, <4>4, <4>7
        <5>2. CASE i = 1
          <6>1. kept[j - 1].id \in Nat
            <7>1. kept[j - 1] \in Messages
              BY <2>6, <5>1 DEF k
            <7> QED
              BY <7>1 DEF Messages
          <6>2. tail[i].id = 0
            BY <2>5, <4>2, <5>2
          <6> QED
            BY <5>1, <6>1, <6>2
        <5>3. CASE i # 1
          <6>1. i - 1 \in 1..k /\ tail[i] = kept[i - 1] /\ i - 1 < j - 1
            BY <4>4, <4>7, <5>3
          <6> QED
            BY <2>6, <5>1, <6>1
        <5> QED
          BY <5>2, <5>3
      <4>8. ASSUME NEW i \in 1..k PROVE ~tail[i].cut
        <5>1. CASE i = 1
          BY <2>5, <4>2, <5>1
        <5>2. CASE i # 1
          <6>1. i \in 1..(k + 1) /\ i - 1 \in 1..(k - 1)
            BY <2>6, <5>2
          <6>2. tail[i] = kept[i - 1]
            BY <4>4, <5>2, <6>1
          <6> QED
            BY <2>6, <6>1, <6>2
        <5> QED
          BY <5>1, <5>2
      <4>9. (k + 1) - 1 = k /\ k + 1 >= 1 /\ k + 1 \in Nat
        BY <2>6
      <4>10. Length(tail) \in Nat /\ Length(tail) <= Length(kept) + Marker
        BY <1>2, <3>1, <4>3
      <4> QED
        BY <4>2, <4>5, <4>6, <4>7, <4>8, <4>9, <4>10
    <3> QED
      BY <3>2, <3>3
  <2> DEFINE t == Len(tail)
  <2>8. out = <<first>> \o tail
    <3>1. marker \in Seq(Messages)
      BY <2>5
    <3> HIDE DEF marker
    <3> QED
      BY <2>1, <2>3, <2>6, <3>1, SMTT(40)
  <2> HIDE DEF tail
  <2>9. /\ out \in Seq(Messages) /\ Len(out) = t + 1 /\ out[1] = first
        /\ \A i \in 1..t : out[i + 1] = tail[i]
    BY <2>1, <2>7, <2>8
  <2>10. Length(out) = first.size + Length(tail)
    BY <2>1, <2>7, <2>8, LengthOfMore
  <2>11. first.role = "system" /\ ~first.cut /\ first.size \in Nat
    BY <1>1, <1>2 DEF first
  <2> HIDE DEF t
  <2>12. ASSUME NEW i \in 2..(t + 1) PROVE i - 1 \in 1..t /\ out[i] = tail[i - 1]
    <3>1. i - 1 \in 1..t /\ (i - 1) + 1 = i
      BY <2>7 DEF t
    <3> QED
      BY <2>9, <3>1
  <2>13. t \in Nat /\ t >= 1
    BY <2>7 DEF t
  <2>14. Opens(out)
    <3>1. \A i \in 2..(t + 1) : out[i].role # "system"
      BY <2>7, <2>12 DEF t
    <3> QED
      BY <2>9, <2>11, <2>13, <3>1 DEF Opens
  <2>15. out[t + 1].id = n
    BY <2>7, <2>9, <2>13 DEF t
  <2>16. ASSUME NEW i \in 1..(t + 1), NEW j \in 1..(t + 1), i < j
         PROVE  out[i].id <= out[j].id \/ out[i].role = "system"
    <3>1. CASE i = 1
      BY <2>9, <2>11, <3>1
    <3>2. CASE i # 1
      <4>1. i \in 2..(t + 1) /\ j \in 2..(t + 1) /\ i - 1 < j - 1
        BY <2>13, <2>16, <3>2
      <4>2. /\ i - 1 \in 1..t /\ out[i] = tail[i - 1]
            /\ j - 1 \in 1..t /\ out[j] = tail[j - 1]
        BY <2>12, <4>1
      <4> QED
        BY <2>7, <4>1, <4>2 DEF t
    <3> QED
      BY <3>1, <3>2
  <2>17. ASSUME NEW i \in 1..t PROVE ~out[i].cut
    <3>1. CASE i = 1
      BY <2>9, <2>11, <3>1
    <3>2. CASE i # 1
      <4>1. i \in 2..(t + 1) /\ i - 1 \in 1..(t - 1)
        BY <2>13, <3>2
      <4>2. out[i] = tail[i - 1]
        BY <2>12, <4>1
      <4> QED
        BY <2>7, <4>1, <4>2 DEF t
    <3> QED
      BY <3>1, <3>2
  <2>18. Length(out) <= Larger(Limit, first.size + LeastTurn) + Marker + 1
    <3>1. Length(kept) \in Nat
      BY <2>1, <2>6, LengthOfMore
    <3>2. Length(kept) <= Larger(room, LeastTurn) + 1
      <4>1. Larger(room, LeastTurn) \in Int
        BY <1>2, <2>11 DEF Larger
      <4> HIDE DEF room
      <4> QED
        BY <2>6, <3>1, <4>1
    <3>3. first.size + Larger(room, LeastTurn) = Larger(Limit, first.size + LeastTurn)
          /\ Larger(room, LeastTurn) \in Int
      BY <1>2, <2>11 DEF Larger
    <3> HIDE DEF room
    <3> QED
      BY <1>2, <2>7, <2>10, <2>11, <3>1, <3>2, <3>3, SMTT(40)
  <2>19. ms[n].id = n /\ (t + 1) - 1 = t
    BY <1>1, <2>13
  <2> QED
    BY <2>9, <2>14, <2>15, <2>16, <2>17, <2>18, <2>19 DEF Fit, first, out
<1> QED
  BY <1>3, <1>4

\* Between its steps an exchange asks a conversation, and has sent what fits of it.
PromptIInv ==
    /\ Conversing(question) /\ Conversing(asked) /\ sent \in Seq(Messages)
    /\ exchange \in [pc : {"send", "wait", "answered", "raised"}, attempt : 1..MaxAsks]
    /\ Sending => Fit(sent, asked)

LEMMA MessageIs ==
    ASSUME NEW role \in Roles, NEW size \in Nat \ {0}, NEW id \in Nat
    PROVE  /\ Message(role, size, id) \in Messages /\ Message(role, size, id).id = id
           /\ Message(role, size, id).role = role /\ ~Message(role, size, id).cut
BY DEF Message, Messages

LEMMA PromptInitIInv == PromptInit => PromptIInv
<1> SUFFICES ASSUME PromptInit PROVE PromptIInv
  OBVIOUS
<1>1. PICK s \in SystemSizes, n \in 1..MaxTurns : \E sizes \in [1..n -> Sizes] :
          question = <<Message("system", s, 1)>>
                        \o [i \in 1..n |-> Message("user", sizes[i], i + 1)]
  BY DEF PromptInit
<1>2. PICK sizes \in [1..n -> Sizes] :
          question = <<Message("system", s, 1)>>
                        \o [i \in 1..n |-> Message("user", sizes[i], i + 1)]
  BY <1>1
<1> DEFINE first == Message("system", s, 1)
           turns == [i \in 1..n |-> Message("user", sizes[i], i + 1)]
<1>3. n \in Nat /\ n >= 1 /\ s \in Nat \ {0} /\ \A i \in 1..n : sizes[i] \in Nat \ {0}
  BY BudgetAssumption, SMTT(40)
<1>4. first \in Messages /\ first.id = 1 /\ first.role = "system" /\ ~first.cut
  BY <1>3, MessageIs DEF Roles
<1>5. ASSUME NEW i \in 1..n
      PROVE  turns[i] \in Messages /\ turns[i].id = i + 1 /\ turns[i].role # "system" /\ ~turns[i].cut
  <2>1. turns[i] = Message("user", sizes[i], i + 1) /\ i + 1 \in Nat /\ sizes[i] \in Nat \ {0}
    BY <1>3
  <2>2. "user" \in Roles
    BY DEF Roles
  <2> HIDE DEF turns
  <2> QED
    BY <2>1, <2>2, MessageIs
<1>6. turns \in Seq(Messages) /\ Len(turns) = n
  <2>1. DOMAIN turns = 1..n
    OBVIOUS
  <2>2. turns \in [1..n -> Messages]
    BY <1>5
  <2> HIDE DEF turns
  <2> QED
    BY <1>3, <2>1, <2>2
<1>7. question = <<first>> \o turns
  BY <1>2
<1> HIDE DEF first, turns
<1>8. /\ question \in Seq(Messages) /\ Len(question) = n + 1 /\ question[1] = first
      /\ \A i \in 1..n : question[i + 1] = turns[i]
  BY <1>4, <1>6, <1>7
<1>9. ASSUME NEW i \in 2..(n + 1)
      PROVE  question[i].id = i /\ question[i].role # "system" /\ ~question[i].cut
  <2>1. i - 1 \in 1..n /\ (i - 1) + 1 = i
    BY <1>3
  <2> QED
    BY <1>5, <1>8, <2>1
<1>10. Conversing(question)
  <2>1. \A i \in 1..(n + 1) : i = 1 \/ i \in 2..(n + 1)
    BY <1>3
  <2>2. \A i \in 1..(n + 1) : question[i].id = i /\ ~question[i].cut
    BY <1>4, <1>8, <1>9, <2>1
  <2>3. n + 1 >= 1 /\ n + 1 >= 2
    BY <1>3
  <2> QED
    BY <1>4, <1>8, <1>9, <2>2, <2>3 DEF Conversing, Opens
<1>11. asked = question /\ sent = <<>> /\ exchange = [pc |-> "send", attempt |-> 1]
  BY DEF PromptInit
<1>12. 1 \in 1..MaxAsks
  BY BudgetAssumption
<1> QED
  BY <1>10, <1>11, <1>12 DEF PromptIInv, Sending

LEMMA RejectIInv ==
    ASSUME PromptIInv, Reject
    PROVE  PromptIInv'
<1> DEFINE n == Len(question)
<1>1. PICK reply \in Sizes, error \in Sizes :
          asked' = question \o <<Message("assistant", Smaller(reply, ReplyKept), n + 1),
                                 Message("user", error, (n + 1) + 1)>>
  BY DEF Reject
<1>2. /\ exchange' = [pc |-> "send", attempt |-> exchange.attempt + 1]
      /\ exchange.attempt < MaxAsks /\ question' = question /\ sent' = sent
  BY DEF Reject
<1> DEFINE a == Message("assistant", Smaller(reply, ReplyKept), n + 1)
           b == Message("user", error, (n + 1) + 1)
<1>3. /\ question \in Seq(Messages) /\ n \in Nat /\ n >= 2
      /\ question[1].role = "system" /\ \A i \in 2..n : question[i].role # "system"
      /\ \A i \in 1..n : question[i].id = i /\ ~question[i].cut
  BY DEF PromptIInv, Conversing, Opens
<1>4. /\ a \in Messages /\ a.id = n + 1 /\ a.role # "system" /\ ~a.cut
      /\ b \in Messages /\ b.id = n + 2 /\ b.role # "system" /\ ~b.cut
  <2>1. Smaller(reply, ReplyKept) \in Nat \ {0} /\ error \in Nat \ {0}
    BY BudgetAssumption DEF Smaller
  <2>2. "assistant" \in Roles /\ "user" \in Roles
    BY DEF Roles
  <2>3. n + 1 \in Nat /\ (n + 1) + 1 \in Nat /\ (n + 1) + 1 = n + 2
    BY <1>3
  <2> QED
    BY <2>1, <2>2, <2>3, MessageIs
<1>5. asked' = question \o <<a, b>>
  BY <1>1
<1> HIDE DEF a, b
<1>6. /\ asked' \in Seq(Messages) /\ Len(asked') = n + 2
      /\ \A i \in 1..n : asked'[i] = question[i]
      /\ asked'[n + 1] = a /\ asked'[n + 2] = b
  <2>1. <<a, b>> \in Seq(Messages) /\ Len(<<a, b>>) = 2 /\ <<a, b>>[1] = a /\ <<a, b>>[2] = b
    BY <1>4
  <2> QED
    BY <1>3, <1>5, <2>1
<1> HIDE DEF n
<1>7. \A i \in 1..(n + 2) : i \in 1..n \/ i = n + 1 \/ i = n + 2
  BY <1>3
<1>8. \A i \in 1..(n + 2) : asked'[i].id = i /\ ~asked'[i].cut
  BY <1>3, <1>4, <1>6, <1>7
<1>9. ASSUME NEW i \in 2..(n + 2) PROVE asked'[i].role # "system"
  <2>1. i \in 2..n \/ i = n + 1 \/ i = n + 2
    BY <1>3
  <2>2. \A j \in 2..n : j \in 1..n
    OBVIOUS
  <2> QED
    BY <1>3, <1>4, <1>6, <2>1, <2>2
<1>10. asked'[1].role = "system"
  <2>1. 1 \in 1..n
    BY <1>3
  <2> QED
    BY <1>3, <1>6, <2>1
<1>11. Conversing(asked)'
  <2>1. n + 2 >= 1 /\ n + 2 >= 2
    BY <1>3
  <2> QED
    BY <1>6, <1>8, <1>9, <1>10, <2>1 DEF Conversing, Opens
<1>12. exchange' \in [pc : {"send", "wait", "answered", "raised"}, attempt : 1..MaxAsks]
  <2>1. exchange.attempt + 1 \in 1..MaxAsks
    <3>1. exchange.attempt \in 1..MaxAsks /\ MaxAsks \in Nat
      BY BudgetAssumption DEF PromptIInv
    <3> QED
      BY <1>2, <3>1
  <2> QED
    BY <1>2, <2>1
<1>13. ~Sending'
  BY <1>2 DEF Sending
<1>14. Conversing(question)' /\ sent' \in Seq(Messages)
  BY <1>2 DEF PromptIInv, Conversing, Opens
<1> QED
  BY <1>11, <1>12, <1>13, <1>14 DEF PromptIInv

LEMMA PromptStepIInv ==
    ASSUME PromptIInv, [PromptNext]_promptVars
    PROVE  PromptIInv'
<1>1. CASE Send
  <2>1. /\ sent' = EnforceBudget(asked) /\ question' = question /\ asked' = asked
        /\ exchange' = [exchange EXCEPT !.pc = "wait"]
    BY <1>1 DEF Send, ExchangeMoves
  <2>2. Fit(EnforceBudget(asked), asked)
    BY BudgetFits DEF PromptIInv
  <2>3. Fit(sent, asked)'
    BY <2>1, <2>2 DEF Fit, Opens
  <2>4. Conversing(question)' /\ Conversing(asked)' /\ sent' \in Seq(Messages)
    BY <2>1, <2>2 DEF PromptIInv, Conversing, Opens, Fit
  <2>5. exchange' \in [pc : {"send", "wait", "answered", "raised"}, attempt : 1..MaxAsks]
    BY <2>1 DEF PromptIInv
  <2> QED
    BY <2>3, <2>4, <2>5 DEF PromptIInv
<1>2. CASE Accept \/ Fail
  <2>1. /\ sent' = sent /\ question' = question /\ asked' = asked /\ exchange.pc = "wait"
        /\ (exchange' = [exchange EXCEPT !.pc = "answered"]
              \/ exchange' = [exchange EXCEPT !.pc = "raised"])
    BY <1>2 DEF Accept, Fail, ExchangeMoves
  <2>2. Fit(sent, asked)
    BY <2>1 DEF PromptIInv, Sending
  <2>3. Fit(sent, asked)'
    BY <2>1, <2>2 DEF Fit, Opens
  <2>4. Conversing(question)' /\ Conversing(asked)' /\ sent' \in Seq(Messages)
    BY <2>1 DEF PromptIInv, Conversing, Opens
  <2>5. exchange' \in [pc : {"send", "wait", "answered", "raised"}, attempt : 1..MaxAsks]
    BY <2>1 DEF PromptIInv
  <2> QED
    BY <2>3, <2>4, <2>5 DEF PromptIInv
<1>3. CASE Reject
  BY <1>3, RejectIInv
<1>4. CASE UNCHANGED promptVars
  <2>1. sent' = sent /\ question' = question /\ asked' = asked /\ exchange' = exchange
    BY <1>4 DEF promptVars
  <2>2. Sending' => Fit(sent, asked)'
    BY <2>1 DEF PromptIInv, Sending, Fit, Opens
  <2> QED
    BY <2>1, <2>2 DEF PromptIInv, Conversing, Opens
<1> QED
  BY <1>1, <1>2, <1>3, <1>4 DEF PromptNext

LEMMA PromptIInvGives == PromptIInv => PromptInv
<1> SUFFICES ASSUME PromptIInv PROVE PromptInv
  OBVIOUS
<1>1. PromptTypeOK
  BY DEF PromptIInv, PromptTypeOK, Conversing, Opens
<1>2. ASSUME Sending
      PROVE  /\ Fit(sent, asked) /\ Opens(sent) /\ Opens(asked)
             /\ SystemOf(sent) = <<asked[1]>> /\ SystemOf(asked) = <<asked[1]>>
  <2>1. Fit(sent, asked) /\ Opens(asked)
    BY <1>2 DEF PromptIInv, Conversing
  <2>2. Opens(sent) /\ sent[1] = asked[1]
    BY <2>1 DEF Fit
  <2> QED
    BY <2>1, <2>2, SystemOfOpens
<1>3. GuardrailsSurvive
  <2> SUFFICES ASSUME Sending
               PROVE  /\ SystemOf(sent) = SystemOf(asked)
                      /\ sent[Len(sent)].id = asked[Len(asked)].id
                      /\ \A i, j \in DOMAIN sent :
                            i < j => sent[i].id <= sent[j].id \/ sent[i].role = "system"
                      /\ \A i \in 1..(Len(sent) - 1) : ~sent[i].cut
    BY DEF GuardrailsSurvive
  <2>1. DOMAIN sent = 1..Len(sent)
    BY <1>2 DEF Opens
  <2> QED
    BY <1>2, <2>1 DEF Fit
<1>4. OverrunIsBounded
  <2> SUFFICES ASSUME Sending
               PROVE  Length(sent) <= Larger(Limit, Length(SystemOf(asked)) + LeastTurn) + Marker + 1
    BY DEF OverrunIsBounded
  <2>1. asked[1] \in Messages
    BY <1>2 DEF Opens
  <2>2. Length(SystemOf(asked)) = asked[1].size
    BY <1>2, <2>1, LengthOfOne
  <2> QED
    BY <1>2, <2>2 DEF Fit
<1> QED
  BY <1>1, <1>3, <1>4 DEF PromptInv

\* Every prompt of an exchange keeps its guardrails and its newest turn, in order,
\* and exceeds its budget by no more than the marker and a newline
\* (llm/gateway.py, llm/budget.py).
THEOREM PromptInvHolds == PromptSpec => []PromptInv
<1>1. PromptInit => PromptIInv
  BY PromptInitIInv
<1>2. PromptIInv /\ [PromptNext]_promptVars => PromptIInv'
  BY PromptStepIInv
<1>3. PromptIInv => PromptInv
  BY PromptIInvGives
<1> QED
  BY <1>1, <1>2, <1>3, PTL DEF PromptSpec

\* Whatever a scan hands to the inventory and an exchange hands to a model is right
\* for any number of targets, lines, turns and attempts.
THEOREM OutputsInvHolds == ReconSpec /\ PromptSpec => []OutputsInv
<1>1. OutputsInv <=> ReconInv /\ PromptInv
  BY DEF OutputsInv
<1> QED
  BY <1>1, ReconInvHolds, PromptInvHolds, PTL
=============================================================================
