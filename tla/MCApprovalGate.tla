--------------------------- MODULE MCApprovalGate ---------------------------
(* Two operators answer for a scope of two assets out of three.            *)
EXTENDS ApprovalGate, TLC

CONSTANTS a1, a2, a3, alice, bob

MCAssets == {a1, a2, a3}
MCSelected == {a1, a2}
MCOperators == {alice, bob}
OperatorSymmetry == Permutations(MCOperators)
=============================================================================
