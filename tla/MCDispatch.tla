----------------------------- MODULE MCDispatch ----------------------------
(* Instances of Dispatch for TLC.                                          *)
EXTENDS Dispatch, TLC

CONSTANTS c1, c2, c3, k1, k2, pod, phone

CallSymmetry == Permutations({c1, c2, c3}) \cup Permutations({k1, k2})
=============================================================================
