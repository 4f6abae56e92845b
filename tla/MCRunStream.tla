---------------------------- MODULE MCRunStream ----------------------------
(* Instances of RunStream for TLC. *)
EXTENDS RunStream, TLC

CONSTANTS r1, r2, c1, c2, u1, u2

OneUser  == c1 :> u1 @@ c2 :> u1
TwoUsers == c1 :> u1 @@ c2 :> u2
SoloTab  == c1 :> u1

RunSymmetry == Permutations(RunIds)
=============================================================================
