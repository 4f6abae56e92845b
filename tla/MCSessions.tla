----------------------------- MODULE MCSessions ----------------------------
(* Instances of Sessions for TLC.                                          *)
EXTENDS Sessions, TLC

CONSTANTS boss, staff, admin, t1, t2, d1, d2

OneRole == [r \in Roles |-> {}]

=============================================================================
