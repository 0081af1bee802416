------------------------------ MODULE MCSessions ------------------------------
(* Small instances of Sessions. *)
EXTENDS Sessions, TLC

CONSTANTS r1, r2, r3, r4, r5

RequestSymmetry == Permutations(Requests)

=============================================================================
