---------------------------- MODULE MCDeltaCircuit ----------------------------
(* Small instances of DeltaCircuit. *)
EXTENDS DeltaCircuit, TLC

CONSTANTS c1, c2, c3, p1, p2

(* Two callers in one process, the third in another. *)
Placement == [c \in Callers |-> IF c = c3 THEN p2 ELSE p1]

=============================================================================
