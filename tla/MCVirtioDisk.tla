---------------------------- MODULE MCVirtioDisk ----------------------------
EXTENDS VirtioDisk

CONSTANTS p1, p2, p3

(* Values tell the processes' buffers apart; p1 has two, to tell what a     *)
(* read brings from what was there.                                         *)
MCValues == 1 .. 4
MCCalls == [p \in Procs |-> IF p = p1 THEN {"read", "write"} \X {1, 2}
                            ELSE IF p = p2 THEN {<<"write", 3>>} ELSE {<<"read", 4>>}]
=============================================================================
