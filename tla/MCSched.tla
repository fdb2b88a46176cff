------------------------------- MODULE MCSched -------------------------------
(* Small instances of Sched.  Slot 1 plays init, in the root container.    *)
EXTENDS Sched

AllRoot == [p \in 1..NPROC |-> 0]
=============================================================================
