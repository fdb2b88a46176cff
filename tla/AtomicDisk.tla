----------------------------- MODULE AtomicDisk -----------------------------
(***************************************************************************)
(* What the logging layer of kernel/log.c promises to file-system calls:   *)
(* a disk whose durable contents change only by whole transactions.        *)
(*                                                                         *)
(* `durable' is what a restart would find, `view' is what reads return     *)
(* now, and `ops' is the set of processes between begin_op and end_op.     *)
(* A transaction is everything written since the last commit; it becomes   *)
(* durable in one step, and only when no system call is in progress.       *)
(***************************************************************************)
CONSTANTS Procs, Blocks, Values, InitValue

VARIABLES durable, view, ops

vars == <<durable, view, ops>>

Init ==
  /\ durable = [b \in Blocks |-> InitValue]
  /\ view = durable
  /\ ops = {}

Begin(p) ==
  /\ p \notin ops
  /\ ops' = ops \cup {p}
  /\ UNCHANGED <<durable, view>>

Write(p, b, v) ==
  /\ p \in ops
  /\ view' = [view EXCEPT ![b] = v]
  /\ UNCHANGED <<durable, ops>>

End(p) ==
  /\ p \in ops
  /\ ops' = ops \ {p}
  /\ UNCHANGED <<durable, view>>

Commit ==
  /\ ops = {}
  /\ durable' = view
  /\ UNCHANGED <<view, ops>>

Crash ==
  /\ view' = durable
  /\ ops' = {}
  /\ UNCHANGED durable

Next ==
  \/ \E p \in Procs : Begin(p) \/ End(p)
  \/ \E p \in Procs, b \in Blocks, v \in Values : Write(p, b, v)
  \/ Commit
  \/ Crash

Spec == Init /\ [][Next]_vars
=============================================================================
