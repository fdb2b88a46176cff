----------------------------- MODULE BoundedFifo -----------------------------
(***************************************************************************)
(* What a pipe promises: a first-in first-out queue of at most Capacity    *)
(* bytes.  Nothing enters it once the write end is closed and nothing      *)
(* leaves it once the read end is; a writer may go on filling it when      *)
(* there are no readers left.                                              *)
(***************************************************************************)
EXTENDS Integers, Sequences

CONSTANTS Bytes, Capacity

VARIABLES
  queue,        \* the bytes in the pipe, oldest first
  out,          \* the byte read last
  wopen, ropen  \* whether each end is open

vars == <<queue, out, wopen, ropen>>

Init == queue = <<>> /\ out \in Bytes /\ wopen = TRUE /\ ropen = TRUE

Put(b) ==
  /\ wopen
  /\ Len(queue) < Capacity
  /\ queue' = Append(queue, b)
  /\ UNCHANGED <<out, wopen, ropen>>

Get ==
  /\ ropen
  /\ queue # <<>>
  /\ out' = Head(queue)
  /\ queue' = Tail(queue)
  /\ UNCHANGED <<wopen, ropen>>

CloseWrite == wopen /\ wopen' = FALSE /\ UNCHANGED <<queue, out, ropen>>
CloseRead == ropen /\ ropen' = FALSE /\ UNCHANGED <<queue, out, wopen>>

Next == (\E b \in Bytes : Put(b)) \/ Get \/ CloseWrite \/ CloseRead

Spec == Init /\ [][Next]_vars
=============================================================================
