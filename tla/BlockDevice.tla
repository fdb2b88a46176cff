---------------------------- MODULE BlockDevice ----------------------------
(***************************************************************************)
(* What virtio_disk_rw promises the buffer cache: a request transfers the  *)
(* caller's buffer to or from its block once, after the call and before    *)
(* the return. A caller holds the sleep-lock of its buffer, so that no two *)
(* requests are for one block: blocks are named by their callers.          *)
(***************************************************************************)
CONSTANTS Procs, Values

VARIABLES
    req,   \* "idle", "read", "write" or "done"
    buf,   \* b->data of the caller's buffer
    disk   \* the block on the disk

Ask(p) ==
    /\ req[p] = "idle"
    /\ \E op \in {"read", "write"} : req' = [req EXCEPT ![p] = op]
    /\ \E v \in Values : buf' = [buf EXCEPT ![p] = v]
    /\ UNCHANGED disk

Serve(p) ==
    /\ req[p] \in {"read", "write"}
    /\ req' = [req EXCEPT ![p] = "done"]
    /\ IF req[p] = "write"
       THEN disk' = [disk EXCEPT ![p] = buf[p]] /\ UNCHANGED buf
       ELSE buf' = [buf EXCEPT ![p] = disk[p]] /\ UNCHANGED disk

Return(p) ==
    /\ req[p] = "done"
    /\ req' = [req EXCEPT ![p] = "idle"]
    /\ UNCHANGED <<buf, disk>>

Init ==
    /\ req = [p \in Procs |-> "idle"]
    /\ buf \in [Procs -> Values]
    /\ disk \in [Procs -> Values]

Next == \E p \in Procs : Ask(p) \/ Serve(p) \/ Return(p)

Spec == Init /\ [][Next]_<<req, buf, disk>>
=============================================================================
