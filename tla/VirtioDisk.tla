----------------------------- MODULE VirtioDisk -----------------------------
(***************************************************************************)
(* The disk driver, virtio_disk.c: NUM descriptors shared by requests that *)
(* take three each, the ring of requests offered to the device (avail),    *)
(* the ring of those it has finished (used), and the interrupt.            *)
(*                                                                         *)
(* What the driver does between taking vdisk_lock and releasing it or      *)
(* going to sleep is one step. The device takes requests from the ring in  *)
(* order, performs those it has taken in any order, and follows the        *)
(* descriptors as it finds them then.                                      *)
(***************************************************************************)
EXTENDS Integers, FiniteSets, FiniteSetsExt

CONSTANTS
    Procs, NoProc,
    Values,
    Calls,       \* of each process, the requests it makes: <<op, b->data>>
    NUM,
    IDX          \* the ring indices are of type uint16: they wrap at IDX

ASSUME VirtioAssumption ==
    /\ NUM \in Nat \ {0} /\ IDX \in Nat \ {0}
    /\ IDX % NUM = 0 /\ IDX > NUM
    /\ NoProc \notin Procs
    /\ Calls \in [Procs -> SUBSET ({"read", "write"} \X Values)]

VARIABLES
    pc,          \* "idle", "alloc" (wants descriptors), "wait" (for the device)
    op, head,    \* write or read, and idx[0]
    chan,        \* what a process sleeps on: "free", "buf" or "none"
    buf, disk,   \* the callers' buffers and their blocks
    bdisk,       \* b->disk
    free,        \* the descriptors with disk.free[i] set
    desc,        \* addr (what it is of, and of whom) and next, NUM for none
    info,        \* info[i].b
    avail, aidx, \* the ring of requests and avail[1]
    used, uidx,  \* the ring of answers and used->id
    used_idx,    \* how far the driver has looked in it
    seen, taken, \* how far the device has looked in avail; what it works on
    irq,         \* an interrupt is pending
    panicked

driver == <<pc, op, head, chan, bdisk, free, desc, info, avail, aidx, used_idx>>
device == <<used, uidx, seen, taken>>
vars == <<driver, device, buf, disk, irq, panicked>>

Descs == 0 .. (NUM - 1)
NoAddr == <<"none", NoProc>>

(* What a slot of a ring holds once it has been read. The real one keeps    *)
(* its old entry, which nobody may take for a new one.                      *)
Stale == NUM
Asleep(p) == chan[p] # "none"

(* wakeup on one channel.                                                   *)
Wakeup(c) == [p \in Procs |-> IF chan[p] = c THEN "none" ELSE chan[p]]

Smallest(n) == CHOOSE s \in SUBSET free :
                 /\ Cardinality(s) = n
                 /\ \A i \in s, j \in free \ s : i < j

(* Faulty variant: the descriptors taken before the failure stay taken.     *)
Alloc3FailKeep(p) ==
    /\ Cardinality(free) < 3
    /\ free' = {}
    /\ pc' = [pc EXCEPT ![p] = "alloc"]
    /\ chan' = [chan EXCEPT ![p] = "free"]
    /\ UNCHANGED <<head, bdisk, info, desc, avail, aidx, used_idx>>

(* alloc3_desc fails: what it took goes back through free_desc, which wakes *)
(* the others that wait for descriptors; then the caller sleeps.            *)
Alloc3Fail(p) ==
    /\ Cardinality(free) < 3
    /\ pc' = [pc EXCEPT ![p] = "alloc"]
    /\ chan' = [IF free = {} THEN chan ELSE Wakeup("free") EXCEPT ![p] = "free"]
    /\ desc' = [i \in Descs |-> IF i \in free THEN [desc[i] EXCEPT !.addr = NoAddr]
                                ELSE desc[i]]
    /\ UNCHANGED <<head, bdisk, free, info, avail, aidx, used_idx>>

(* The three descriptors are filled in, the first is put on the ring, and   *)
(* the caller sleeps until its buffer's disk flag is cleared.               *)
Submit(p) ==
    LET s  == Smallest(3)
        i0 == Min(s)
        i2 == Max(s)
        i1 == Min(s \ {i0})
    IN  /\ Cardinality(free) >= 3
        /\ free' = free \ s
        /\ desc' = [desc EXCEPT ![i0] = [addr |-> <<"header", p>>, next |-> i1],
                                ![i1] = [addr |-> <<"data", p>>, next |-> i2],
                                ![i2] = [addr |-> <<"status", p>>, next |-> NUM]]
        /\ head' = [head EXCEPT ![p] = i0]
        /\ bdisk' = [bdisk EXCEPT ![p] = 1]
        /\ info' = [info EXCEPT ![i0] = p]
        /\ avail' = [avail EXCEPT ![aidx % NUM] = i0]
        /\ aidx' = (aidx + 1) % IDX
        /\ pc' = [pc EXCEPT ![p] = "wait"]
        /\ chan' = [chan EXCEPT ![p] = "buf"]
        /\ UNCHANGED used_idx

(* virtio_disk_rw, from its start or after a sleep for descriptors.         *)
Rw(p, o, v) ==
    /\ pc[p] = "idle"
    /\ op' = [op EXCEPT ![p] = o]
    /\ buf' = [buf EXCEPT ![p] = v]
    /\ Alloc3Fail(p) \/ Submit(p)
    /\ UNCHANGED <<device, disk, irq, panicked>>

Retry(p) ==
    /\ pc[p] = "alloc" /\ ~Asleep(p)
    /\ Alloc3Fail(p) \/ Submit(p)
    /\ UNCHANGED <<op, buf, device, disk, irq, panicked>>

(* The descriptors of the chain that starts at i.                           *)
Chain(i) ==
    LET i1 == desc[i].next
        i2 == IF i1 = NUM THEN NUM ELSE desc[i1].next
    IN  {i, i1, i2} \ {NUM}

(* free_chain.                                                              *)
FreeChain(p) ==
    /\ free' = free \cup Chain(head[p])
    /\ panicked' = (panicked \/ Chain(head[p]) \cap free # {})
    /\ chan' = Wakeup("free")
    /\ desc' = [i \in Descs |-> IF i \in Chain(head[p]) THEN [desc[i] EXCEPT !.addr = NoAddr]
                                ELSE desc[i]]

(* The end of virtio_disk_rw; op and head are no longer used.               *)
Finished(p) ==
    /\ pc[p] = "wait" /\ ~Asleep(p)
    /\ info' = [info EXCEPT ![head[p]] = NoProc]
    /\ FreeChain(p)
    /\ pc' = [pc EXCEPT ![p] = "idle"]
    /\ op' = [op EXCEPT ![p] = "read"] /\ head' = [head EXCEPT ![p] = 0]
    /\ UNCHANGED <<buf, bdisk, avail, aidx, used_idx, device, disk, irq>>

(* Faulty variant: a process that is woken takes its request for finished.  *)
FinishAwake(p) == Finished(p)

(* The caller wakes up to a finished request.                               *)
Finish(p) == bdisk[p] = 0 /\ Finished(p)

(* Its buffer is still the disk's.                                          *)
SleepOn(p) ==
    /\ pc[p] = "wait" /\ ~Asleep(p) /\ bdisk[p] = 1
    /\ chan' = [chan EXCEPT ![p] = "buf"]
    /\ UNCHANGED <<pc, op, head, bdisk, free, desc, info, avail, aidx, used_idx,
                   device, buf, disk, irq, panicked>>

(* kill makes any sleeper runnable; the loops around sleep look again.      *)
Kill(p) ==
    /\ Asleep(p)
    /\ chan' = [chan EXCEPT ![p] = "none"]
    /\ UNCHANGED <<pc, op, head, bdisk, free, desc, info, avail, aidx, used_idx,
                   device, buf, disk, irq, panicked>>

Answers(n) == {used[(used_idx + k) % NUM] : k \in 0 .. (n - 1)}

(* The answers handled. The device has written the status 0 to each: with   *)
(* another the interrupt handler panics.                                    *)
Handle(n) ==
    LET done == {IF i = Stale THEN NoProc ELSE info[i] : i \in Answers(n)} IN
    /\ irq /\ irq' = FALSE
    /\ panicked' = (panicked \/ NoProc \in done)
    /\ bdisk' = [p \in Procs |-> IF p \in done THEN 0 ELSE bdisk[p]]
    /\ chan' = [p \in Procs |-> IF p \in done /\ chan[p] = "buf" THEN "none" ELSE chan[p]]
    /\ used_idx' = (used_idx + n) % NUM
    /\ used' = [i \in Descs |-> IF (i - used_idx) % NUM < n THEN Stale ELSE used[i]]
    /\ UNCHANGED <<pc, op, head, free, desc, info, avail, aidx, uidx, seen, taken, buf,
                   disk>>

(* Faulty variant: one answer for each interrupt.                           *)
IntrOne == Handle(IF uidx % NUM = used_idx THEN 0 ELSE 1)

(* virtio_disk_intr: all the answers the device has put in the ring.        *)
Intr == Handle((uidx - used_idx) % NUM)

-----------------------------------------------------------------------------
(* The device reads the next entry of avail.                                *)
Take ==
    /\ seen # aidx
    /\ taken' = taken \cup ({avail[seen % NUM]} \ {Stale})
    /\ panicked' = (panicked \/ avail[seen % NUM] = Stale)
    /\ avail' = [avail EXCEPT ![seen % NUM] = Stale]
    /\ seen' = (seen + 1) % IDX
    /\ UNCHANGED <<pc, op, head, chan, bdisk, free, desc, info, aidx, used_idx, used, uidx,
                   buf, disk, irq>>

(* It performs a request from what it finds in the chain, adds it to used   *)
(* and raises the interrupt.                                                *)
Perform(h) ==
    LET i1 == desc[h].next
        p  == desc[h].addr[2]
        ok == /\ desc[h].addr[1] = "header"
              /\ i1 # NUM /\ desc[i1].addr[1] = "data"
              /\ desc[i1].next # NUM /\ desc[desc[i1].next].addr[1] = "status"
    IN  /\ h \in taken
        /\ panicked' = (panicked \/ ~ok)
        /\ disk' = IF ok /\ op[p] = "write"
                   THEN [disk EXCEPT ![p] = buf[desc[i1].addr[2]]] ELSE disk
        /\ buf' = IF ok /\ op[p] = "read"
                  THEN [buf EXCEPT ![desc[i1].addr[2]] = disk[p]] ELSE buf
        /\ used' = [used EXCEPT ![uidx % NUM] = h]
        /\ uidx' = (uidx + 1) % IDX
        /\ irq' = TRUE
        /\ taken' = taken \ {h}
        /\ UNCHANGED <<driver, seen>>

Init ==
    /\ pc = [p \in Procs |-> "idle"]
    /\ op = [p \in Procs |-> "read"]
    /\ head = [p \in Procs |-> 0]
    /\ chan = [p \in Procs |-> "none"]
    /\ buf = [p \in Procs |-> (CHOOSE c \in Calls[p] : TRUE)[2]]
    /\ disk = buf
    /\ bdisk = [p \in Procs |-> 0]
    /\ free = Descs
    /\ desc = [i \in Descs |-> [addr |-> NoAddr, next |-> NUM]]
    /\ info = [i \in Descs |-> NoProc]
    /\ avail = [i \in Descs |-> Stale] /\ aidx = 0
    /\ used = [i \in Descs |-> Stale] /\ uidx = 0 /\ used_idx = 0
    /\ seen = 0 /\ taken = {}
    /\ irq = FALSE /\ panicked = FALSE

Next ==
    \/ \E p \in Procs : \E c \in Calls[p] : Rw(p, c[1], c[2])
    \/ \E p \in Procs : Retry(p) \/ Finish(p) \/ SleepOn(p) \/ Kill(p)
    \/ Intr
    \/ Take
    \/ \E h \in Descs : Perform(h)

Spec == Init /\ [][Next]_vars

(* The device works on what it is offered, a pending interrupt is taken by  *)
(* some CPU, and a process that is awake gets to run.                       *)
FairSpec ==
    /\ Spec
    /\ WF_vars(Intr) /\ WF_vars(Take)
    /\ \A h \in Descs : WF_vars(Perform(h))
    /\ \A p \in Procs : WF_vars(Retry(p)) /\ WF_vars(Finish(p))

-----------------------------------------------------------------------------
Waiting == {p \in Procs : pc[p] = "wait"}

(* A descriptor is free or in the chain of exactly one request: no chain is *)
(* freed twice, and the device never meets a descriptor that has been given *)
(* to somebody else, nor the interrupt an answer without a buffer. Nobody   *)
(* sleeps for descriptors while three are free: failed attempts give back   *)
(* what they took, and the wakeups of free_desc miss nobody.                *)
ChainsDisjoint ==
    /\ ~panicked
    /\ \A p \in Waiting :
          /\ Cardinality(Chain(head[p])) = 3
          /\ Chain(head[p]) \cap free = {}
          /\ \A q \in Waiting \ {p} : Chain(head[p]) \cap Chain(head[q]) = {}
    /\ Descs = free \cup UNION {Chain(head[p]) : p \in Waiting}
    /\ \A p \in Procs : chan[p] = "free" => Cardinality(free) < 3

Pending(k) == avail[(seen + k) % NUM]
AtDevice == taken \cup {Pending(k) : k \in 0 .. (((aidx - seen) % IDX) - 1)}

Request(p) ==
    IF pc[p] = "idle" THEN "idle"
    ELSE IF pc[p] = "alloc" \/ head[p] \in AtDevice THEN op[p]
    ELSE "done"

(* virtio_disk_rw is a block device: one transfer, of the caller's buffer,  *)
(* in the right direction, between the call and the return, whatever the    *)
(* order in which the device answers.                                       *)
Device == INSTANCE BlockDevice WITH req <- [p \in Procs |-> Request(p)]
IsBlockDevice == Device!Spec

(* A request that the driver has submitted returns.                         *)
Answered == \A p \in Procs : (pc[p] = "wait") ~> (pc[p] = "idle")
=============================================================================
