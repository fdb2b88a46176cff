---------------------------- MODULE BufferCache ----------------------------
(***************************************************************************)
(* The buffer cache of kernel/bio.c over the sleep-locks of                *)
(* kernel/sleeplock.c, used the way the log uses it: a call reads a block, *)
(* perhaps changes it and pins it (log_write), and releases it; a commit   *)
(* writes a pinned block home and unpins it (install_trans).               *)
(*                                                                         *)
(* What is done under bcache.lock, or under a sleep-lock's own spinlock,   *)
(* is one step.  refcnt is unsigned and wraps around at REFMOD.            *)
(***************************************************************************)
EXTENDS Integers, Sequences, FiniteSets

CONSTANTS
  Procs, NoProc,
  Blocks, NoBlock,
  NBUF,           \* param.h: buffers
  REFMOD,         \* 2^32: refcnt is an unsigned int
  Values

Bufs == 1..NBUF
None == 0

ASSUME CacheAssumption ==
  /\ NBUF \in Nat \ {0} /\ REFMOD \in Nat /\ Values # {}
  /\ NoProc \notin Procs /\ NoBlock \notin Blocks
  /\ IsFiniteSet(Procs) /\ Cardinality(Procs) + 1 < REFMOD

VARIABLES
  blockno, valid, refcnt, data,  \* struct buf
  owner,        \* who holds the buffer's sleep-lock (lk->locked, lk->pid)
  lru,          \* the list from bcache.head, most recently used first
  disk,         \* the home blocks
  latest,       \* auxiliary: what was last written to each block
  logged,       \* blocks in log.lh, pinned in the cache
  pc,           \* where each process is
  blk, buf,     \* the block a process asked for and the buffer it got
  panic         \* the machine has stopped: bget found no buffer

vars == <<blockno, valid, refcnt, data, owner, lru, disk, latest, logged, pc,
          blk, buf, panic>>
bufVars == <<blockno, valid, refcnt, data, lru>>
diskVars == <<disk, latest, logged>>

\* binit links each buffer in at the head.
Init ==
  /\ blockno = [i \in Bufs |-> NoBlock]
  /\ valid = [i \in Bufs |-> FALSE]
  /\ refcnt = [i \in Bufs |-> 0]
  /\ \E v \in Values :
       /\ data = [i \in Bufs |-> v]
       /\ disk = [b \in Blocks |-> v]
  /\ owner = [i \in Bufs |-> NoProc]
  /\ lru = [i \in Bufs |-> NBUF + 1 - i]
  /\ latest = disk
  /\ logged = {}
  /\ pc = [p \in Procs |-> "idle"]
  /\ blk = [p \in Procs |-> NoBlock]
  /\ buf = [p \in Procs |-> None]
  /\ panic = FALSE

Up(r) == IF r = REFMOD - 1 THEN 0 ELSE r + 1
Down(r) == IF r = 0 THEN REFMOD - 1 ELSE r - 1

\* The buffer moved to the head of the list.
ToFront(i) ==
  LET at == CHOOSE k \in Bufs : lru[k] = i
  IN  [k \in Bufs |-> IF k = 1 THEN i ELSE IF k <= at THEN lru[k - 1] ELSE lru[k]]

(***************************************************************************)
(* bread = bget, acquiresleep, and a disk read.                            *)
(***************************************************************************)
BgetHit(p, b) ==
  /\ pc[p] = "idle" /\ ~panic
  /\ \E i \in Bufs :
       /\ blockno[i] = b
       /\ refcnt' = [refcnt EXCEPT ![i] = Up(@)]
       /\ buf' = [buf EXCEPT ![p] = i]
  /\ blk' = [blk EXCEPT ![p] = b]
  /\ pc' = [pc EXCEPT ![p] = "acquire"]
  /\ UNCHANGED <<blockno, valid, data, owner, lru, diskVars, panic>>

Unused(i) == refcnt[i] = 0
Miss(b) == \A i \in Bufs : blockno[i] # b

\* Faulty variant: the buffer is taken although it is pinned or in use.
RecycleAny(p, b) ==
  /\ pc[p] = "idle" /\ ~panic /\ Miss(b)
  /\ LET i == lru[NBUF]
     IN  /\ blockno' = [blockno EXCEPT ![i] = b]
         /\ valid' = [valid EXCEPT ![i] = FALSE]
         /\ refcnt' = [refcnt EXCEPT ![i] = 1]
         /\ buf' = [buf EXCEPT ![p] = i]
  /\ blk' = [blk EXCEPT ![p] = b]
  /\ pc' = [pc EXCEPT ![p] = "acquire"]
  /\ UNCHANGED <<data, owner, lru, diskVars, panic>>

\* Faulty variant: the block is looked up in one critical section and a
\* buffer recycled in the next, so the look-up may be out of date.
RecycleStale(p, b) ==
  /\ pc[p] = "idle" /\ ~panic
  /\ \E k \in Bufs :
       /\ Unused(lru[k]) /\ \A j \in (k + 1)..NBUF : ~Unused(lru[j])
       /\ blockno' = [blockno EXCEPT ![lru[k]] = b]
       /\ valid' = [valid EXCEPT ![lru[k]] = FALSE]
       /\ refcnt' = [refcnt EXCEPT ![lru[k]] = 1]
       /\ buf' = [buf EXCEPT ![p] = lru[k]]
  /\ blk' = [blk EXCEPT ![p] = b]
  /\ pc' = [pc EXCEPT ![p] = "acquire"]
  /\ UNCHANGED <<data, owner, lru, diskVars, panic>>

\* The least recently used buffer with refcnt == 0 is recycled.
BgetRecycle(p, b) ==
  /\ pc[p] = "idle" /\ ~panic /\ Miss(b)
  /\ \E k \in Bufs :
       /\ Unused(lru[k]) /\ \A j \in (k + 1)..NBUF : ~Unused(lru[j])
       /\ blockno' = [blockno EXCEPT ![lru[k]] = b]
       /\ valid' = [valid EXCEPT ![lru[k]] = FALSE]
       /\ refcnt' = [refcnt EXCEPT ![lru[k]] = 1]
       /\ buf' = [buf EXCEPT ![p] = lru[k]]
  /\ blk' = [blk EXCEPT ![p] = b]
  /\ pc' = [pc EXCEPT ![p] = "acquire"]
  /\ UNCHANGED <<data, owner, lru, diskVars, panic>>

BgetPanic(p, b) ==
  /\ pc[p] = "idle" /\ ~panic /\ Miss(b)
  /\ \A i \in Bufs : ~Unused(i)
  /\ panic' = TRUE
  /\ UNCHANGED <<bufVars, owner, diskVars, pc, blk, buf>>

AcquireSleep(p) ==
  /\ pc[p] = "acquire" /\ ~panic
  /\ IF owner[buf[p]] # NoProc
       THEN pc' = [pc EXCEPT ![p] = "asleep"] /\ owner' = owner
       ELSE /\ pc' = [pc EXCEPT ![p] = "locked"]
            /\ owner' = [owner EXCEPT ![buf[p]] = p]
  /\ UNCHANGED <<bufVars, diskVars, blk, buf, panic>>

\* The rest of bread.
ReadDisk(p) ==
  /\ pc[p] = "locked" /\ ~panic
  /\ data' = IF valid[buf[p]] THEN data
             ELSE [data EXCEPT ![buf[p]] = disk[blockno[buf[p]]]]
  /\ valid' = [valid EXCEPT ![buf[p]] = TRUE]
  /\ pc' = [pc EXCEPT ![p] = "hold"]
  /\ UNCHANGED <<blockno, refcnt, owner, lru, diskVars, blk, buf, panic>>

(***************************************************************************)
(* What a holder does: change the block and log it (bpin, once per         *)
(* transaction), or write it home and unpin it.                            *)
(***************************************************************************)
\* Faulty variant: a logged block is not pinned.
ModifyNoPin(p, v) ==
  /\ pc[p] = "hold" /\ ~panic
  /\ data' = [data EXCEPT ![buf[p]] = v]
  /\ latest' = [latest EXCEPT ![blk[p]] = v]
  /\ logged' = logged \cup {blk[p]}
  /\ pc' = [pc EXCEPT ![p] = "wrote"]
  /\ UNCHANGED <<blockno, valid, refcnt, owner, lru, disk, blk, buf, panic>>

Modify(p, v) ==
  /\ pc[p] = "hold" /\ ~panic
  /\ data' = [data EXCEPT ![buf[p]] = v]
  /\ latest' = [latest EXCEPT ![blk[p]] = v]
  /\ refcnt' = IF blk[p] \in logged THEN refcnt
               ELSE [refcnt EXCEPT ![buf[p]] = Up(@)]
  /\ logged' = logged \cup {blk[p]}
  /\ pc' = [pc EXCEPT ![p] = "wrote"]
  /\ UNCHANGED <<blockno, valid, owner, lru, disk, blk, buf, panic>>

Bwrite(p) ==
  /\ pc[p] = "hold" /\ ~panic /\ blk[p] \in logged
  /\ disk' = [disk EXCEPT ![blockno[buf[p]]] = data[buf[p]]]
  /\ pc' = [pc EXCEPT ![p] = "unpin"]
  /\ UNCHANGED <<bufVars, owner, latest, logged, blk, buf, panic>>

Bunpin(p) ==
  /\ pc[p] = "unpin" /\ ~panic
  /\ refcnt' = [refcnt EXCEPT ![buf[p]] = Down(@)]
  /\ logged' = logged \ {blk[p]}
  /\ pc' = [pc EXCEPT ![p] = "wrote"]
  /\ UNCHANGED <<blockno, valid, data, owner, lru, disk, latest, blk, buf, panic>>

(***************************************************************************)
(* brelse: the sleep-lock first, then the reference.                       *)
(***************************************************************************)
ReleaseSleep(p) ==
  /\ pc[p] \in {"hold", "wrote"} /\ ~panic
  /\ owner' = [owner EXCEPT ![buf[p]] = NoProc]
  /\ pc' = [q \in Procs |->
       IF q = p THEN "drop"
       ELSE IF pc[q] = "asleep" /\ buf[q] = buf[p] THEN "acquire" ELSE pc[q]]
  /\ UNCHANGED <<bufVars, diskVars, blk, buf, panic>>

Drop(p) ==
  /\ pc[p] = "drop" /\ ~panic
  /\ refcnt' = [refcnt EXCEPT ![buf[p]] = Down(@)]
  /\ lru' = IF Down(refcnt[buf[p]]) = 0 THEN ToFront(buf[p]) ELSE lru
  /\ pc' = [pc EXCEPT ![p] = "idle"]
  /\ blk' = [blk EXCEPT ![p] = NoBlock]
  /\ buf' = [buf EXCEPT ![p] = None]
  /\ UNCHANGED <<blockno, valid, data, owner, diskVars, panic>>

Next ==
  \E p \in Procs :
    \/ \E b \in Blocks : BgetHit(p, b) \/ BgetRecycle(p, b) \/ BgetPanic(p, b)
    \/ AcquireSleep(p) \/ ReadDisk(p)
    \/ \E v \in Values : Modify(p, v)
    \/ Bwrite(p) \/ Bunpin(p) \/ ReleaseSleep(p) \/ Drop(p)

Spec == Init /\ [][Next]_vars

(***************************************************************************)
(* Recovery at boot of a committed log with one block, by the only process *)
(* there is: install_trans reads the home block, copies the logged         *)
(* contents v into it, writes it, unpins it although nobody has pinned it  *)
(* since the boot, and releases it.  Nothing can interleave, so it is one  *)
(* step.  The buffers of the superblock and of the log are left out.       *)
(***************************************************************************)
RecoverInstall(b, v) ==
  /\ \A p \in Procs : pc[p] = "idle"
  /\ \A i \in Bufs : ~valid[i]
  /\ blockno' = [blockno EXCEPT ![lru[NBUF]] = b]
  /\ valid' = [valid EXCEPT ![lru[NBUF]] = TRUE]
  /\ refcnt' = [refcnt EXCEPT ![lru[NBUF]] = Down(Down(1))]
  /\ data' = [data EXCEPT ![lru[NBUF]] = v]
  /\ disk' = [disk EXCEPT ![b] = v]
  /\ latest' = [latest EXCEPT ![b] = v]
  /\ UNCHANGED <<owner, lru, logged, pc, blk, buf, panic>>

RecoveryNext == Next \/ \E b \in Blocks, v \in Values : RecoverInstall(b, v)
RecoverySpec == Init /\ [][RecoveryNext]_vars

-----------------------------------------------------------------------------
\* p is between the bget that counted it and the end of brelse.
Using(p) == pc[p] # "idle"

\* A block has at most one buffer, although bget locks the buffer outside the
\* section in which it looked the block up; and its refcnt counts exactly the
\* processes that have, or wait for, the buffer, and one more while the log
\* pins the block: brelse gives up the sleep-lock before the reference, and a
\* waiter counts before it has the lock.
RefCounted ==
  \A i \in Bufs :
    /\ \A j \in Bufs : blockno[i] = blockno[j] /\ blockno[i] # NoBlock => i = j
    /\ refcnt[i] = Cardinality({p \in Procs : Using(p) /\ buf[p] = i})
                   + (IF blockno[i] \in logged THEN 1 ELSE 0)

\* "Only one process at a time can use a buffer" (bio.c:13): whoever is
\* between bread and brelse holds the lock of a buffer that still is the
\* buffer of the block it asked for.
BufferKept ==
  \A p \in Procs :
    pc[p] \in {"locked", "hold", "wrote", "unpin"} =>
      owner[buf[p]] = p /\ blockno[buf[p]] = blk[p]

\* A process sees the last contents written to its block, whether they
\* are on disk or only in a pinned buffer: recycling never drops a block
\* that the log has not installed yet.
ReadsLatest ==
  \A p \in Procs : pc[p] = "hold" => data[buf[p]] = latest[blk[p]]
=============================================================================
