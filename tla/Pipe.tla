-------------------------------- MODULE Pipe --------------------------------
(***************************************************************************)
(* The pipe of kernel/pipe.c: a ring of PIPESIZE bytes with free-running   *)
(* unsigned counters, writers and readers that sleep on &pi->nwrite and    *)
(* &pi->nread, pipeclose by the last descriptor of an end, and kill.       *)
(*                                                                         *)
(* pi->lock is explicit (holder) and every byte is a step of its own.      *)
(* p->killed is set without pi->lock, so it may change between any two     *)
(* steps.  sleep() takes p->lock before it releases pi->lock, and wakeup   *)
(* and kill need p->lock: giving up the lock and being asleep is one step. *)
(***************************************************************************)
EXTENDS Integers, Sequences, FiniteSets

CONSTANTS
  Writers, Readers,   \* processes with a descriptor of one end
  NoProc,             \* nobody
  PIPESIZE,
  WIDTH,              \* 2^32: nread and nwrite are unsigned int
  MaxCount,           \* largest n of a call
  Bytes

Procs == Writers \cup Readers

ASSUME ProcsAssumption ==
  /\ Writers \cap Readers = {} /\ Writers # {} /\ Readers # {}
  /\ NoProc \notin Procs
ASSUME SizeAssumption ==
  /\ PIPESIZE \in Nat \ {0} /\ WIDTH \in Nat /\ PIPESIZE < WIDTH
  /\ WIDTH % PIPESIZE = 0
  /\ MaxCount \in Nat
ASSUME BytesAssumption == Bytes # {}

VARIABLES
  data, nread, nwrite, readopen, writeopen,   \* struct pipe
  holder,       \* who holds pi->lock
  fds,          \* processes whose descriptor is still open
  pc,           \* "idle"; "lock": at acquire; "loop", "copy": with the lock;
                \* "full": about to sleep in pipewrite; "empty": in piperead;
                \* "asleep"
  n, i,         \* the locals of the call
  killed,       \* p->killed
  ch            \* the byte taken out last

vars == <<data, nread, nwrite, readopen, writeopen, holder, fds, pc, n, i,
          killed, ch>>
pipeVars == <<data, nread, nwrite, readopen, writeopen, ch>>

TypeOK ==
  /\ data \in [0..(PIPESIZE - 1) -> Bytes]
  /\ nread \in 0..(WIDTH - 1) /\ nwrite \in 0..(WIDTH - 1)
  /\ readopen \in BOOLEAN /\ writeopen \in BOOLEAN
  /\ holder \in Procs \cup {NoProc}
  /\ fds \in SUBSET Procs
  /\ pc \in [Procs -> {"idle", "lock", "loop", "copy", "full", "empty", "asleep"}]
  /\ n \in [Procs -> 0..MaxCount] /\ i \in [Procs -> 0..MaxCount]
  /\ killed \in [Procs -> BOOLEAN]
  /\ ch \in Bytes

\* pipealloc, after which each end has been given to its processes (fork
\* duplicates descriptors; the file structure counts them).
Init ==
  /\ data \in [0..(PIPESIZE - 1) -> Bytes]      \* kalloc's junk
  /\ ch \in Bytes
  /\ nread = 0 /\ nwrite = 0
  /\ readopen = TRUE /\ writeopen = TRUE
  /\ holder = NoProc
  /\ fds = Procs
  /\ pc = [p \in Procs |-> "idle"]
  /\ n = [p \in Procs |-> 0] /\ i = [p \in Procs |-> 0]
  /\ killed = [p \in Procs |-> FALSE]

\* Unsigned increment, and the distance between the counters.
Inc(c) == IF c = WIDTH - 1 THEN 0 ELSE c + 1
Count == IF nwrite >= nread THEN nwrite - nread ELSE nwrite + WIDTH - nread

Empty == nread = nwrite

\* Faulty variant: one byte too many.
FullLate == nwrite = (nread + PIPESIZE + 1) % WIDTH
\* nwrite == nread + PIPESIZE, in unsigned arithmetic.
Full == nwrite = IF nread + PIPESIZE < WIDTH THEN nread + PIPESIZE
                 ELSE nread + PIPESIZE - WIDTH

\* wakeup(&pi->nread) and wakeup(&pi->nwrite): a woken process has to
\* reacquire pi->lock inside sleep().
Woken(f, S) == [p \in Procs |-> IF p \in S /\ f[p] = "asleep" THEN "lock" ELSE f[p]]

(***************************************************************************)
(* Calls.  A system call is made by a process that is not killed.          *)
(***************************************************************************)
Call(p, k) ==
  /\ pc[p] = "idle" /\ p \in fds /\ ~killed[p]
  /\ pc' = [pc EXCEPT ![p] = "lock"]
  /\ n' = [n EXCEPT ![p] = k]
  /\ i' = [i EXCEPT ![p] = 0]
  /\ UNCHANGED <<pipeVars, holder, fds, killed>>

Acquire(p) ==
  /\ pc[p] = "lock" /\ holder = NoProc
  /\ holder' = p
  /\ pc' = [pc EXCEPT ![p] = "loop"]
  /\ UNCHANGED <<pipeVars, fds, n, i, killed>>

Return(p, wake) ==
  /\ pc' = Woken([pc EXCEPT ![p] = "idle"], wake)
  /\ n' = [n EXCEPT ![p] = 0]
  /\ i' = [i EXCEPT ![p] = 0]
  /\ holder' = NoProc
  /\ UNCHANGED <<fds, killed>>

(***************************************************************************)
(* pipewrite.                                                              *)
(***************************************************************************)
WriteByte(p, b) ==
  /\ p \in Writers /\ pc[p] = "loop"
  /\ i[p] < n[p] /\ ~Full
  /\ data' = [data EXCEPT ![nwrite % PIPESIZE] = b]
  /\ nwrite' = Inc(nwrite)
  /\ i' = [i EXCEPT ![p] = @ + 1]
  /\ UNCHANGED <<nread, readopen, writeopen, holder, fds, pc, n, killed, ch>>

\* The end of the loop, or copyin failed.
WriteDone(p) ==
  /\ p \in Writers /\ pc[p] = "loop"
  /\ i[p] = n[p] \/ ~Full
  /\ Return(p, Readers)
  /\ UNCHANGED pipeVars

\* Full: the test of readopen and killed ...
WriteFail(p) ==
  /\ p \in Writers /\ pc[p] = "loop"
  /\ i[p] < n[p] /\ Full
  /\ ~readopen \/ killed[p]
  /\ Return(p, {})
  /\ UNCHANGED pipeVars

WriteFull(p) ==
  /\ p \in Writers /\ pc[p] = "loop"
  /\ i[p] < n[p] /\ Full
  /\ readopen /\ ~killed[p]
  /\ pc' = [pc EXCEPT ![p] = "full"]
  /\ UNCHANGED <<pipeVars, holder, fds, n, i, killed>>

\* ... then wakeup(&pi->nread) and sleep(&pi->nwrite, &pi->lock).
WriteSleep(p) ==
  /\ pc[p] = "full"
  /\ pc' = Woken([pc EXCEPT ![p] = "asleep"], Readers)
  /\ holder' = NoProc
  /\ UNCHANGED <<pipeVars, fds, n, i, killed>>

(***************************************************************************)
(* piperead.                                                               *)
(***************************************************************************)
ReadFail(p) ==
  /\ p \in Readers /\ pc[p] = "loop"
  /\ Empty /\ writeopen /\ killed[p]
  /\ Return(p, {})
  /\ UNCHANGED pipeVars

ReadEmpty(p) ==
  /\ p \in Readers /\ pc[p] = "loop"
  /\ Empty /\ writeopen /\ ~killed[p]
  /\ pc' = [pc EXCEPT ![p] = "empty"]
  /\ UNCHANGED <<pipeVars, holder, fds, n, i, killed>>

ReadSleep(p) ==
  /\ pc[p] = "empty"
  /\ pc' = [pc EXCEPT ![p] = "asleep"]
  /\ holder' = NoProc
  /\ UNCHANGED <<pipeVars, fds, n, i, killed>>

ReadReady(p) ==
  /\ p \in Readers /\ pc[p] = "loop"
  /\ ~Empty \/ ~writeopen
  /\ pc' = [pc EXCEPT ![p] = "copy"]
  /\ UNCHANGED <<pipeVars, holder, fds, n, i, killed>>

ReadByte(p) ==
  /\ pc[p] = "copy"
  /\ i[p] < n[p] /\ ~Empty
  /\ ch' = data[nread % PIPESIZE]
  /\ nread' = Inc(nread)
  /\ i' = [i EXCEPT ![p] = @ + 1]
  /\ UNCHANGED <<data, nwrite, readopen, writeopen, holder, fds, pc, n, killed>>

\* Faulty variant: the writers are not woken.
ReadDoneSilent(p) ==
  /\ pc[p] = "copy"
  /\ i[p] = n[p] \/ Empty \/ i[p] > 0
  /\ Return(p, {})
  /\ UNCHANGED pipeVars

\* The end of the loop, or copyout of the last byte failed.
ReadDone(p) ==
  /\ pc[p] = "copy"
  /\ i[p] = n[p] \/ Empty \/ i[p] > 0
  /\ Return(p, Writers)
  /\ UNCHANGED pipeVars

(***************************************************************************)
(* close: fileclose calls pipeclose for the last descriptor of an end.     *)
(***************************************************************************)
CloseOther(p) ==
  /\ pc[p] = "idle" /\ p \in fds
  /\ \E q \in fds \ {p} : {p, q} \subseteq Writers \/ {p, q} \subseteq Readers
  /\ fds' = fds \ {p}
  /\ UNCHANGED <<pipeVars, holder, pc, n, i, killed>>

\* Faulty variant: every close of an end is taken for the last one.
LastOfAny(p, S) == p \in S /\ pc[p] = "idle" /\ p \in fds /\ holder = NoProc

LastOf(p, S) == p \in S /\ pc[p] = "idle" /\ fds \cap S = {p} /\ holder = NoProc

PipeCloseWrite(p) ==
  /\ LastOf(p, Writers)
  /\ writeopen' = FALSE
  /\ pc' = Woken(pc, Readers)
  /\ fds' = fds \ {p}
  /\ UNCHANGED <<data, nread, nwrite, readopen, holder, n, i, killed, ch>>

PipeCloseRead(p) ==
  /\ LastOf(p, Readers)
  /\ readopen' = FALSE
  /\ pc' = Woken(pc, Writers)
  /\ fds' = fds \ {p}
  /\ UNCHANGED <<data, nread, nwrite, writeopen, holder, n, i, killed, ch>>

\* kill(): the flag, and the wakeup if the process is asleep at that moment.
Kill(p) ==
  /\ ~killed[p]
  /\ killed' = [killed EXCEPT ![p] = TRUE]
  /\ pc' = Woken(pc, {p})
  /\ UNCHANGED <<pipeVars, holder, fds, n, i>>

Step(p) ==
  \/ \E b \in Bytes : WriteByte(p, b)
  \/ WriteDone(p) \/ WriteFail(p) \/ WriteFull(p) \/ WriteSleep(p)
  \/ ReadFail(p) \/ ReadEmpty(p) \/ ReadSleep(p) \/ ReadReady(p)
  \/ ReadByte(p) \/ ReadDone(p)

Close(p) == CloseOther(p) \/ PipeCloseWrite(p) \/ PipeCloseRead(p)

Next ==
  \E p \in Procs :
    \/ \E k \in 0..MaxCount : Call(p, k)
    \/ Acquire(p) \/ Step(p) \/ Close(p) \/ Kill(p)

Spec == Init /\ [][Next]_vars

-----------------------------------------------------------------------------
\* No lost wakeup: whenever nobody holds pi->lock, a writer sleeps only over
\* a full pipe that can still be read, and a reader only over an empty one
\* that can still be written.  There is one exception: a killed writer that
\* finds the pipe full returns without wakeup(&pi->nread) (pipe.c:86), so the
\* bytes it has just written may lie before a sleeping reader.
NoLostWakeup ==
  holder = NoProc =>
    /\ (\E p \in Readers : pc[p] = "asleep") =>
         writeopen /\ (Empty \/ \E w \in Writers : killed[w])
    /\ (\E p \in Writers : pc[p] = "asleep") => Full /\ readopen

\* The memory of the pipe is freed (both ends closed) only when nobody is
\* in, or asleep in, a call on it.
NoUseAfterFree ==
  (~readopen /\ ~writeopen) => \A p \in Procs : pc[p] = "idle"

\* The inductive strengthening used by the proofs.  Who is inside holds
\* pi->lock; a call keeps its descriptor, so an end with a caller is open;
\* between the test and the sleep nothing changes; and a sleeper either has
\* a reason to sleep or the holder of the lock is on its way to wake it.
Inside == {"loop", "copy", "full", "empty"}
LockHeld == \A p \in Procs : pc[p] \in Inside <=> holder = p

Descriptors ==
  /\ \A p \in Procs : pc[p] # "idle" => p \in fds
  /\ readopen <=> fds \cap Readers # {}
  /\ writeopen <=> fds \cap Writers # {}

Tested ==
  /\ \A p \in Procs : pc[p] = "full" => p \in Writers /\ Full /\ readopen
  /\ \A p \in Procs : pc[p] = "empty" => p \in Readers /\ Empty /\ writeopen
  /\ \A p \in Procs : pc[p] = "copy" => p \in Readers

Sleepers ==
  /\ \A p \in Readers : pc[p] = "asleep" =>
       writeopen /\ (Empty \/ holder \in Writers \/ \E w \in Writers : killed[w])
  /\ \A p \in Writers : pc[p] = "asleep" =>
       readopen /\ (Full \/ \E r \in Readers : pc[r] = "copy")

IInv == TypeOK /\ LockHeld /\ Descriptors /\ Tested /\ Sleepers

\* The ring with wrapping counters is a bounded first-in first-out queue:
\* no byte is lost, duplicated, overwritten or read out of order, across
\* the wrap-around of the index and of the 32-bit counters.
Fifo == INSTANCE BoundedFifo WITH
  Capacity <- PIPESIZE,
  queue <- [k \in 1..Count |-> data[(nread + k - 1) % PIPESIZE]],
  out <- ch, wopen <- writeopen, ropen <- readopen

IsFifo == Fifo!Spec
=============================================================================
