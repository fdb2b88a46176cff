-------------------------------- MODULE Log --------------------------------
(***************************************************************************)
(* The write-ahead log of kernel/log.c: concurrent file-system calls       *)
(* bracketed by begin_op/end_op, log_write with absorption, group commit,  *)
(* crashes at any disk write, and recovery at boot.                        *)
(*                                                                         *)
(* Everything between acquire(&log.lock) and release (or the sleep that    *)
(* releases it) is one step.  What the code does without that lock is a    *)
(* step of its own: the checks at the top of log_write and every bwrite    *)
(* of commit() and recover_from_log().  A block being written when the     *)
(* machine stops may be left Torn; the header fits in one sector and is    *)
(* written whole.                                                          *)
(***************************************************************************)
EXTENDS Integers, Sequences, FiniteSets

CONSTANTS
  Procs,         \* processes making file-system calls
  Blocks,        \* home block numbers
  NoBlock,       \* no block
  Values,        \* contents a block may have
  InitValue,     \* contents left by mkfs
  Torn,          \* a block half written when the machine stopped
  MAXOPBLOCKS,   \* param.h: log space begin_op reserves for each call, and
                 \* "max # of blocks any FS op writes"
  LOGSIZE,       \* param.h: capacity of the header
  NLOG           \* sb.nlog: log blocks on disk, header included

ASSUME FiniteAssumption == IsFiniteSet(Procs) /\ IsFiniteSet(Blocks)
ASSUME ValuesAssumption ==
  InitValue \in Values /\ Torn \notin Values /\ NoBlock \notin Blocks
ASSUME SizesAssumption ==
  /\ MAXOPBLOCKS \in Nat \ {0}
  /\ LOGSIZE \in Nat
  /\ NLOG \in Nat
  /\ MAXOPBLOCKS <= LOGSIZE

VARIABLES
  disk,          \* home blocks on disk
  logblk,        \* data blocks of the on-disk log
  head,          \* on-disk header: the block numbers of a committed log
  cache,         \* contents of the home blocks as the buffer cache shows them
  lh,            \* log.lh: block numbers logged since the last commit
  outstanding,   \* log.outstanding
  committing,    \* log.committing
  pc,            \* where each process is
  want,          \* the block a process in log_write has modified
  wrote,         \* distinct blocks logged by the call in progress
  tail,          \* loop variable of write_log and install_trans
  sys,           \* "up", or a step of recover_from_log
  panic          \* the message of the panic that stopped the machine

vars == <<disk, logblk, head, cache, lh, outstanding, committing, pc, want,
          wrote, tail, sys, panic>>
diskVars == <<disk, logblk, head>>

Contents == Values \cup {Torn}
BeforeCommit == {"user", "begin", "asleep", "op", "add"}
Commits == {"wlog", "whead", "inst", "clear", "fin"}
Logged == {lh[i] : i \in 1..Len(lh)}
Active == {p \in Procs : pc[p] \in {"op", "add"}}

TypeOK ==
  /\ disk \in [Blocks -> Contents]
  /\ logblk \in [1..LOGSIZE -> Contents]
  /\ head \in Seq(Blocks)
  /\ cache \in [Blocks -> Contents]
  /\ lh \in Seq(Blocks)
  /\ outstanding \in Nat
  /\ committing \in BOOLEAN
  /\ pc \in [Procs -> BeforeCommit \cup Commits]
  /\ want \in [Procs -> Blocks \cup {NoBlock}]
  /\ wrote \in [Procs -> SUBSET Blocks]
  /\ tail \in Nat
  /\ sys \in {"boot", "up", "rinst", "rclear"}
  /\ panic \in {"none", "too big", "outside", "committing"}

Init ==
  /\ disk = [b \in Blocks |-> InitValue]
  /\ logblk = [i \in 1..LOGSIZE |-> InitValue]
  /\ head = <<>>
  /\ cache = disk
  /\ lh = <<>>
  /\ outstanding = 0
  /\ committing = FALSE
  /\ pc = [p \in Procs |-> "user"]
  /\ want = [p \in Procs |-> NoBlock]
  /\ wrote = [p \in Procs |-> {}]
  /\ tail = 0
  /\ sys = "boot"
  /\ panic = "none"

Running == sys = "up" /\ panic = "none"

(***************************************************************************)
(* begin_op.                                                               *)
(***************************************************************************)
Wakeup(f) == [q \in Procs |-> IF f[q] = "asleep" THEN "begin" ELSE f[q]]

\* Faulty variant: the caller's own reservation is forgotten.
MustWaitOthersOnly == committing \/ Len(lh) + outstanding * MAXOPBLOCKS > LOGSIZE

MustWait == committing \/ Len(lh) + (outstanding + 1) * MAXOPBLOCKS > LOGSIZE

\* A system call enters begin_op.
CallBeginOp(p) ==
  /\ Running
  /\ pc[p] = "user"
  /\ pc' = [pc EXCEPT ![p] = "begin"]
  /\ UNCHANGED <<diskVars, cache, lh, outstanding, committing, want, wrote,
                 tail, sys, panic>>

BeginOpSleep(p) ==
  /\ Running
  /\ pc[p] = "begin"
  /\ MustWait
  /\ pc' = [pc EXCEPT ![p] = "asleep"]
  /\ UNCHANGED <<diskVars, cache, lh, outstanding, committing, want, wrote,
                 tail, sys, panic>>

BeginOp(p) ==
  /\ Running
  /\ pc[p] = "begin"
  /\ ~MustWait
  /\ outstanding' = outstanding + 1
  /\ pc' = [pc EXCEPT ![p] = "op"]
  /\ wrote' = [wrote EXCEPT ![p] = {}]
  /\ UNCHANGED <<diskVars, cache, lh, committing, want, tail, sys, panic>>

(***************************************************************************)
(* log_write.  The caller holds the buffer's sleep-lock from before it     *)
(* changes the data until after log_write, so no two processes want the    *)
(* same block.  The checks are made before log.lock is taken.  A call logs *)
(* at most MAXOPBLOCKS blocks, but each of them as often as it likes.      *)
(***************************************************************************)
Modify(p, b, v) ==
  /\ Running
  /\ pc[p] = "op"
  /\ \A q \in Procs : want[q] # b
  /\ b \in wrote[p] \/ Cardinality(wrote[p]) < MAXOPBLOCKS
  /\ cache' = [cache EXCEPT ![b] = v]
  /\ panic' = IF Len(lh) >= LOGSIZE \/ Len(lh) >= NLOG - 1 THEN "too big"
              ELSE IF outstanding < 1 THEN "outside" ELSE "none"
  /\ pc' = [pc EXCEPT ![p] = "add"]
  /\ want' = [want EXCEPT ![p] = b]
  /\ UNCHANGED <<diskVars, lh, outstanding, committing, wrote, tail, sys>>

\* Faulty variant: a block already in the log is logged again.
LogWriteNoAbsorb(p) ==
  /\ Running
  /\ pc[p] = "add"
  /\ lh' = Append(lh, want[p])
  /\ pc' = [pc EXCEPT ![p] = "op"]
  /\ want' = [want EXCEPT ![p] = NoBlock]
  /\ wrote' = [wrote EXCEPT ![p] = @ \cup {want[p]}]
  /\ UNCHANGED <<diskVars, cache, outstanding, committing, tail, sys, panic>>

LogWrite(p) ==
  /\ Running
  /\ pc[p] = "add"
  /\ lh' = IF want[p] \in Logged THEN lh ELSE Append(lh, want[p])
  /\ pc' = [pc EXCEPT ![p] = "op"]
  /\ want' = [want EXCEPT ![p] = NoBlock]
  /\ wrote' = [wrote EXCEPT ![p] = @ \cup {want[p]}]
  /\ UNCHANGED <<diskVars, cache, outstanding, committing, tail, sys, panic>>

(***************************************************************************)
(* end_op and commit.                                                      *)
(***************************************************************************)
EndOp(p) ==
  /\ Running
  /\ pc[p] = "op"
  /\ outstanding' = outstanding - 1
  /\ IF committing
       THEN panic' = "committing" /\ UNCHANGED <<pc, committing, tail>>
       ELSE /\ panic' = panic
            /\ IF outstanding' = 0
                 THEN /\ committing' = TRUE
                      /\ tail' = 0
                      /\ pc' = [pc EXCEPT ![p] = IF lh = <<>> THEN "fin"
                                                             ELSE "wlog"]
                 ELSE /\ pc' = Wakeup([pc EXCEPT ![p] = "user"])
                      /\ UNCHANGED <<committing, tail>>
  /\ wrote' = [wrote EXCEPT ![p] = {}]
  /\ UNCHANGED <<diskVars, cache, lh, want, sys>>

\* Faulty variant: write_log stops one block early.
WriteLogShort(p) ==
  /\ Running
  /\ pc[p] = "wlog"
  /\ logblk' = [logblk EXCEPT ![tail + 1] = cache[lh[tail + 1]]]
  /\ IF tail + 2 < Len(lh)
       THEN tail' = tail + 1 /\ pc' = pc
       ELSE tail' = 0 /\ pc' = [pc EXCEPT ![p] = "whead"]
  /\ UNCHANGED <<disk, head, cache, lh, outstanding, committing, want, wrote,
                 sys, panic>>

\* One iteration of write_log.
WriteLog(p) ==
  /\ Running
  /\ pc[p] = "wlog"
  /\ logblk' = [logblk EXCEPT ![tail + 1] = cache[lh[tail + 1]]]
  /\ IF tail + 1 < Len(lh)
       THEN tail' = tail + 1 /\ pc' = pc
       ELSE tail' = 0 /\ pc' = [pc EXCEPT ![p] = "whead"]
  /\ UNCHANGED <<disk, head, cache, lh, outstanding, committing, want, wrote,
                 sys, panic>>

\* The first write_head of commit: the commit point.
WriteHead(p) ==
  /\ Running
  /\ pc[p] = "whead"
  /\ head' = lh
  /\ pc' = [pc EXCEPT ![p] = "inst"]
  /\ UNCHANGED <<disk, logblk, cache, lh, outstanding, committing, want,
                 wrote, tail, sys, panic>>

\* The loop body of install_trans, shared by commit and recovery.
InstallBlock ==
  /\ disk' = [disk EXCEPT ![lh[tail + 1]] = logblk[tail + 1]]
  /\ cache' = [cache EXCEPT ![lh[tail + 1]] = logblk[tail + 1]]

InstallTrans(p) ==
  /\ Running
  /\ pc[p] = "inst"
  /\ InstallBlock
  /\ IF tail + 1 < Len(lh)
       THEN tail' = tail + 1 /\ pc' = pc
       ELSE tail' = 0 /\ pc' = [pc EXCEPT ![p] = "clear"]
  /\ UNCHANGED <<logblk, head, lh, outstanding, committing, want, wrote, sys,
                 panic>>

\* log.lh.n = 0 and the second write_head of commit.
ClearLog(p) ==
  /\ Running
  /\ pc[p] = "clear"
  /\ lh' = <<>>
  /\ head' = <<>>
  /\ pc' = [pc EXCEPT ![p] = "fin"]
  /\ UNCHANGED <<disk, logblk, cache, outstanding, committing, want, wrote,
                 tail, sys, panic>>

\* Faulty variant: the sleepers in begin_op are forgotten.
EndCommitSilent(p) ==
  /\ Running
  /\ pc[p] = "fin"
  /\ committing' = FALSE
  /\ pc' = [pc EXCEPT ![p] = "user"]
  /\ UNCHANGED <<diskVars, cache, lh, outstanding, want, wrote, tail, sys,
                 panic>>

\* The end of end_op, after commit() has returned.
EndCommit(p) ==
  /\ Running
  /\ pc[p] = "fin"
  /\ committing' = FALSE
  /\ pc' = Wakeup([pc EXCEPT ![p] = "user"])
  /\ UNCHANGED <<diskVars, cache, lh, outstanding, want, wrote, tail, sys,
                 panic>>

(***************************************************************************)
(* A crash loses the memory, and may tear the block being written.         *)
(***************************************************************************)
LogInFlight == sys = "up" /\ \E p \in Procs : pc[p] = "wlog"
HomeInFlight == sys = "rinst" \/ (sys = "up" /\ \E p \in Procs : pc[p] = "inst")

Crash ==
  /\ \/ UNCHANGED <<disk, logblk>>
     \/ /\ LogInFlight
        /\ logblk' = [logblk EXCEPT ![tail + 1] = Torn]
        /\ UNCHANGED disk
     \/ /\ HomeInFlight
        /\ disk' = [disk EXCEPT ![lh[tail + 1]] = Torn]
        /\ UNCHANGED logblk
  /\ cache' = disk'
  /\ lh' = <<>>
  /\ outstanding' = 0
  /\ committing' = FALSE
  /\ pc' = [p \in Procs |-> "user"]
  /\ want' = [p \in Procs |-> NoBlock]
  /\ wrote' = [p \in Procs |-> {}]
  /\ tail' = 0
  /\ sys' = "boot"
  /\ panic' = "none"
  /\ UNCHANGED head

(***************************************************************************)
(* initlog and recover_from_log, run by the first process before any       *)
(* other exists.                                                           *)
(***************************************************************************)
ReadHead ==
  /\ sys = "boot"
  /\ lh' = head
  /\ tail' = 0
  /\ sys' = IF head = <<>> THEN "rclear" ELSE "rinst"
  /\ UNCHANGED <<diskVars, cache, outstanding, committing, pc, want, wrote,
                 panic>>

RecoverInstall ==
  /\ sys = "rinst"
  /\ InstallBlock
  /\ IF tail + 1 < Len(lh)
       THEN tail' = tail + 1 /\ sys' = sys
       ELSE tail' = 0 /\ sys' = "rclear"
  /\ UNCHANGED <<logblk, head, lh, outstanding, committing, pc, want, wrote,
                 panic>>

RecoverClear ==
  /\ sys = "rclear"
  /\ lh' = <<>>
  /\ head' = <<>>
  /\ sys' = "up"
  /\ UNCHANGED <<disk, logblk, cache, outstanding, committing, pc, want,
                 wrote, tail, panic>>

Recover == ReadHead \/ RecoverInstall \/ RecoverClear

Commit(p) ==
  WriteLog(p) \/ WriteHead(p) \/ InstallTrans(p) \/ ClearLog(p) \/ EndCommit(p)

Next ==
  \/ \E p \in Procs :
       \/ CallBeginOp(p) \/ BeginOpSleep(p) \/ BeginOp(p)
       \/ \E b \in Blocks, v \in Values : Modify(p, b, v)
       \/ LogWrite(p) \/ EndOp(p) \/ Commit(p)
  \/ Recover
  \/ Crash

\* A process that can run keeps running, a call makes finitely many log
\* writes, and the machine finishes booting.
Fairness ==
  /\ \A p \in Procs :
       /\ WF_vars(BeginOpSleep(p) \/ BeginOp(p))
       /\ WF_vars(LogWrite(p))
       /\ WF_vars(Commit(p))
       /\ SF_vars(EndOp(p))
  /\ WF_vars(Recover)

Spec == Init /\ [][Next]_vars
FairSpec == Spec /\ Fairness

-----------------------------------------------------------------------------
(***************************************************************************)
(* Properties.                                                             *)
(***************************************************************************)

\* begin_op's reservation (log.c:132): the log has room for everything the
\* calls in progress may still log.  Reserve holds one token for each block
\* of each call's MAXOPBLOCKS that it has not logged yet.
Reserve ==
  {t \in Procs \X (1..MAXOPBLOCKS) :
     t[1] \in Active /\ t[2] > Cardinality(wrote[t[1]])}

SpaceReserved == sys = "up" => Len(lh) + Cardinality(Reserve) <= LOGSIZE

\* By how many blocks the log on disk falls short of the header.
Missing == IF LOGSIZE <= NLOG - 1 THEN 0 ELSE LOGSIZE - (NLOG - 1)

\* Of log.c's panics only one can be reached, though log_write tests log.lh.n
\* before it takes log.lock: log_write finds no room (log.c:218) only when
\* the calls in progress have logged all that was reserved for them, but for
\* what the disk lacks.  A call that goes on then panics even if its block
\* is in the log already.  end_op never meets a commit in progress.
PanicsOnlyFull == panic # "none" => panic = "too big" /\ Cardinality(Reserve) <= Missing

\* "max # of blocks any FS op writes" (param.h:9): the log has room for
\* calls that write no more than that.
BudgetEnough == panic = "none"

\* "The logging system only commits when there are no FS system calls
\* active" (log.c:13): a process inside commit() is alone, nobody is between
\* begin_op and end_op, and log.committing keeps newcomers out.
CommitAlone ==
  \A p \in Procs : pc[p] \in Commits =>
    /\ committing
    /\ Active = {}
    /\ \A q \in Procs \ {p} : pc[q] \notin Commits

\* Nobody sleeps in begin_op with no one left to wake it: either a call is
\* in progress, whose end_op will, or a commit is, which ends with a wakeup.
NoLostWakeup ==
  (\E p \in Procs : pc[p] = "asleep") =>
    (Active # {} \/ \E q \in Procs : pc[q] \in Commits)

\* The inductive strengthening used by the proofs: where each part of the
\* control state may be when another part has a given value.
Counted == outstanding = Cardinality(Active)

CommitFlag == committing <=> \E p \in Procs : pc[p] \in Commits

Quiet == sys # "up" => \A p \in Procs : pc[p] = "user"

LogIdle ==
  (sys = "up" /\ \A p \in Procs : pc[p] \in {"user", "begin", "asleep", "fin"})
    => lh = <<>>

Budget ==
  \A p \in Procs :
    /\ Cardinality(wrote[p]) <= MAXOPBLOCKS
    /\ pc[p] = "add" =>
         /\ want[p] \in Blocks
         /\ want[p] \in wrote[p] \/ Cardinality(wrote[p]) < MAXOPBLOCKS

WroteLogged == \A p \in Active : wrote[p] \subseteq Logged

Cursor ==
  /\ Len(lh) <= LOGSIZE /\ Len(head) <= LOGSIZE
  /\ \A p \in Procs : pc[p] \in {"wlog", "inst"} => tail < Len(lh)
  /\ \A p \in Procs : pc[p] \in {"whead"} => tail = 0 /\ Len(lh) > 0
  /\ sys = "rinst" => tail < Len(lh)

IInv ==
  /\ TypeOK /\ Counted /\ CommitFlag /\ CommitAlone /\ Quiet /\ LogIdle
  /\ NoLostWakeup /\ Budget /\ WroteLogged /\ Cursor /\ SpaceReserved

\* The contents a reboot would end up with: the home blocks, overlaid with
\* the log if the header says it was committed.  Recovery may itself be
\* interrupted, so this is what recover_from_log computes from any point.
Recovered ==
  [b \in Blocks |->
     IF \E i \in 1..Len(head) : head[i] = b
       THEN logblk[CHOOSE i \in 1..Len(head) : head[i] = b]
       ELSE disk[b]]

\* The log implements a disk with atomic transactions: what a crash and
\* recovery would leave changes only at write_head, in one step, and never
\* to a state that holds part of a system call in progress.
Abstract == INSTANCE AtomicDisk WITH
  durable <- Recovered,
  view <- IF sys = "up" THEN cache ELSE Recovered,
  ops <- Active

AtomicTransactions == Abstract!Spec

\* Whoever sleeps in begin_op is woken (or the machine stops): every end_op
\* either wakes the sleepers or commits and then wakes them.
SleepersWake ==
  \A p \in Procs : (pc[p] = "asleep") ~> (pc[p] # "asleep" \/ panic # "none")
=============================================================================
