-------------------------------- MODULE Proc --------------------------------
(***************************************************************************)
(* The life of a process in kernel/proc.c: fork, exit, wait and kill, with *)
(* the per-process spinlocks p->lock held exactly as the code holds them.  *)
(*                                                                         *)
(* A slot is an index of proc[]; slot 1 is initproc.  RUNNABLE stands for  *)
(* RUNNABLE and RUNNING: a process whose state is RUNNABLE may take its    *)
(* next step at any time (module Sched models the choice).  The loops      *)
(* that look for a slot (allocproc, reparent, wait, kill) touch one slot   *)
(* per step.  fork's failures (no memory, the container is full) are one   *)
(* action, since both undo the child with freeproc.                        *)
(***************************************************************************)
EXTENDS Integers, FiniteSets

CONSTANTS
  NPROC,        \* param.h: slots of the process table
  MaxPid        \* bound on the pids handed out by allocpid

ASSUME ProcAssumption == NPROC \in Nat \ {0, 1} /\ MaxPid \in Nat \ {0}

Slots == 1..NPROC
initproc == 1
None == 0

VARIABLES
  state,        \* p->state
  parent,       \* p->parent
  pid,          \* p->pid
  killed,       \* p->killed
  lock,         \* the process whose thread holds p->lock
  nextpid,
  pc,           \* where the thread of each process is
  other,        \* the slot the thread is working on: fork's np, exit's
                \* original_parent, wait's np, kill's p
  havekids,     \* wait's local
  target        \* kill's argument

vars == <<state, parent, pid, killed, lock, nextpid, pc, other, havekids, target>>
locals == <<havekids, target>>

\* userinit has made initproc, with pid 1.
Init ==
  /\ state = [s \in Slots |-> IF s = initproc THEN "RUNNABLE" ELSE "UNUSED"]
  /\ parent = [s \in Slots |-> None]
  /\ pid = [s \in Slots |-> IF s = initproc THEN 1 ELSE 0]
  /\ killed = [s \in Slots |-> FALSE]
  /\ lock = [s \in Slots |-> None]
  /\ nextpid = 2
  /\ pc = [s \in Slots |-> "user"]
  /\ other = [s \in Slots |-> None]
  /\ havekids = [s \in Slots |-> FALSE]
  /\ target = [s \in Slots |-> 0]

Free(n) == lock[n] = None
Runs(s, where) == state[s] = "RUNNABLE" /\ pc[s] = where
\* A thread that would enter a system call: usertrap lets a killed process
\* only exit.
CanCall(s) == Runs(s, "user") /\ ~killed[s]

\* freeproc; its callers release the locks.
FreeProc(n) ==
  /\ state' = [state EXCEPT ![n] = "UNUSED"]
  /\ parent' = [parent EXCEPT ![n] = None]
  /\ pid' = [pid EXCEPT ![n] = 0]
  /\ killed' = [killed EXCEPT ![n] = FALSE]

(***************************************************************************)
(* fork and allocproc.                                                     *)
(***************************************************************************)
AllocProc(s, n) ==
  /\ CanCall(s)
  /\ nextpid <= MaxPid
  /\ Free(n) /\ state[n] = "UNUSED"
  /\ lock' = [lock EXCEPT ![n] = s]
  /\ pid' = [pid EXCEPT ![n] = nextpid]
  /\ nextpid' = nextpid + 1
  /\ pc' = [pc EXCEPT ![s] = "fork"]
  /\ other' = [other EXCEPT ![s] = n]
  /\ UNCHANGED <<state, parent, killed, locals>>

\* kalloc of the trapframe failed: the slot stays UNUSED but keeps its pid.
AllocNoFrame(s) ==
  /\ Runs(s, "fork")
  /\ lock' = [lock EXCEPT ![other[s]] = None]
  /\ pc' = [pc EXCEPT ![s] = "user"]
  /\ other' = [other EXCEPT ![s] = None]
  /\ UNCHANGED <<state, parent, pid, killed, nextpid, locals>>

\* uvmcopy failed, or the container has maxproc processes.
ForkFail(s) ==
  /\ Runs(s, "fork")
  /\ FreeProc(other[s])
  /\ lock' = [lock EXCEPT ![other[s]] = None]
  /\ pc' = [pc EXCEPT ![s] = "user"]
  /\ other' = [other EXCEPT ![s] = None]
  /\ UNCHANGED <<nextpid, locals>>

ForkDone(s) ==
  /\ Runs(s, "fork")
  /\ parent' = [parent EXCEPT ![other[s]] = s]
  /\ state' = [state EXCEPT ![other[s]] = "RUNNABLE"]
  /\ lock' = [lock EXCEPT ![other[s]] = None]
  /\ pc' = [pc EXCEPT ![s] = "user", ![other[s]] = "user"]
  /\ other' = [other EXCEPT ![s] = None]
  /\ UNCHANGED <<pid, killed, nextpid, locals>>

(***************************************************************************)
(* exit and reparent.                                                      *)
(***************************************************************************)
\* wakeup1(q), whose caller holds q->lock.
Wakeup1(q) ==
  IF pc[q] = "asleep" /\ state[q] = "SLEEPING"
    THEN [state EXCEPT ![q] = "RUNNABLE"] ELSE state

Exit(s) ==
  /\ s # initproc
  /\ Runs(s, "user")
  /\ pc' = [pc EXCEPT ![s] = "exit1"]
  /\ UNCHANGED <<state, parent, pid, killed, lock, nextpid, other, locals>>

ExitWakeInit(s) ==
  /\ Runs(s, "exit1")
  /\ Free(initproc)
  /\ state' = Wakeup1(initproc)
  /\ pc' = [pc EXCEPT ![s] = "exit2"]
  /\ UNCHANGED <<parent, pid, killed, lock, nextpid, other, locals>>

\* Faulty variant: p->lock is not released after the copy.
ExitKeepsLock(s) ==
  /\ Runs(s, "exit2")
  /\ Free(s)
  /\ other' = [other EXCEPT ![s] = parent[s]]
  /\ pc' = [pc EXCEPT ![s] = "exit3"]
  /\ lock' = [lock EXCEPT ![s] = s]
  /\ UNCHANGED <<state, parent, pid, killed, nextpid, locals>>

ExitCopyParent(s) ==
  /\ Runs(s, "exit2")
  /\ Free(s)
  /\ other' = [other EXCEPT ![s] = parent[s]]
  /\ pc' = [pc EXCEPT ![s] = "exit3"]
  /\ UNCHANGED <<state, parent, pid, killed, lock, nextpid, locals>>

ExitLockParent(s) ==
  /\ Runs(s, "exit3")
  /\ Free(other[s])
  /\ lock' = [lock EXCEPT ![other[s]] = s]
  /\ pc' = [pc EXCEPT ![s] = "exit4"]
  /\ UNCHANGED <<state, parent, pid, killed, nextpid, other, locals>>

ExitLockSelf(s) ==
  /\ Runs(s, "exit4")
  /\ Free(s)
  /\ lock' = [lock EXCEPT ![s] = s]
  /\ pc' = [pc EXCEPT ![s] = "reparent"]
  /\ UNCHANGED <<state, parent, pid, killed, nextpid, other, locals>>

Reparent(s, n) ==
  /\ Runs(s, "reparent")
  /\ parent[n] = s
  /\ Free(n)
  /\ parent' = [parent EXCEPT ![n] = initproc]
  /\ UNCHANGED <<state, pid, killed, lock, nextpid, pc, other, locals>>

\* Faulty variants: the parent is not woken; the children are not given
\* to init.
ExitSilent(s) ==
  /\ Runs(s, "reparent")
  /\ \A n \in Slots : parent[n] # s
  /\ state' = [state EXCEPT ![s] = "ZOMBIE"]
  /\ lock' = [lock EXCEPT ![other[s]] = None, ![s] = None]
  /\ pc' = [pc EXCEPT ![s] = "zombie"]
  /\ other' = [other EXCEPT ![s] = None]
  /\ UNCHANGED <<parent, pid, killed, nextpid, locals>>

ExitOrphans(s) ==
  /\ Runs(s, "reparent")
  /\ state' = [Wakeup1(other[s]) EXCEPT ![s] = "ZOMBIE"]
  /\ lock' = [lock EXCEPT ![other[s]] = None, ![s] = None]
  /\ pc' = [pc EXCEPT ![s] = "zombie"]
  /\ other' = [other EXCEPT ![s] = None]
  /\ UNCHANGED <<parent, pid, killed, nextpid, locals>>

\* wakeup1(original_parent), ZOMBIE, and sched(), after which the scheduler
\* releases p->lock.
ExitZombie(s) ==
  /\ Runs(s, "reparent")
  /\ \A n \in Slots : parent[n] # s
  /\ state' = [Wakeup1(other[s]) EXCEPT ![s] = "ZOMBIE"]
  /\ lock' = [lock EXCEPT ![other[s]] = None, ![s] = None]
  /\ pc' = [pc EXCEPT ![s] = "zombie"]
  /\ other' = [other EXCEPT ![s] = None]
  /\ UNCHANGED <<parent, pid, killed, nextpid, locals>>

(***************************************************************************)
(* wait.  The scan reads np->parent without np->lock and skips the slots   *)
(* that are not children; only the process itself gives a child away, so   *)
(* reading the skipped slots together loses no interleaving.               *)
(***************************************************************************)
Wait(s) ==
  /\ CanCall(s)
  /\ Free(s)
  /\ lock' = [lock EXCEPT ![s] = s]
  /\ pc' = [pc EXCEPT ![s] = "scan"]
  /\ other' = [other EXCEPT ![s] = 1]
  /\ havekids' = [havekids EXCEPT ![s] = FALSE]
  /\ UNCHANGED <<state, parent, pid, killed, nextpid, target>>

NextChild(s, n) ==
  /\ n \in other[s]..NPROC
  /\ parent[n] = s
  /\ \A m \in other[s]..(n - 1) : parent[m] # s

ScanChild(s, n) ==
  /\ Runs(s, "scan")
  /\ NextChild(s, n)
  /\ Free(n)
  /\ state[n] # "ZOMBIE"
  /\ havekids' = [havekids EXCEPT ![s] = TRUE]
  /\ other' = [other EXCEPT ![s] = n + 1]
  /\ UNCHANGED <<state, parent, pid, killed, lock, nextpid, pc, target>>

Reap(s, n) ==
  /\ Runs(s, "scan")
  /\ NextChild(s, n)
  /\ Free(n)
  /\ state[n] = "ZOMBIE"
  /\ FreeProc(n)
  /\ lock' = [lock EXCEPT ![s] = None]
  /\ pc' = [pc EXCEPT ![s] = "user", ![n] = "user"]
  /\ other' = [other EXCEPT ![s] = None]
  /\ havekids' = [havekids EXCEPT ![s] = FALSE]
  /\ UNCHANGED <<nextpid, target>>

\* The status could not be copied out: the child stays a zombie.  init
\* passes no address (user/init.c).
ReapFault(s, n) ==
  /\ s # initproc
  /\ Runs(s, "scan")
  /\ NextChild(s, n)
  /\ Free(n)
  /\ state[n] = "ZOMBIE"
  /\ lock' = [lock EXCEPT ![s] = None]
  /\ pc' = [pc EXCEPT ![s] = "user"]
  /\ other' = [other EXCEPT ![s] = None]
  /\ havekids' = [havekids EXCEPT ![s] = FALSE]
  /\ UNCHANGED <<state, parent, pid, killed, nextpid, target>>

ScanEnd(s) ==
  /\ Runs(s, "scan")
  /\ \A n \in other[s]..NPROC : parent[n] # s
  /\ lock' = [lock EXCEPT ![s] = None]
  /\ other' = [other EXCEPT ![s] = None]
  /\ havekids' = [havekids EXCEPT ![s] = FALSE]
  /\ IF ~havekids[s] \/ killed[s]
       THEN pc' = [pc EXCEPT ![s] = "user"] /\ state' = state
       ELSE /\ pc' = [pc EXCEPT ![s] = "asleep"]
            /\ state' = [state EXCEPT ![s] = "SLEEPING"]
  /\ UNCHANGED <<parent, pid, killed, nextpid, target>>

\* The scheduler takes p->lock and switches to the process, which returns
\* from sleep() into the loop of wait with that lock held.
WaitResume(s) ==
  /\ Runs(s, "asleep")
  /\ Free(s)
  /\ lock' = [lock EXCEPT ![s] = s]
  /\ pc' = [pc EXCEPT ![s] = "scan"]
  /\ other' = [other EXCEPT ![s] = 1]
  /\ UNCHANGED <<state, parent, pid, killed, nextpid, locals>>

(***************************************************************************)
(* kill, called in the root container: the victim's pid is read before its *)
(* lock is taken.                                                          *)
(***************************************************************************)
KillFind(s, n) ==
  /\ s # initproc                    \* user/init.c never calls kill
  /\ CanCall(s)
  /\ target' = [target EXCEPT ![s] = pid[n]]
  /\ other' = [other EXCEPT ![s] = n]
  /\ pc' = [pc EXCEPT ![s] = "kill"]
  /\ UNCHANGED <<state, parent, pid, killed, lock, nextpid, havekids>>

Kill(s) ==
  /\ Runs(s, "kill")
  /\ Free(other[s])
  /\ killed' = [killed EXCEPT ![other[s]] = TRUE]
  /\ state' = IF state[other[s]] = "SLEEPING"
                THEN [state EXCEPT ![other[s]] = "RUNNABLE"] ELSE state
  /\ pc' = [pc EXCEPT ![s] = "user"]
  /\ other' = [other EXCEPT ![s] = None]
  /\ target' = [target EXCEPT ![s] = 0]
  /\ UNCHANGED <<parent, pid, lock, nextpid, havekids>>

ExitStep(s) ==
  \/ ExitWakeInit(s) \/ ExitCopyParent(s) \/ ExitLockParent(s)
  \/ ExitLockSelf(s) \/ (\E n \in Slots : Reparent(s, n)) \/ ExitZombie(s)

WaitStep(s) ==
  \/ \E n \in Slots : ScanChild(s, n) \/ Reap(s, n)
  \/ ScanEnd(s) \/ WaitResume(s)

ForkStep(s) == AllocNoFrame(s) \/ ForkFail(s) \/ ForkDone(s)

Next ==
  \E s \in Slots :
    \/ \E n \in Slots : AllocProc(s, n) \/ KillFind(s, n) \/ ReapFault(s, n)
    \/ ForkStep(s) \/ Exit(s) \/ ExitStep(s) \/ Wait(s) \/ WaitStep(s) \/ Kill(s)

\* Every thread inside the kernel keeps going, and init calls wait again
\* and again (user/init.c).
Fairness ==
  /\ \A s \in Slots : WF_vars(ForkStep(s)) /\ WF_vars(ExitStep(s))
                      /\ WF_vars(WaitStep(s)) /\ WF_vars(Kill(s))
  /\ WF_vars(Wait(initproc))

Spec == Init /\ [][Next]_vars
FairSpec == Spec /\ Fairness

-----------------------------------------------------------------------------
\* A process never sleeps in wait() over a child that has exited: wait holds
\* p->lock from the scan to the sleep and exit takes the parent's lock before
\* it becomes a zombie.  (init is not included: see ZombieReaped.)
NoLostExit ==
  \A s \in Slots \ {initproc}, n \in Slots :
    state[s] = "SLEEPING" /\ parent[n] = s => state[n] # "ZOMBIE"

\* Every process has a parent that is alive and can wait for it: exit hands
\* all its children to init before the process becomes a zombie, even while
\* those children are themselves in exit.
ParentAlive ==
  \A n \in Slots \ {initproc} :
    state[n] # "UNUSED" =>
      parent[n] # None /\ state[parent[n]] \in {"SLEEPING", "RUNNABLE"}

\* The slot whose lock a thread is about to acquire.
WantsLock(s) ==
  CASE pc[s] = "exit1" -> {initproc}
    [] pc[s] \in {"exit2", "exit4"} -> {s}
    [] pc[s] \in {"exit3", "kill"} -> {other[s]}
    [] pc[s] = "reparent" -> {n \in Slots : parent[n] = s}
    [] pc[s] = "scan" -> {n \in Slots : NextChild(s, n)}
    [] OTHER -> {}

\* Each of a set of threads waits for a p->lock that another of them holds.
Circle(T) == T # {} /\ \A s \in T : \E n \in WantsLock(s) : lock[n] \in T

\* exit holds the lock of the parent it remembers, and a younger process has
\* that slot now: the parent gave its child to init, exited and was reaped.
ParentReused(s) ==
  pc[s] \in {"exit4", "reparent"} /\ pid[other[s]] > pid[s]

\* "the parent-then-child rule" (proc.c:459) rules out a circle of processes
\* each waiting for a p->lock that another of them holds, as long as the
\* locks that exit() holds are those of a parent and a child: not if the
\* slot of the parent it remembers was reused.
NoDeadlock ==
  \A T \in SUBSET Slots : Circle(T) => \E s \in T : ParentReused(s)

\* "the result will be a harmless spurious wakeup to a dead or wrong process"
\* (proc.c:451): locking the parent that exit() remembers never hangs.
HarmlessRace == \A T \in SUBSET Slots : ~Circle(T)

\* "An exited process remains in the zombie state until its parent calls
\* wait()" (proc.c:415): init calls wait for ever, so every zombie that is
\* init's child goes away (unless init itself was killed, a panic).
ZombieReaped ==
  \A n \in Slots :
    (state[n] = "ZOMBIE" /\ parent[n] = initproc)
      ~> (state[n] # "ZOMBIE" \/ killed[initproc])

\* "Kill the process with the given pid" (proc.c:718): the process that
\* kill() marks is the one that has the pid it was called with.
KillsThePid ==
  [][\A s \in Slots :
       Kill(s) /\ state[other[s]] # "UNUSED" => pid[other[s]] = target[s]]_vars
=============================================================================
