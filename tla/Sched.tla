-------------------------------- MODULE Sched --------------------------------
(***************************************************************************)
(* The scheduler of kernel/proc.c: every CPU walks the process table and   *)
(* runs the RUNNABLE processes of one container at a time, moving to the   *)
(* next CRUNNING container after each process it ran and at the end of     *)
(* each walk; cinit, cpause and cresume change what it may run.            *)
(*                                                                         *)
(* The processes are fixed (module Proc creates and reaps them).  What a   *)
(* CPU does under p->lock is one step, except that it keeps the lock while *)
(* get_next_active_container looks for a CRUNNING container: that loop     *)
(* does not end as long as there is none.                                  *)
(***************************************************************************)
EXTENDS Integers, FiniteSets

CONSTANTS
  NCPU, NPROC, NCONTS,      \* param.h
  InitCont                  \* the container of each process at the start

Cpus == 1..NCPU
Slots == 1..NPROC
Conts == 0..(NCONTS - 1)    \* indices of containers[]
root == 0
None == 0

ASSUME SchedAssumption ==
  /\ NCPU \in Nat \ {0} /\ NPROC \in Nat \ {0} /\ NCONTS \in Nat \ {0}
  /\ InitCont \in [Slots -> Conts]

VARIABLES
  state,      \* p->state
  cont,       \* p->container
  cstate,     \* c->state
  proc,       \* cpu->proc
  cindex,     \* scheduler's local cindex, one per CPU
  pos,        \* the slot scheduler's loop is at
  phase,      \* "walk"; "run"; "next" while it looks for a container
  claim,      \* the container a process inside cinit has chosen, or -1
  late        \* auxiliary: containers a CPU has run since they were paused

vars == <<state, cont, cstate, proc, cindex, pos, phase, claim, late>>

Active == {k \in Conts : cstate[k] = "CRUNNING"}

\* get_next_active_container(k), for Active # {}.
NextActive(k) ==
  LET dist(j) == (j - k - 1) % NCONTS
  IN  CHOOSE j \in Active : \A i \in Active : dist(j) <= dist(i)

TypeOK ==
  /\ state \in [Slots -> {"SLEEPING", "RUNNABLE", "RUNNING", "SUSPENDED"}]
  /\ cont \in [Slots -> Conts]
  /\ cstate \in [Conts -> {"CUNUSED", "CSUSPENDED", "CRUNNING"}]
  /\ proc \in [Cpus -> Slots \cup {None}]
  /\ cindex \in [Cpus -> Conts]
  /\ pos \in [Cpus -> 1..(NPROC + 1)]
  /\ phase \in [Cpus -> {"walk", "run", "next"}]
  /\ claim \in [Slots -> Conts \cup {-1}]
  /\ late \in [Cpus -> SUBSET Conts]

Init ==
  /\ state = [p \in Slots |-> "RUNNABLE"]
  /\ cont = InitCont
  /\ cstate = [k \in Conts |->
       IF k \in {InitCont[p] : p \in Slots} THEN "CRUNNING" ELSE "CUNUSED"]
  /\ proc = [c \in Cpus |-> None]
  /\ cindex = [c \in Cpus |-> NextActive(0)]
  /\ pos = [c \in Cpus |-> 1]
  /\ phase = [c \in Cpus |-> "walk"]
  /\ claim = [p \in Slots |-> -1]
  /\ late = [c \in Cpus |-> {}]

\* A CPU holds p->lock while it looks for a container after running p.
Locked(p) == \E c \in Cpus : phase[c] = "next" /\ pos[c] = p

(***************************************************************************)
(* scheduler().                                                            *)
(***************************************************************************)
Chosen(c) == state[pos[c]] = "RUNNABLE" /\ cont[pos[c]] = cindex[c]

\* Faulty variant: the state is not set.
DispatchUnmarked(c) ==
  /\ phase[c] = "walk" /\ pos[c] \in Slots /\ ~Locked(pos[c])
  /\ Chosen(c)
  /\ proc' = [proc EXCEPT ![c] = pos[c]]
  /\ phase' = [phase EXCEPT ![c] = "run"]
  /\ late' = IF cstate[cindex[c]] = "CRUNNING" THEN late
             ELSE [late EXCEPT ![c] = @ \cup {cindex[c]}]
  /\ UNCHANGED <<state, cont, cstate, cindex, pos, claim>>

Dispatch(c) ==
  /\ phase[c] = "walk" /\ pos[c] \in Slots /\ ~Locked(pos[c])
  /\ Chosen(c)
  /\ state' = [state EXCEPT ![pos[c]] = "RUNNING"]
  /\ proc' = [proc EXCEPT ![c] = pos[c]]
  /\ phase' = [phase EXCEPT ![c] = "run"]
  /\ late' = IF cstate[cindex[c]] = "CRUNNING" THEN late
             ELSE [late EXCEPT ![c] = @ \cup {cindex[c]}]
  /\ UNCHANGED <<cont, cstate, cindex, pos, claim>>

Skip(c) ==
  /\ phase[c] = "walk" /\ pos[c] \in Slots /\ ~Locked(pos[c])
  /\ ~Chosen(c)
  /\ pos' = [pos EXCEPT ![c] = @ + 1]
  /\ UNCHANGED <<state, cont, cstate, proc, cindex, phase, claim, late>>

\* Faulty variant: the container is not changed after a process has run.
AdvanceStays(c) ==
  /\ phase[c] = "next"
  /\ Active # {}
  /\ pos' = [pos EXCEPT ![c] = @ + 1]
  /\ phase' = [phase EXCEPT ![c] = "walk"]
  /\ UNCHANGED <<state, cont, cstate, proc, cindex, claim, late>>

\* After swtch has come back: the next container, then release(&p->lock).
Advance(c) ==
  /\ phase[c] = "next"
  /\ Active # {}
  /\ cindex' = [cindex EXCEPT ![c] = NextActive(@)]
  /\ pos' = [pos EXCEPT ![c] = @ + 1]
  /\ phase' = [phase EXCEPT ![c] = "walk"]
  /\ UNCHANGED <<state, cont, cstate, proc, claim, late>>

\* Faulty variant: the walk starts at the second slot.
WrapLate(c) ==
  /\ phase[c] = "walk" /\ pos[c] = NPROC + 1
  /\ Active # {}
  /\ cindex' = [cindex EXCEPT ![c] = NextActive(@)]
  /\ pos' = [pos EXCEPT ![c] = 2]
  /\ UNCHANGED <<state, cont, cstate, proc, phase, claim, late>>

WrapAround(c) ==
  /\ phase[c] = "walk" /\ pos[c] = NPROC + 1
  /\ Active # {}
  /\ cindex' = [cindex EXCEPT ![c] = NextActive(@)]
  /\ pos' = [pos EXCEPT ![c] = 1]
  /\ UNCHANGED <<state, cont, cstate, proc, phase, claim, late>>

(***************************************************************************)
(* The process on the CPU: yield (a timer interrupt, at any point), sleep, *)
(* and the system calls that the scheduler depends on.                     *)
(***************************************************************************)
GiveUp(c, st) ==
  /\ phase[c] = "run" /\ ~Locked(proc[c])
  /\ st \in {"RUNNABLE", "SLEEPING"}
  /\ state' = [state EXCEPT ![proc[c]] = st]
  /\ proc' = [proc EXCEPT ![c] = None]
  /\ phase' = [phase EXCEPT ![c] = "next"]
  /\ UNCHANGED <<cont, cstate, cindex, pos, claim, late>>

Yield(c) == GiveUp(c, "RUNNABLE")
Sleep(c) == GiveUp(c, "SLEEPING")

\* wakeup by another process or an interrupt handler.
Wakeup(p) ==
  /\ state[p] = "SLEEPING" /\ ~Locked(p)
  /\ state' = [state EXCEPT ![p] = "RUNNABLE"]
  /\ UNCHANGED <<cont, cstate, proc, cindex, pos, phase, claim, late>>

\* cinit up to begin_op(): the process already belongs to the container,
\* whose state is still CUNUSED, while it looks up the root directory.
CInitClaim(c, k) ==
  /\ phase[c] = "run" /\ claim[proc[c]] = -1
  /\ cstate[k] = "CUNUSED" /\ \A j \in 0..(k - 1) : cstate[j] # "CUNUSED"
  /\ cont' = [cont EXCEPT ![proc[c]] = k]
  /\ claim' = [claim EXCEPT ![proc[c]] = k]
  /\ UNCHANGED <<state, cstate, proc, cindex, pos, phase, late>>

CInitDone(c) ==
  /\ phase[c] = "run" /\ claim[proc[c]] # -1
  /\ cstate' = [cstate EXCEPT ![claim[proc[c]]] = "CRUNNING"]
  /\ claim' = [claim EXCEPT ![proc[c]] = -1]
  /\ UNCHANGED <<state, cont, proc, cindex, pos, phase, late>>

\* cpause and cresume find a container by name, under no lock; only a
\* process of the root container may call them.  A container that is unused
\* has no name yet: cstop, which leaves the name, is in module Container.
RootRuns(c) == phase[c] = "run" /\ cont[proc[c]] = root /\ claim[proc[c]] = -1

CPause(c, k) ==
  /\ RootRuns(c)
  /\ cstate[k] # "CUNUSED"
  /\ cstate' = [cstate EXCEPT ![k] = "CSUSPENDED"]
  /\ late' = IF cstate[k] = "CSUSPENDED" THEN late
             ELSE [d \in Cpus |-> late[d] \ {k}]
  /\ UNCHANGED <<state, cont, proc, cindex, pos, phase, claim>>

CResume(c, k) ==
  /\ RootRuns(c)
  /\ cstate[k] # "CUNUSED"
  /\ cstate' = [cstate EXCEPT ![k] = "CRUNNING"]
  /\ UNCHANGED <<state, cont, proc, cindex, pos, phase, claim, late>>

\* suspend(pid, f): the state is overwritten, whatever it was.
Suspend(c, p) ==
  /\ phase[c] = "run" /\ proc[c] # p /\ ~Locked(p)
  /\ state' = [state EXCEPT ![p] = "SUSPENDED"]
  /\ UNCHANGED <<cont, cstate, proc, cindex, pos, phase, claim, late>>

\* kill(pid): what it does to the state.
Kill(c, p) ==
  /\ phase[c] = "run" /\ ~Locked(p)
  /\ state[p] \in {"SLEEPING", "SUSPENDED"}
  /\ state' = [state EXCEPT ![p] = "RUNNABLE"]
  /\ UNCHANGED <<cont, cstate, proc, cindex, pos, phase, claim, late>>

SchedStep(c) == Dispatch(c) \/ Skip(c) \/ Advance(c) \/ WrapAround(c)

Next ==
  \/ \E c \in Cpus :
       \/ SchedStep(c) \/ Yield(c) \/ Sleep(c) \/ CInitDone(c)
       \/ \E k \in Conts : CInitClaim(c, k) \/ CPause(c, k) \/ CResume(c, k)
  \/ \E p \in Slots : Wakeup(p)

\* With the system calls suspend and kill.
NextSuspend ==
  \/ Next
  \/ \E c \in Cpus, p \in Slots : Suspend(c, p) \/ Kill(c, p)

\* Each CPU keeps executing, and the timer interrupts what it runs.
Fairness ==
  \A c \in Cpus : WF_vars(SchedStep(c)) /\ WF_vars(Yield(c))

Spec == Init /\ [][Next]_vars /\ Fairness
SuspendSpec == Init /\ [][NextSuspend]_vars

-----------------------------------------------------------------------------
\* A process never runs on two CPUs, and what a CPU runs is RUNNING: the
\* scheduler changes the state under p->lock before it switches.
OneCPU ==
  \A c \in Cpus :
    proc[c] # None => /\ state[proc[c]] = "RUNNING"
                      /\ \A d \in Cpus : proc[d] = proc[c] => d = c

\* kill makes a SUSPENDED process RUNNABLE to "wake process from sleep()"
\* (proc.c:745): such a process is not running on any CPU, so that no second
\* CPU can pick it up, with the same kernel stack, while the first runs it.
NeverTwice ==
  \A c, d \in Cpus : proc[c] # None /\ proc[c] = proc[d] => c = d

\* After cpause a CPU that had already chosen the container runs at most one
\* more process of it before it is resumed: scheduler() looks at the
\* container's state only when it moves to the next container.
PausedOnce ==
  [][\A c \in Cpus :
       Dispatch(c) /\ cstate[cindex[c]] = "CSUSPENDED" =>
         cindex[c] \notin late[c]]_vars

\* While one container is the only one running, none of its runnable
\* processes waits for ever, whatever the CPUs' walks have skipped.
SoleContainerRuns ==
  \A p \in Slots :
    (<>[](Active = {cont[p]})) => []<>(state[p] # "RUNNABLE")

\* "Give up the CPU for one scheduling round" (proc.c:624): a runnable
\* process of a container that stays CRUNNING gets a CPU again.
RunnableRuns ==
  \A p \in Slots :
    (<>[](cstate[cont[p]] = "CRUNNING")) => []<>(state[p] # "RUNNABLE")
=============================================================================
