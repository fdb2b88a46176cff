---------------------------- MODULE SchedProofs ----------------------------
(***************************************************************************)
(* For any numbers of CPUs, processes and containers: the types, that no   *)
(* process is on two CPUs, that a p->lock kept by a CPU while it looks for *)
(* a container is kept by no other, and what a paused container may still  *)
(* get to run.                                                             *)
(***************************************************************************)
EXTENDS Sched, TLAPS, WellFoundedInduction

\* The provers a leaf is tried with unless it names its own.
USE ZenonT(4), SMT, Z3T(20), ZenonT(40)

\* A CPU in a process has one; the slot it stands at is the one it ran, which
\* keeps that slot's lock with one CPU while the next container is looked for.
InProcess ==
  \A c \in Cpus :
    /\ phase[c] = "run" => proc[c] = pos[c] /\ pos[c] \in Slots
    /\ phase[c] # "run" => proc[c] = None
    /\ phase[c] = "next" => pos[c] \in Slots

OneLock ==
  \A c, d \in Cpus :
    phase[c] = "next" /\ phase[d] = "next" /\ pos[c] = pos[d] => c = d

\* A CPU whose walk stands at a suspended container has run nothing of it
\* since it was paused: had it, it would have moved on.
NotYetLate ==
  \A c \in Cpus :
    phase[c] = "walk" /\ cstate[cindex[c]] = "CSUSPENDED" =>
      cindex[c] \notin late[c]

IInv == TypeOK /\ InProcess /\ OneCPU /\ OneLock /\ NotYetLate

-----------------------------------------------------------------------------
\* A set of naturals that is not empty has a least member.
LEMMA Least ==
  ASSUME NEW T \in SUBSET Nat, T # {}
  PROVE  \E x \in T : \A y \in T : x <= y
<1>1. \E x \in T : \A y \in T : ~ (<<y, x>> \in OpToRel(<, Nat))
  BY NatLessThanWellFounded, WFMin, Zenon
<1>2. ASSUME NEW x \in Nat, NEW y \in Nat, y < x
      PROVE  <<y, x>> \in OpToRel(<, Nat)
  <2>1. <<y, x>> \in Nat \X Nat /\ <<y, x>>[1] < <<y, x>>[2]
    BY <1>2
  <2> QED  BY <2>1, Zenon DEF OpToRel
<1>3. \E x \in T : \A y \in T : ~ (y < x)
  <2>1. PICK x \in T : \A y \in T : ~ (<<y, x>> \in OpToRel(<, Nat))
    BY <1>1, Zenon
  <2>2. \A y \in T : ~ (y < x)
    BY <1>2, <2>1, Zenon
  <2> QED  BY <2>2
<1> QED  BY <1>3

\* get_next_active_container returns the index of a running container.
LEMMA NextActiveActive ==
  ASSUME NEW k \in Conts, Active # {}
  PROVE  NextActive(k) \in Active
<1> DEFINE dist(j) == (j - k - 1) % NCONTS
           T == {dist(j) : j \in Active}
<1>1. \A j \in Active : dist(j) \in Nat
  BY SchedAssumption DEF Active, Conts
<1>2. T \in SUBSET Nat /\ T # {}
  BY <1>1
<1> HIDE DEF dist
<1>3. \E x \in T : \A y \in T : x <= y
  <2> HIDE DEF T
  <2> QED  BY <1>2, Least
<1>4. \E j \in Active : \A i \in Active : dist(j) <= dist(i)
  BY <1>3
<1>5. NextActive(k) = CHOOSE j \in Active : \A i \in Active : dist(j) <= dist(i)
  BY DEF NextActive, dist
<1> QED  BY <1>4, <1>5

\* The initial state satisfies the invariant: the first process's container
\* is running, so the scheduler's first search ends.
LEMMA InitIInv == Init => IInv
<1> SUFFICES ASSUME Init PROVE IInv
  OBVIOUS
<1>1. 0 \in Conts /\ 1 \in Slots /\ InitCont[1] \in Conts
  BY SchedAssumption DEF Conts, Slots
<1>2. InitCont[1] \in Active
  BY <1>1 DEF Init, Active
<1>3. NextActive(0) \in Active
  BY <1>1, <1>2, NextActiveActive
<1>4. TypeOK
  BY <1>3, SchedAssumption DEF Init, TypeOK, Active, Slots, Cpus
<1>5. InProcess /\ OneCPU /\ OneLock /\ NotYetLate
  BY DEF Init, InProcess, OneCPU, OneLock, NotYetLate
<1> QED  BY <1>4, <1>5 DEF IInv

\* Every step keeps the types; the steps of a walk stay inside the table.
LEMMA TypeStep == TypeOK /\ InProcess /\ [Next]_vars => TypeOK'
<1> SUFFICES ASSUME TypeOK, InProcess, [Next]_vars PROVE TypeOK'
  OBVIOUS
<1> USE DEF TypeOK
<1>1. CASE UNCHANGED vars
  BY <1>1 DEF vars
<1>2. ASSUME NEW c \in Cpus, Dispatch(c) PROVE TypeOK'
  BY <1>2 DEF Dispatch
<1>3. ASSUME NEW c \in Cpus, Skip(c) PROVE TypeOK'
  <2>1. pos[c] + 1 \in 1..(NPROC + 1)
    BY <1>3, SchedAssumption DEF Skip, Slots
  <2> QED  BY <1>3, <2>1 DEF Skip
<1>4. ASSUME NEW c \in Cpus, Advance(c) PROVE TypeOK'
  <2>1. pos[c] + 1 \in 1..(NPROC + 1)
    BY <1>4, SchedAssumption DEF Advance, InProcess, Slots
  <2>2. NextActive(cindex[c]) \in Conts
    BY <1>4, NextActiveActive DEF Advance, Active
  <2> QED  BY <1>4, <2>1, <2>2 DEF Advance
<1>5. ASSUME NEW c \in Cpus, WrapAround(c) PROVE TypeOK'
  <2>1. 1 \in 1..(NPROC + 1)
    BY SchedAssumption
  <2>2. NextActive(cindex[c]) \in Conts
    BY <1>5, NextActiveActive DEF WrapAround, Active
  <2> QED  BY <1>5, <2>1, <2>2 DEF WrapAround
<1>6. ASSUME NEW c \in Cpus, Yield(c) \/ Sleep(c) PROVE TypeOK'
  BY <1>6 DEF Yield, Sleep, GiveUp
<1>7. ASSUME NEW c \in Cpus, CInitDone(c) PROVE TypeOK'
  BY <1>7, Zenon DEF CInitDone
<1>8. ASSUME NEW c \in Cpus, NEW k \in Conts,
             CInitClaim(c, k) \/ CPause(c, k) \/ CResume(c, k)
      PROVE  TypeOK'
  <2>1. CASE CInitClaim(c, k)
    BY <2>1, Zenon DEF CInitClaim
  <2>2. CASE CPause(c, k)
    <3>1. late' \in [Cpus -> SUBSET Conts]
      BY <2>2 DEF CPause
    <3> QED  BY <2>2, <3>1 DEF CPause
  <2>3. CASE CResume(c, k)
    BY <2>3 DEF CResume
  <2> QED  BY <1>8, <2>1, <2>2, <2>3
<1>9. ASSUME NEW p \in Slots, Wakeup(p) PROVE TypeOK'
  BY <1>9 DEF Wakeup
<1> QED
  BY <1>1, <1>2, <1>3, <1>4, <1>5, <1>6, <1>7, <1>8, <1>9 DEF Next, SchedStep

\* The steps that change neither what a CPU runs nor where it stands.
LEMMA CallsKeepCpus ==
  ASSUME NEW c \in Cpus,
         \/ CInitDone(c)
         \/ \E k \in Conts : CInitClaim(c, k) \/ CPause(c, k) \/ CResume(c, k)
  PROVE  UNCHANGED <<state, proc, pos, phase, cindex>>
BY DEF CInitDone, CInitClaim, CPause, CResume

\* Which process a CPU is in, and that it is in it alone.
LEMMA CpuStep ==
  IInv /\ [Next]_vars => InProcess' /\ OneCPU' /\ OneLock'
<1> SUFFICES ASSUME IInv, [Next]_vars PROVE InProcess' /\ OneCPU' /\ OneLock'
  OBVIOUS
<1>t. TypeOK /\ InProcess /\ OneCPU /\ OneLock
  BY DEF IInv
<1> DEFINE Good == InProcess /\ OneCPU /\ OneLock
<1>n. None \notin Slots
  BY DEF None, Slots
<1>1. CASE UNCHANGED vars
  BY <1>1, <1>t DEF vars, InProcess, OneCPU, OneLock
<1>2. ASSUME NEW c \in Cpus, Dispatch(c) PROVE Good'
  <2>1. \A d \in Cpus : proc[d] # pos[c]
    BY <1>2, <1>t, <1>n DEF Dispatch, Chosen, OneCPU, TypeOK
  <2>2. InProcess'
    BY <1>2, <1>t DEF Dispatch, InProcess, TypeOK
  <2>3. OneCPU'
    BY <1>2, <1>t, <1>n, <2>1 DEF Dispatch, OneCPU, TypeOK
  <2>4. OneLock'
    BY <1>2, <1>t DEF Dispatch, OneLock, TypeOK
  <2> QED  BY <2>2, <2>3, <2>4
<1>3. ASSUME NEW c \in Cpus, Skip(c) \/ WrapAround(c) PROVE Good'
  BY <1>3, <1>t DEF Skip, WrapAround, InProcess, OneCPU, OneLock, TypeOK
<1>4. ASSUME NEW c \in Cpus, Advance(c) PROVE Good'
  BY <1>4, <1>t DEF Advance, InProcess, OneCPU, OneLock, TypeOK
<1>5. ASSUME NEW c \in Cpus, Yield(c) \/ Sleep(c) PROVE Good'
  <2>1. PICK st : GiveUp(c, st)
    BY <1>5 DEF Yield, Sleep
  <2>2. proc[c] = pos[c] /\ pos[c] \in Slots
    BY <2>1, <1>t DEF GiveUp, InProcess
  <2>3. InProcess'
    BY <2>1, <2>2, <1>t DEF GiveUp, InProcess, TypeOK
  <2>4. OneCPU'
    BY <2>1, <2>2, <1>t, <1>n DEF GiveUp, OneCPU, TypeOK
  <2>5. OneLock'
    BY <2>1, <2>2, <1>t DEF GiveUp, OneLock, Locked, TypeOK
  <2> QED  BY <2>3, <2>4, <2>5
<1>6. ASSUME NEW c \in Cpus,
             \/ CInitDone(c)
             \/ \E k \in Conts : CInitClaim(c, k) \/ CPause(c, k) \/ CResume(c, k)
      PROVE  Good'
  BY <1>6, <1>t, CallsKeepCpus DEF InProcess, OneCPU, OneLock
<1>7. ASSUME NEW p \in Slots, Wakeup(p) PROVE Good'
  BY <1>7, <1>t DEF Wakeup, InProcess, OneCPU, OneLock, TypeOK
<1> QED
  BY <1>1, <1>2, <1>3, <1>4, <1>5, <1>6, <1>7 DEF Next, SchedStep

\* What a CPU has run of a paused container.
LEMMA LateStep == IInv /\ [Next]_vars => NotYetLate'
<1> SUFFICES ASSUME IInv, [Next]_vars PROVE NotYetLate'
  OBVIOUS
<1>t. TypeOK /\ NotYetLate
  BY DEF IInv
<1>1. CASE UNCHANGED vars
  BY <1>1, <1>t DEF vars, NotYetLate
<1>2. ASSUME NEW c \in Cpus, Dispatch(c) PROVE NotYetLate'
  BY <1>2, <1>t DEF Dispatch, NotYetLate, TypeOK
<1>3. ASSUME NEW c \in Cpus, Skip(c) PROVE NotYetLate'
  BY <1>3, <1>t DEF Skip, NotYetLate
<1>4. ASSUME NEW c \in Cpus, Advance(c) \/ WrapAround(c) PROVE NotYetLate'
  <2>1. cstate[NextActive(cindex[c])] = "CRUNNING"
    BY <1>4, <1>t, NextActiveActive DEF Advance, WrapAround, Active, TypeOK
  <2> QED  BY <1>4, <1>t, <2>1 DEF Advance, WrapAround, NotYetLate, TypeOK
<1>5. ASSUME NEW c \in Cpus, Yield(c) \/ Sleep(c) PROVE NotYetLate'
  BY <1>5, <1>t DEF Yield, Sleep, GiveUp, NotYetLate, TypeOK
<1>6. ASSUME NEW c \in Cpus, CInitDone(c) PROVE NotYetLate'
  BY <1>6, <1>t DEF CInitDone, NotYetLate, TypeOK
<1>7. ASSUME NEW c \in Cpus, NEW k \in Conts, CPause(c, k) PROVE NotYetLate'
  BY <1>7, <1>t DEF CPause, NotYetLate, TypeOK
<1>8. ASSUME NEW c \in Cpus, NEW k \in Conts, CInitClaim(c, k) \/ CResume(c, k)
      PROVE  NotYetLate'
  BY <1>8, <1>t DEF CInitClaim, CResume, NotYetLate, TypeOK
<1>9. ASSUME NEW p \in Slots, Wakeup(p) PROVE NotYetLate'
  BY <1>9, <1>t DEF Wakeup, NotYetLate
<1> QED
  BY <1>1, <1>2, <1>3, <1>4, <1>5, <1>6, <1>7, <1>8, <1>9 DEF Next, SchedStep

\* The invariant holds for any numbers of CPUs, processes and containers.
THEOREM Invariant == Spec => []IInv
<1>1. IInv /\ [Next]_vars => IInv'
  BY TypeStep, CpuStep, LateStep DEF IInv
<1> QED  BY InitIInv, <1>1, PTL DEF Spec

\* scheduler() on any number of CPUs never runs a process twice at once, and
\* what it runs is RUNNING.
THEOREM OneCPUAlways == Spec => []OneCPU
<1>1. IInv => OneCPU
  BY DEF IInv
<1> QED  BY Invariant, <1>1, PTL

\* After cpause every CPU runs at most one more process of the container, on
\* any number of CPUs: scheduler() moves on after each process.
THEOREM PausedOnceAlways == Spec => PausedOnce
<1>1. IInv /\ [Next]_vars =>
        [\A c \in Cpus :
           Dispatch(c) /\ cstate[cindex[c]] = "CSUSPENDED" =>
             cindex[c] \notin late[c]]_vars
  BY DEF IInv, NotYetLate, Dispatch
<1> QED  BY Invariant, <1>1, PTL DEF Spec, PausedOnce
=============================================================================
