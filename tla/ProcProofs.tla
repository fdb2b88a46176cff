----------------------------- MODULE ProcProofs -----------------------------
(***************************************************************************)
(* For any number of process slots: fork, exit, wait and kill lose no      *)
(* exit, leave no orphan, and wait for each other's p->lock in a circle    *)
(* only through a parent slot that was reused.                             *)
(***************************************************************************)
EXTENDS Proc, TLAPS, WellFoundedInduction

\* The provers a leaf is tried with unless it names its own.
USE ZenonT(4), SMT, Z3T(20), ZenonT(40)

Places == {"user", "fork", "exit1", "exit2", "exit3", "exit4", "reparent",
           "zombie", "scan", "asleep", "kill"}
Exits == {"exit1", "exit2", "exit3", "exit4", "reparent", "zombie"}
Alive == {"RUNNABLE", "SLEEPING"}

TypeOK ==
  /\ state \in [Slots -> {"UNUSED", "SLEEPING", "RUNNABLE", "ZOMBIE"}]
  /\ parent \in [Slots -> Slots \cup {None}]
  /\ pid \in [Slots -> Nat]
  /\ killed \in [Slots -> BOOLEAN]
  /\ lock \in [Slots -> Slots \cup {None}]
  /\ nextpid \in Nat
  /\ pc \in [Slots -> Places]
  /\ other \in [Slots -> Slots \cup {None, NPROC + 1}]

\* Where the thread of a process may be, by the state of the process; init
\* never exits.
InPlace ==
  /\ \A s \in Slots :
       /\ state[s] = "SLEEPING" => pc[s] = "asleep"
       /\ state[s] = "ZOMBIE" <=> pc[s] = "zombie"
       /\ state[s] = "UNUSED" => pc[s] = "user"
  /\ state[initproc] # "UNUSED" /\ pc[initproc] \notin Exits

\* The locks a thread holds, where it is; no lock is held otherwise.
Holds(h, n) ==
  \/ pc[h] \in {"fork", "exit4", "reparent"} /\ other[h] = n
  \/ pc[h] \in {"reparent", "scan"} /\ h = n

Locked ==
  \A h, n \in Slots : lock[n] = h <=> Holds(h, n)

\* What other is, where it is used.
Aims(s) ==
  /\ pc[s] \in {"fork", "exit3", "exit4", "reparent", "kill"} => other[s] \in Slots
  /\ pc[s] = "scan" => other[s] # None
  /\ pc[s] = "fork" => state[other[s]] = "UNUSED"
  /\ pc[s] \in {"exit3", "exit4", "reparent"} =>
       other[s] # s /\ parent[s] \in {other[s], initproc}

Target == \A s \in Slots : Aims(s)

\* Who has a parent, and that the parent is alive.
Kin(n) ==
  /\ state[n] = "UNUSED" => parent[n] = None
  /\ n # initproc /\ state[n] # "UNUSED" => parent[n] # None
  /\ parent[n] # None => state[parent[n]] \in Alive

Family == parent[initproc] = None /\ \A n \in Slots : Kin(n)

\* A child is younger than its parent, and no two processes have one pid.
Ages ==
  /\ \A n \in Slots :
       /\ pid[n] < nextpid
       /\ state[n] # "UNUSED" => pid[n] > 0
       /\ parent[n] # None => pid[parent[n]] < pid[n]
       /\ pc[n] = "fork" => pid[n] < pid[other[n]]
  /\ pid[initproc] = 1
  /\ \A m, n \in Slots : pid[m] = pid[n] /\ pid[m] # 0 => m = n

\* The children wait() has passed in its scan are not zombies.
Scanned ==
  \A s \in Slots \ {initproc}, m \in Slots :
    pc[s] = "scan" /\ m < other[s] /\ parent[m] = s => state[m] # "ZOMBIE"

IInv == TypeOK /\ InPlace /\ Locked /\ Target /\ Family /\ Ages /\ Scanned /\ NoLostExit

-----------------------------------------------------------------------------
\* Slots and numbers.
LEMMA SlotFacts ==
  /\ initproc \in Slots /\ None \notin Slots
  /\ Slots \subseteq Nat
  /\ NPROC + 1 \notin Slots /\ NPROC + 1 # None
  /\ 1 \in Slots
  /\ \A n \in Slots : n + 1 \in Slots \cup {NPROC + 1}
BY ProcAssumption DEF Slots, initproc, None
\* A set of naturals that is not empty has a least member.
LEMMA Least ==
  ASSUME NEW T \in SUBSET Nat, T # {}
  PROVE  \E x \in T : \A y \in T : x <= y
<1>1. \E x \in T : \A y \in T : ~ (<<y, x>> \in OpToRel(<, Nat))
  BY NatLessThanWellFounded, WFMin, Zenon
<1>2. ASSUME NEW x \in Nat, NEW y \in Nat, y < x
      PROVE  <<y, x>> \in OpToRel(<, Nat)
  <2>1. <<y, x>> \in Nat \X Nat /\ <<y, x>>[1] < <<y, x>>[2]
    BY <1>2
  <2> QED  BY <2>1, Zenon DEF OpToRel
<1>3. \E x \in T : \A y \in T : ~ (y < x)
  <2>1. PICK x \in T : \A y \in T : ~ (<<y, x>> \in OpToRel(<, Nat))
    BY <1>1, Zenon
  <2>2. \A y \in T : ~ (y < x)
    BY <1>2, <2>1, Zenon
  <2> QED  BY <2>2
<1> QED  BY <1>3


\* The last step of exit: the parent that was remembered is woken, nobody
\* has the process as its parent.
LEMMA ZombieStep ==
  ASSUME IInv, NEW s \in Slots, ExitZombie(s)
  PROVE  /\ s # initproc /\ pc[s] = "reparent" /\ state[s] = "RUNNABLE"
         /\ other[s] \in Slots /\ other[s] # s
         /\ \A n \in Slots : parent[n] # s
         /\ state'[s] = "ZOMBIE" /\ pc'[s] = "zombie" /\ other'[s] = None
         /\ \A q \in Slots \ {s} :
              /\ pc'[q] = pc[q] /\ other'[q] = other[q]
              /\ \/ state'[q] = state[q]
                 \/ pc[q] = "asleep" /\ state[q] = "SLEEPING" /\ state'[q] = "RUNNABLE"
         /\ parent[s] = other[s] => state'[other[s]] # "SLEEPING"
         /\ lock[other[s]] = s /\ lock[s] = s
         /\ lock' = [lock EXCEPT ![other[s]] = None, ![s] = None]
         /\ state' \in [Slots -> {"UNUSED", "SLEEPING", "RUNNABLE", "ZOMBIE"}]
         /\ pc' \in [Slots -> Places]
         /\ other' \in [Slots -> Slots \cup {None, NPROC + 1}]
         /\ UNCHANGED <<parent, pid, killed, nextpid>>
<1> USE SlotFacts
<1>1. /\ s # initproc /\ pc[s] = "reparent" /\ state[s] = "RUNNABLE"
      /\ other[s] \in Slots /\ other[s] # s
  BY DEF IInv, Target, Aims, InPlace, Exits, ExitZombie, Runs
<1>2. lock[other[s]] = s /\ lock[s] = s
  BY <1>1, Zenon DEF IInv, Locked, Holds
<1>3. /\ pc'[s] = "zombie" /\ other'[s] = None
      /\ \A q \in Slots \ {s} : pc'[q] = pc[q] /\ other'[q] = other[q]
      /\ pc' \in [Slots -> Places]
      /\ other' \in [Slots -> Slots \cup {None, NPROC + 1}]
      /\ \A n \in Slots : parent[n] # s
      /\ lock' = [lock EXCEPT ![other[s]] = None, ![s] = None]
      /\ UNCHANGED <<parent, pid, killed, nextpid>>
  BY DEF IInv, TypeOK, ExitZombie, Places
<1>4. CASE pc[other[s]] = "asleep" /\ state[other[s]] = "SLEEPING"
  <2>1. state' = [state EXCEPT ![other[s]] = "RUNNABLE", ![s] = "ZOMBIE"]
    BY <1>4 DEF ExitZombie, Wakeup1
  <2>2. /\ state'[s] = "ZOMBIE" /\ state'[other[s]] = "RUNNABLE"
        /\ \A q \in Slots \ {s, other[s]} : state'[q] = state[q]
        /\ state' \in [Slots -> {"UNUSED", "SLEEPING", "RUNNABLE", "ZOMBIE"}]
    BY <1>1, <2>1 DEF IInv, TypeOK
  <2> QED  BY <1>1, <1>2, <1>3, <1>4, <2>2
<1>5. CASE ~(pc[other[s]] = "asleep" /\ state[other[s]] = "SLEEPING")
  <2>1. state' = [state EXCEPT ![s] = "ZOMBIE"]
    BY <1>5, Zenon DEF ExitZombie, Wakeup1
  <2>2. state[other[s]] # "SLEEPING"
    BY <1>1, <1>5, Zenon DEF IInv, InPlace
  <2>3. /\ state'[s] = "ZOMBIE"
        /\ \A q \in Slots \ {s} : state'[q] = state[q]
        /\ state' \in [Slots -> {"UNUSED", "SLEEPING", "RUNNABLE", "ZOMBIE"}]
    BY <2>1 DEF IInv, TypeOK
  <2> QED  BY <1>1, <1>2, <1>3, <2>2, <2>3, Zenon
<1> QED  BY <1>4, <1>5

\* The end of wait's scan: the process returns or goes to sleep.
LEMMA ScanEndStep ==
  ASSUME IInv, NEW s \in Slots, ScanEnd(s)
  PROVE  /\ pc[s] = "scan" /\ state[s] = "RUNNABLE" /\ other'[s] = None
         /\ \A q \in Slots \ {s} :
              state'[q] = state[q] /\ pc'[q] = pc[q] /\ other'[q] = other[q]
         /\ \/ pc'[s] = "user" /\ state'[s] = "RUNNABLE"
            \/ pc'[s] = "asleep" /\ state'[s] = "SLEEPING"
         /\ lock[s] = s /\ lock' = [lock EXCEPT ![s] = None]
         /\ state' \in [Slots -> {"UNUSED", "SLEEPING", "RUNNABLE", "ZOMBIE"}]
         /\ pc' \in [Slots -> Places]
         /\ other' \in [Slots -> Slots \cup {None, NPROC + 1}]
         /\ UNCHANGED <<parent, pid, killed, nextpid>>
<1>1. pc[s] = "scan" /\ state[s] = "RUNNABLE" /\ lock[s] = s
  BY DEF IInv, Locked, Holds, ScanEnd, Runs
<1>2. CASE ~havekids[s] \/ killed[s]
  BY <1>1, <1>2, SlotFacts DEF ScanEnd, IInv, TypeOK, Places
<1>3. CASE ~(~havekids[s] \/ killed[s])
  BY <1>1, <1>3, SlotFacts DEF ScanEnd, IInv, TypeOK, Places
<1> QED  BY <1>2, <1>3

\* The end of fork, done or undone: it works on a slot that is not in use.
LEMMA ForkTarget ==
  ASSUME IInv, NEW s \in Slots, Runs(s, "fork")
  PROVE  /\ other[s] \in Slots /\ other[s] # s /\ other[s] # initproc
         /\ state[other[s]] = "UNUSED" /\ parent[other[s]] = None
         /\ pc[other[s]] = "user" /\ lock[other[s]] = s
         /\ pid[s] < pid[other[s]]
         /\ \A n \in Slots : parent[n] # other[s]
         /\ \A n \in Slots \ {s} : pc[n] = "fork" => other[n] # other[s]
<1> USE SlotFacts
<1>1. /\ other[s] \in Slots /\ state[other[s]] = "UNUSED" /\ state[s] = "RUNNABLE"
      /\ pc[s] = "fork"
  BY DEF IInv, Target, Aims, Runs
<1>2. other[s] # s /\ other[s] # initproc /\ pc[other[s]] = "user"
  BY <1>1, Zenon DEF IInv, InPlace
<1>3. lock[other[s]] = s
  BY <1>1, Zenon DEF IInv, Locked, Holds
<1>6. \A n \in Slots \ {s} : pc[n] = "fork" => other[n] # other[s]
  <2> SUFFICES ASSUME NEW n \in Slots, pc[n] = "fork", other[n] = other[s] PROVE n = s
    OBVIOUS
  <2>1. Holds(n, other[s])
    BY DEF Holds
  <2> QED  BY <1>1, <1>3, <2>1, Zenon DEF IInv, Locked
<1>4. parent[other[s]] = None /\ \A n \in Slots : parent[n] # other[s]
  BY <1>1, Zenon DEF IInv, TypeOK, Family, Kin, Alive
<1>5. pid[s] < pid[other[s]]
  BY <1>1 DEF IInv, Ages
<1> QED  BY <1>1, <1>2, <1>3, <1>4, <1>5, <1>6

\* The order in which wait's scan passes the slots.
LEMMA ScanOrder ==
  /\ \A m \in Slots : ~(m < 1)
  /\ \A m, n, k \in Slots : m < n + 1 /\ m # n => m < k \/ m \in k..(n - 1)
  /\ \A n \in Slots : n \notin (NPROC + 1)..NPROC
  /\ \A m \in Slots, k \in Slots \cup {NPROC + 1} : m < k \/ m \in k..NPROC
BY ProcAssumption DEF Slots


\* Types.
LEMMA TypeOKStep ==
  ASSUME IInv, [Next]_vars
  PROVE  TypeOK'
<1> USE SlotFacts DEF TypeOK, Places, Exits, Alive, locals
<1>1. ASSUME NEW s \in Slots, NEW n \in Slots, AllocProc(s, n) PROVE TypeOK'
  BY <1>1 DEF IInv, AllocProc
<1>2. ASSUME NEW s \in Slots, NEW n \in Slots, KillFind(s, n) PROVE TypeOK'
  BY <1>2 DEF IInv, KillFind
<1>3. ASSUME NEW s \in Slots, NEW n \in Slots, ReapFault(s, n) PROVE TypeOK'
  BY <1>3 DEF IInv, ReapFault
<1>4. ASSUME NEW s \in Slots, AllocNoFrame(s) PROVE TypeOK'
  BY <1>4, Zenon DEF IInv, AllocNoFrame
<1>5. ASSUME NEW s \in Slots, ForkFail(s) PROVE TypeOK'
  BY <1>5, Zenon DEF IInv, ForkFail, FreeProc
<1>6. ASSUME NEW s \in Slots, ForkDone(s) PROVE TypeOK'
  BY <1>6, Zenon DEF IInv, ForkDone
<1>7. ASSUME NEW s \in Slots, Exit(s) PROVE TypeOK'
  BY <1>7 DEF IInv, Exit
<1>8. ASSUME NEW s \in Slots, ExitWakeInit(s) PROVE TypeOK'
  BY <1>8 DEF IInv, ExitWakeInit, Wakeup1
<1>9. ASSUME NEW s \in Slots, ExitCopyParent(s) PROVE TypeOK'
  BY <1>9 DEF IInv, ExitCopyParent
<1>10. ASSUME NEW s \in Slots, ExitLockParent(s) PROVE TypeOK'
  BY <1>10, Zenon DEF IInv, ExitLockParent
<1>11. ASSUME NEW s \in Slots, ExitLockSelf(s) PROVE TypeOK'
  BY <1>11 DEF IInv, ExitLockSelf
<1>12. ASSUME NEW s \in Slots, NEW n \in Slots, Reparent(s, n) PROVE TypeOK'
  BY <1>12 DEF IInv, Reparent
<1>13. ASSUME NEW s \in Slots, ExitZombie(s) PROVE TypeOK'
  BY <1>13, ZombieStep DEF IInv
<1>14. ASSUME NEW s \in Slots, Wait(s) PROVE TypeOK'
  BY <1>14 DEF IInv, Wait
<1>15. ASSUME NEW s \in Slots, NEW n \in Slots, ScanChild(s, n) PROVE TypeOK'
  BY <1>15 DEF IInv, ScanChild
<1>16. ASSUME NEW s \in Slots, NEW n \in Slots, Reap(s, n) PROVE TypeOK'
  BY <1>16 DEF IInv, Reap, FreeProc
<1>17. ASSUME NEW s \in Slots, ScanEnd(s) PROVE TypeOK'
  BY <1>17, ScanEndStep DEF IInv
<1>18. ASSUME NEW s \in Slots, WaitResume(s) PROVE TypeOK'
  BY <1>18 DEF IInv, WaitResume
<1>19. ASSUME NEW s \in Slots, Kill(s) PROVE TypeOK'
  BY <1>19, Zenon DEF IInv, Kill
<1>20. CASE UNCHANGED vars
  BY <1>20 DEF IInv, vars, TypeOK
<1> QED
  BY <1>1, <1>2, <1>3, <1>4, <1>5, <1>6, <1>7, <1>8, <1>9, <1>10, <1>11, <1>12,
     <1>13, <1>14, <1>15, <1>16, <1>17, <1>18, <1>19, <1>20
  DEF Next, ExitStep, WaitStep, ForkStep

\* A thread is where the state of its process allows.
LEMMA InPlaceStep ==
  ASSUME IInv, TypeOK', [Next]_vars
  PROVE  InPlace'
<1> USE SlotFacts DEF TypeOK, Places, Exits, Alive, locals
<1>1. ASSUME NEW s \in Slots, NEW n \in Slots, AllocProc(s, n) PROVE InPlace'
  BY <1>1 DEF IInv, InPlace, AllocProc, CanCall, Runs
<1>2. ASSUME NEW s \in Slots, NEW n \in Slots, KillFind(s, n) PROVE InPlace'
  BY <1>2 DEF IInv, InPlace, KillFind, CanCall, Runs
<1>3. ASSUME NEW s \in Slots, NEW n \in Slots, ReapFault(s, n) PROVE InPlace'
  BY <1>3 DEF IInv, InPlace, ReapFault, Runs
<1>4. ASSUME NEW s \in Slots, AllocNoFrame(s) PROVE InPlace'
  BY <1>4 DEF IInv, InPlace, AllocNoFrame, Runs
<1>5. ASSUME NEW s \in Slots, ForkFail(s) PROVE InPlace'
  BY <1>5 DEF IInv, InPlace, Target, Aims, ForkFail, Runs, FreeProc
<1>6. ASSUME NEW s \in Slots, ForkDone(s) PROVE InPlace'
  BY <1>6 DEF IInv, InPlace, ForkDone, Runs
<1>7. ASSUME NEW s \in Slots, Exit(s) PROVE InPlace'
  BY <1>7 DEF IInv, InPlace, Exit, Runs
<1>8. ASSUME NEW s \in Slots, ExitWakeInit(s) PROVE InPlace'
  BY <1>8 DEF IInv, InPlace, ExitWakeInit, Runs, Wakeup1
<1>9. ASSUME NEW s \in Slots, ExitCopyParent(s) PROVE InPlace'
  BY <1>9 DEF IInv, InPlace, ExitCopyParent, Runs
<1>10. ASSUME NEW s \in Slots, ExitLockParent(s) PROVE InPlace'
  BY <1>10 DEF IInv, InPlace, ExitLockParent, Runs
<1>11. ASSUME NEW s \in Slots, ExitLockSelf(s) PROVE InPlace'
  BY <1>11 DEF IInv, InPlace, ExitLockSelf, Runs
<1>12. ASSUME NEW s \in Slots, NEW n \in Slots, Reparent(s, n) PROVE InPlace'
  BY <1>12 DEF IInv, InPlace, Reparent
<1>13. ASSUME NEW s \in Slots, ExitZombie(s) PROVE InPlace'
  BY <1>13, ZombieStep DEF IInv, InPlace
<1>14. ASSUME NEW s \in Slots, Wait(s) PROVE InPlace'
  BY <1>14 DEF IInv, InPlace, Wait, CanCall, Runs
<1>15. ASSUME NEW s \in Slots, NEW n \in Slots, ScanChild(s, n) PROVE InPlace'
  BY <1>15 DEF IInv, InPlace, ScanChild
<1>16. ASSUME NEW s \in Slots, NEW n \in Slots, Reap(s, n) PROVE InPlace'
  BY <1>16 DEF IInv, InPlace, Reap, Runs, FreeProc
<1>17. ASSUME NEW s \in Slots, ScanEnd(s) PROVE InPlace'
  BY <1>17, ScanEndStep DEF IInv, InPlace
<1>18. ASSUME NEW s \in Slots, WaitResume(s) PROVE InPlace'
  BY <1>18 DEF IInv, InPlace, WaitResume, Runs
<1>19. ASSUME NEW s \in Slots, Kill(s) PROVE InPlace'
  BY <1>19 DEF IInv, InPlace, Kill, Runs
<1>20. CASE UNCHANGED vars
  BY <1>20 DEF IInv, vars, InPlace
<1> QED
  BY <1>1, <1>2, <1>3, <1>4, <1>5, <1>6, <1>7, <1>8, <1>9, <1>10, <1>11, <1>12,
     <1>13, <1>14, <1>15, <1>16, <1>17, <1>18, <1>19, <1>20
  DEF Next, ExitStep, WaitStep, ForkStep

\* A lock is held exactly where the code holds it.
LEMMA LockedStep ==
  ASSUME IInv, TypeOK', [Next]_vars
  PROVE  Locked'
<1> USE SlotFacts DEF TypeOK, Places, Exits, Alive, locals
<1>1. ASSUME NEW s \in Slots, NEW n \in Slots, AllocProc(s, n) PROVE Locked'
  BY <1>1 DEF IInv, Locked, Holds, AllocProc, CanCall, Runs, Free
<1>2. ASSUME NEW s \in Slots, NEW n \in Slots, KillFind(s, n) PROVE Locked'
  BY <1>2 DEF IInv, Locked, Holds, KillFind, CanCall, Runs
<1>3. ASSUME NEW s \in Slots, NEW n \in Slots, ReapFault(s, n) PROVE Locked'
  BY <1>3 DEF IInv, Locked, Holds, ReapFault, Runs
<1>4. ASSUME NEW s \in Slots, AllocNoFrame(s) PROVE Locked'
  BY <1>4 DEF IInv, Locked, Holds, AllocNoFrame, Runs
<1>5. ASSUME NEW s \in Slots, ForkFail(s) PROVE Locked'
  BY <1>5 DEF IInv, Locked, Holds, ForkFail, Runs
<1>6. ASSUME NEW s \in Slots, ForkDone(s) PROVE Locked'
  BY <1>6 DEF IInv, Locked, Holds, Target, Aims, InPlace, ForkDone, Runs
<1>7. ASSUME NEW s \in Slots, Exit(s) PROVE Locked'
  BY <1>7 DEF IInv, Locked, Holds, Exit, Runs
<1>8. ASSUME NEW s \in Slots, ExitWakeInit(s) PROVE Locked'
  BY <1>8 DEF IInv, Locked, Holds, ExitWakeInit, Runs, Wakeup1
<1>9. ASSUME NEW s \in Slots, ExitCopyParent(s) PROVE Locked'
  BY <1>9 DEF IInv, Locked, Holds, ExitCopyParent, Runs
<1>10. ASSUME NEW s \in Slots, ExitLockParent(s) PROVE Locked'
  BY <1>10 DEF IInv, Locked, Holds, ExitLockParent, Runs, Free
<1>11. ASSUME NEW s \in Slots, ExitLockSelf(s) PROVE Locked'
  BY <1>11 DEF IInv, Locked, Holds, ExitLockSelf, Runs, Free
<1>12. ASSUME NEW s \in Slots, NEW n \in Slots, Reparent(s, n) PROVE Locked'
  BY <1>12 DEF IInv, Locked, Holds, Reparent
<1>13. ASSUME NEW s \in Slots, ExitZombie(s) PROVE Locked'
  BY <1>13, ZombieStep DEF IInv, Locked, Holds
<1>14. ASSUME NEW s \in Slots, Wait(s) PROVE Locked'
  BY <1>14 DEF IInv, Locked, Holds, Wait, CanCall, Runs, Free
<1>15. ASSUME NEW s \in Slots, NEW n \in Slots, ScanChild(s, n) PROVE Locked'
  BY <1>15 DEF IInv, Locked, Holds, ScanChild, Runs
<1>16. ASSUME NEW s \in Slots, NEW n \in Slots, Reap(s, n) PROVE Locked'
  BY <1>16 DEF IInv, Locked, Holds, InPlace, Reap, Runs
<1>17. ASSUME NEW s \in Slots, ScanEnd(s) PROVE Locked'
  BY <1>17, ScanEndStep DEF IInv, Locked, Holds
<1>18. ASSUME NEW s \in Slots, WaitResume(s) PROVE Locked'
  BY <1>18 DEF IInv, Locked, Holds, WaitResume, Runs, Free
<1>19. ASSUME NEW s \in Slots, Kill(s) PROVE Locked'
  BY <1>19 DEF IInv, Locked, Holds, Kill, Runs
<1>20. CASE UNCHANGED vars
  BY <1>20 DEF IInv, vars, Locked, Holds
<1> QED
  BY <1>1, <1>2, <1>3, <1>4, <1>5, <1>6, <1>7, <1>8, <1>9, <1>10, <1>11, <1>12,
     <1>13, <1>14, <1>15, <1>16, <1>17, <1>18, <1>19, <1>20
  DEF Next, ExitStep, WaitStep, ForkStep

\* The slot a thread works on stays what it was chosen as.
LEMMA TargetStep ==
  ASSUME IInv, TypeOK', [Next]_vars
  PROVE  Target'
<1> USE SlotFacts DEF TypeOK, Places, Exits, Alive, locals
<1>1. ASSUME NEW s \in Slots, NEW n \in Slots, AllocProc(s, n) PROVE Target'
  BY <1>1 DEF IInv, Target, Aims, AllocProc
<1>2. ASSUME NEW s \in Slots, NEW n \in Slots, KillFind(s, n) PROVE Target'
  BY <1>2 DEF IInv, Target, Aims, KillFind
<1>3. ASSUME NEW s \in Slots, NEW n \in Slots, ReapFault(s, n) PROVE Target'
  BY <1>3 DEF IInv, Target, Aims, ReapFault
<1>4. ASSUME NEW s \in Slots, AllocNoFrame(s) PROVE Target'
  BY <1>4 DEF IInv, Target, Aims, AllocNoFrame
<1>5. ASSUME NEW s \in Slots, ForkFail(s) PROVE Target'
  BY <1>5 DEF IInv, Target, Aims, InPlace, ForkFail, Runs, FreeProc
<1>6. ASSUME NEW s \in Slots, ForkDone(s) PROVE Target'
  BY <1>6, ForkTarget DEF IInv, Target, Aims, ForkDone
<1>7. ASSUME NEW s \in Slots, Exit(s) PROVE Target'
  BY <1>7 DEF IInv, Target, Aims, Exit
<1>8. ASSUME NEW s \in Slots, ExitWakeInit(s) PROVE Target'
  BY <1>8 DEF IInv, Target, Aims, ExitWakeInit, Wakeup1
<1>9. ASSUME NEW s \in Slots, ExitCopyParent(s) PROVE Target'
  BY <1>9 DEF IInv, Target, Aims, InPlace, Family, Kin, Ages, ExitCopyParent, Runs
<1>10. ASSUME NEW s \in Slots, ExitLockParent(s) PROVE Target'
  BY <1>10 DEF IInv, Target, Aims, ExitLockParent, Runs
<1>11. ASSUME NEW s \in Slots, ExitLockSelf(s) PROVE Target'
  BY <1>11 DEF IInv, Target, Aims, ExitLockSelf, Runs
<1>12. ASSUME NEW s \in Slots, NEW n \in Slots, Reparent(s, n) PROVE Target'
  BY <1>12 DEF IInv, Target, Aims, Reparent
<1>13. ASSUME NEW s \in Slots, ExitZombie(s) PROVE Target'
  <2>1. /\ \A q \in Slots \ {s} : pc'[q] = pc[q] /\ other'[q] = other[q]
        /\ pc'[s] = "zombie"
        /\ parent' = parent
        /\ \A q \in Slots : state[q] = "UNUSED" => state'[q] = "UNUSED"
    BY <1>13, ZombieStep
  <2>2. ASSUME NEW q \in Slots PROVE Aims(q)'
    <3>1. CASE q = s
      BY <2>1, <3>1 DEF Aims
    <3>2. CASE q # s
      <4>1. Aims(q) /\ pc'[q] = pc[q] /\ other'[q] = other[q]
        BY <2>1, <3>2 DEF IInv, Target
      <4> QED  BY <2>1, <4>1, Zenon DEF Aims
    <3> QED  BY <3>1, <3>2
  <2> QED  BY <2>2 DEF Target
<1>14. ASSUME NEW s \in Slots, Wait(s) PROVE Target'
  BY <1>14 DEF IInv, Target, Aims, Wait
<1>15. ASSUME NEW s \in Slots, NEW n \in Slots, ScanChild(s, n) PROVE Target'
  BY <1>15 DEF IInv, Target, Aims, ScanChild, Runs
<1>16. ASSUME NEW s \in Slots, NEW n \in Slots, Reap(s, n) PROVE Target'
  BY <1>16 DEF IInv, Target, Aims, Reap, FreeProc
<1>17. ASSUME NEW s \in Slots, ScanEnd(s) PROVE Target'
  <2>1. /\ \A q \in Slots \ {s} : pc'[q] = pc[q] /\ other'[q] = other[q]
        /\ pc'[s] \in {"user", "asleep"}
        /\ parent' = parent
        /\ \A q \in Slots : state[q] = "UNUSED" => state'[q] = "UNUSED"
    BY <1>17, ScanEndStep
  <2>2. ASSUME NEW q \in Slots PROVE Aims(q)'
    <3>1. CASE q = s
      BY <2>1, <3>1 DEF Aims
    <3>2. CASE q # s
      <4>1. Aims(q) /\ pc'[q] = pc[q] /\ other'[q] = other[q]
        BY <2>1, <3>2 DEF IInv, Target
      <4> QED  BY <2>1, <4>1, Zenon DEF Aims
    <3> QED  BY <3>1, <3>2
  <2> QED  BY <2>2 DEF Target
<1>18. ASSUME NEW s \in Slots, WaitResume(s) PROVE Target'
  BY <1>18 DEF IInv, Target, Aims, WaitResume
<1>19. ASSUME NEW s \in Slots, Kill(s) PROVE Target'
  BY <1>19 DEF IInv, Target, Aims, Kill
<1>20. CASE UNCHANGED vars
  BY <1>20 DEF IInv, vars, Target, Aims
<1> QED
  BY <1>1, <1>2, <1>3, <1>4, <1>5, <1>6, <1>7, <1>8, <1>9, <1>10, <1>11, <1>12,
     <1>13, <1>14, <1>15, <1>16, <1>17, <1>18, <1>19, <1>20
  DEF Next, ExitStep, WaitStep, ForkStep

\* Every process has a parent that is alive.
LEMMA FamilyStep ==
  ASSUME IInv, TypeOK', [Next]_vars
  PROVE  Family'
<1> USE SlotFacts DEF TypeOK, Places, Exits, Alive, locals
<1>1. ASSUME NEW s \in Slots, NEW n \in Slots, AllocProc(s, n) PROVE Family'
  BY <1>1 DEF IInv, Family, Kin, AllocProc
<1>2. ASSUME NEW s \in Slots, NEW n \in Slots, KillFind(s, n) PROVE Family'
  BY <1>2 DEF IInv, Family, Kin, KillFind
<1>3. ASSUME NEW s \in Slots, NEW n \in Slots, ReapFault(s, n) PROVE Family'
  BY <1>3 DEF IInv, Family, Kin, ReapFault
<1>4. ASSUME NEW s \in Slots, AllocNoFrame(s) PROVE Family'
  BY <1>4 DEF IInv, Family, Kin, AllocNoFrame
<1>5. ASSUME NEW s \in Slots, ForkFail(s) PROVE Family'
  BY <1>5 DEF IInv, Family, Kin, Target, Aims, ForkFail, Runs, FreeProc
<1>6. ASSUME NEW s \in Slots, ForkDone(s) PROVE Family'
  BY <1>6 DEF IInv, Family, Kin, InPlace, Target, Aims, ForkDone, Runs
<1>7. ASSUME NEW s \in Slots, Exit(s) PROVE Family'
  BY <1>7 DEF IInv, Family, Kin, Exit
<1>8. ASSUME NEW s \in Slots, ExitWakeInit(s) PROVE Family'
  BY <1>8 DEF IInv, Family, Kin, ExitWakeInit, Wakeup1
<1>9. ASSUME NEW s \in Slots, ExitCopyParent(s) PROVE Family'
  BY <1>9 DEF IInv, Family, Kin, ExitCopyParent
<1>10. ASSUME NEW s \in Slots, ExitLockParent(s) PROVE Family'
  BY <1>10 DEF IInv, Family, Kin, ExitLockParent
<1>11. ASSUME NEW s \in Slots, ExitLockSelf(s) PROVE Family'
  BY <1>11 DEF IInv, Family, Kin, ExitLockSelf
<1>12. ASSUME NEW s \in Slots, NEW n \in Slots, Reparent(s, n) PROVE Family'
  BY <1>12 DEF IInv, Family, Kin, InPlace, Reparent
<1>13. ASSUME NEW s \in Slots, ExitZombie(s) PROVE Family'
  <2>1. \A q \in Slots \ {s} :
          state'[q] = state[q] \/ (state[q] = "SLEEPING" /\ state'[q] = "RUNNABLE")
    BY <1>13, ZombieStep
  <2>2. /\ parent' = parent /\ \A n \in Slots : parent[n] # s
        /\ s # initproc /\ state[s] = "RUNNABLE" /\ state'[s] = "ZOMBIE"
    BY <1>13, ZombieStep
  <2>3. ASSUME NEW n \in Slots PROVE Kin(n)'
    <3>1. Kin(n) /\ parent[n] \in Slots \cup {None}
      BY DEF IInv, Family
    <3>2. CASE parent[n] = None
      BY <2>1, <2>2, <3>1, <3>2 DEF Kin
    <3>3. CASE parent[n] # None
      BY <2>1, <2>2, <3>1, <3>3, Zenon DEF Kin
    <3> QED  BY <3>2, <3>3
  <2> QED  BY <2>2, <2>3 DEF IInv, Family
<1>14. ASSUME NEW s \in Slots, Wait(s) PROVE Family'
  BY <1>14 DEF IInv, Family, Kin, Wait
<1>15. ASSUME NEW s \in Slots, NEW n \in Slots, ScanChild(s, n) PROVE Family'
  BY <1>15 DEF IInv, Family, Kin, ScanChild
<1>16. ASSUME NEW s \in Slots, NEW n \in Slots, Reap(s, n) PROVE Family'
  BY <1>16 DEF IInv, Family, Kin, Reap, FreeProc
<1>17. ASSUME NEW s \in Slots, ScanEnd(s) PROVE Family'
  <2>1. \A q \in Slots :
          state'[q] = state[q] \/ (state[q] = "RUNNABLE" /\ state'[q] = "SLEEPING")
    BY <1>17, ScanEndStep
  <2>2. parent' = parent
    BY <1>17, ScanEndStep
  <2>3. ASSUME NEW n \in Slots PROVE Kin(n)'
    <3>1. Kin(n) /\ parent[n] \in Slots \cup {None}
      BY DEF IInv, Family
    <3>2. CASE parent[n] = None
      BY <2>1, <2>2, <3>1, <3>2 DEF Kin
    <3>3. CASE parent[n] # None
      BY <2>1, <2>2, <3>1, <3>3, Zenon DEF Kin
    <3> QED  BY <3>2, <3>3
  <2> QED  BY <2>2, <2>3 DEF IInv, Family
<1>18. ASSUME NEW s \in Slots, WaitResume(s) PROVE Family'
  BY <1>18 DEF IInv, Family, Kin, WaitResume
<1>19. ASSUME NEW s \in Slots, Kill(s) PROVE Family'
  BY <1>19 DEF IInv, Family, Kin, Kill
<1>20. CASE UNCHANGED vars
  BY <1>20 DEF IInv, vars, Family, Kin
<1> QED
  BY <1>1, <1>2, <1>3, <1>4, <1>5, <1>6, <1>7, <1>8, <1>9, <1>10, <1>11, <1>12,
     <1>13, <1>14, <1>15, <1>16, <1>17, <1>18, <1>19, <1>20
  DEF Next, ExitStep, WaitStep, ForkStep

\* Children are younger than their parents.
LEMMA AgesStep ==
  ASSUME IInv, TypeOK', [Next]_vars
  PROVE  Ages'
<1> USE SlotFacts DEF TypeOK, Places, Exits, Alive, locals
<1>1. ASSUME NEW s \in Slots, NEW n \in Slots, AllocProc(s, n) PROVE Ages'
  BY <1>1 DEF IInv, Ages, InPlace, Family, Kin, AllocProc, CanCall, Runs
<1>2. ASSUME NEW s \in Slots, NEW n \in Slots, KillFind(s, n) PROVE Ages'
  BY <1>2 DEF IInv, Ages, KillFind
<1>3. ASSUME NEW s \in Slots, NEW n \in Slots, ReapFault(s, n) PROVE Ages'
  BY <1>3 DEF IInv, Ages, ReapFault
<1>4. ASSUME NEW s \in Slots, AllocNoFrame(s) PROVE Ages'
  BY <1>4 DEF IInv, Ages, AllocNoFrame
<1>5. ASSUME NEW s \in Slots, ForkFail(s) PROVE Ages'
  BY <1>5, ForkTarget DEF IInv, Ages, ForkFail, FreeProc
<1>6. ASSUME NEW s \in Slots, ForkDone(s) PROVE Ages'
  BY <1>6 DEF IInv, Ages, ForkDone, Runs
<1>7. ASSUME NEW s \in Slots, Exit(s) PROVE Ages'
  BY <1>7 DEF IInv, Ages, Exit
<1>8. ASSUME NEW s \in Slots, ExitWakeInit(s) PROVE Ages'
  BY <1>8 DEF IInv, Ages, ExitWakeInit, Wakeup1
<1>9. ASSUME NEW s \in Slots, ExitCopyParent(s) PROVE Ages'
  BY <1>9 DEF IInv, Ages, ExitCopyParent
<1>10. ASSUME NEW s \in Slots, ExitLockParent(s) PROVE Ages'
  BY <1>10 DEF IInv, Ages, ExitLockParent
<1>11. ASSUME NEW s \in Slots, ExitLockSelf(s) PROVE Ages'
  BY <1>11 DEF IInv, Ages, ExitLockSelf
<1>12. ASSUME NEW s \in Slots, NEW n \in Slots, Reparent(s, n) PROVE Ages'
  BY <1>12 DEF IInv, Ages, Reparent, Runs
<1>13. ASSUME NEW s \in Slots, ExitZombie(s) PROVE Ages'
  BY <1>13, ZombieStep DEF IInv, Ages
<1>14. ASSUME NEW s \in Slots, Wait(s) PROVE Ages'
  BY <1>14 DEF IInv, Ages, Wait
<1>15. ASSUME NEW s \in Slots, NEW n \in Slots, ScanChild(s, n) PROVE Ages'
  BY <1>15 DEF IInv, Ages, ScanChild, Runs
<1>16. ASSUME NEW s \in Slots, NEW n \in Slots, Reap(s, n) PROVE Ages'
  BY <1>16 DEF IInv, Ages, Target, Aims, Reap, Runs, NextChild, FreeProc
<1>17. ASSUME NEW s \in Slots, ScanEnd(s) PROVE Ages'
  BY <1>17, ScanEndStep DEF IInv, Ages
<1>18. ASSUME NEW s \in Slots, WaitResume(s) PROVE Ages'
  BY <1>18 DEF IInv, Ages, WaitResume
<1>19. ASSUME NEW s \in Slots, Kill(s) PROVE Ages'
  BY <1>19 DEF IInv, Ages, Kill
<1>20. CASE UNCHANGED vars
  BY <1>20 DEF IInv, vars, Ages
<1> QED
  BY <1>1, <1>2, <1>3, <1>4, <1>5, <1>6, <1>7, <1>8, <1>9, <1>10, <1>11, <1>12,
     <1>13, <1>14, <1>15, <1>16, <1>17, <1>18, <1>19, <1>20
  DEF Next, ExitStep, WaitStep, ForkStep

\* A child that the scan of wait has passed does not become a zombie.
LEMMA ScannedStep ==
  ASSUME IInv, TypeOK', [Next]_vars
  PROVE  Scanned'
<1> USE SlotFacts DEF TypeOK, Places, Exits, Alive, locals
<1>1. ASSUME NEW s \in Slots, NEW n \in Slots, AllocProc(s, n) PROVE Scanned'
  BY <1>1 DEF IInv, Scanned, AllocProc
<1>2. ASSUME NEW s \in Slots, NEW n \in Slots, KillFind(s, n) PROVE Scanned'
  BY <1>2 DEF IInv, Scanned, KillFind
<1>3. ASSUME NEW s \in Slots, NEW n \in Slots, ReapFault(s, n) PROVE Scanned'
  BY <1>3 DEF IInv, Scanned, ReapFault
<1>4. ASSUME NEW s \in Slots, AllocNoFrame(s) PROVE Scanned'
  BY <1>4 DEF IInv, Scanned, AllocNoFrame
<1>5. ASSUME NEW s \in Slots, ForkFail(s) PROVE Scanned'
  BY <1>5 DEF IInv, Scanned, ForkFail, FreeProc
<1>6. ASSUME NEW s \in Slots, ForkDone(s) PROVE Scanned'
  BY <1>6 DEF IInv, Scanned, ForkDone
<1>7. ASSUME NEW s \in Slots, Exit(s) PROVE Scanned'
  BY <1>7 DEF IInv, Scanned, Exit
<1>8. ASSUME NEW s \in Slots, ExitWakeInit(s) PROVE Scanned'
  BY <1>8 DEF IInv, Scanned, ExitWakeInit, Wakeup1
<1>9. ASSUME NEW s \in Slots, ExitCopyParent(s) PROVE Scanned'
  BY <1>9 DEF IInv, Scanned, ExitCopyParent
<1>10. ASSUME NEW s \in Slots, ExitLockParent(s) PROVE Scanned'
  BY <1>10 DEF IInv, Scanned, ExitLockParent
<1>11. ASSUME NEW s \in Slots, ExitLockSelf(s) PROVE Scanned'
  BY <1>11 DEF IInv, Scanned, ExitLockSelf
<1>12. ASSUME NEW s \in Slots, NEW n \in Slots, Reparent(s, n) PROVE Scanned'
  BY <1>12 DEF IInv, Scanned, Reparent
<1>13. ASSUME NEW s \in Slots, ExitZombie(s) PROVE Scanned'
  <2> SUFFICES ASSUME NEW q \in Slots \ {initproc}, NEW n \in Slots,
                      pc'[q] = "scan", n < other'[q], parent'[n] = q
               PROVE  state'[n] # "ZOMBIE"
    BY DEF Scanned
  <2>1. q # s /\ pc[q] = "scan" /\ n < other[q] /\ parent[n] = q
    BY <1>13, ZombieStep
  <2>2. CASE n = s
    <3>1. q = other[s] /\ lock[other[s]] = s
      BY <1>13, <2>1, <2>2, ZombieStep DEF IInv, Target, Aims
    <3>2. lock[q] = q
      BY <2>1 DEF IInv, Locked, Holds
    <3> QED  BY <2>1, <3>1, <3>2
  <2>3. CASE n # s
    <3>1. state[n] # "ZOMBIE"
      BY <2>1 DEF IInv, Scanned
    <3> QED  BY <1>13, <2>3, <3>1, ZombieStep
  <2> QED  BY <2>2, <2>3
<1>14. ASSUME NEW s \in Slots, Wait(s) PROVE Scanned'
  BY <1>14, ScanOrder DEF IInv, Scanned, Wait
<1>15. ASSUME NEW s \in Slots, NEW n \in Slots, ScanChild(s, n) PROVE Scanned'
  <2>1. /\ other[s] \in Slots /\ other'[s] = n + 1 /\ pc[s] = "scan"
        /\ \A q \in Slots \ {s} : other'[q] = other[q]
        /\ UNCHANGED <<pc, parent, state>>
    <3>1. pc[s] = "scan" /\ other[s] \in Slots \cup {NPROC + 1} /\ n \in other[s]..NPROC
      BY <1>15 DEF IInv, Target, Aims, ScanChild, Runs, NextChild
    <3>2. other[s] # NPROC + 1
      BY <3>1, ScanOrder
    <3> QED  BY <1>15, <3>1, <3>2 DEF ScanChild
  <2>2. \A m \in Slots : m < n + 1 /\ parent[m] = s => m < other[s] \/ m = n
    BY <1>15, <2>1, ScanOrder, Zenon DEF ScanChild, NextChild
  <2>3. state[n] # "ZOMBIE"
    BY <1>15 DEF ScanChild
  <2> QED  BY <2>1, <2>2, <2>3 DEF IInv, Scanned
<1>16. ASSUME NEW s \in Slots, NEW n \in Slots, Reap(s, n) PROVE Scanned'
  BY <1>16 DEF IInv, Scanned, Reap, FreeProc
<1>17. ASSUME NEW s \in Slots, ScanEnd(s) PROVE Scanned'
  BY <1>17, ScanEndStep DEF IInv, Scanned
<1>18. ASSUME NEW s \in Slots, WaitResume(s) PROVE Scanned'
  BY <1>18, ScanOrder DEF IInv, Scanned, WaitResume
<1>19. ASSUME NEW s \in Slots, Kill(s) PROVE Scanned'
  BY <1>19 DEF IInv, Scanned, Kill
<1>20. CASE UNCHANGED vars
  BY <1>20 DEF IInv, vars, Scanned
<1> QED
  BY <1>1, <1>2, <1>3, <1>4, <1>5, <1>6, <1>7, <1>8, <1>9, <1>10, <1>11, <1>12,
     <1>13, <1>14, <1>15, <1>16, <1>17, <1>18, <1>19, <1>20
  DEF Next, ExitStep, WaitStep, ForkStep

\* No process goes to sleep in wait over a zombie.
LEMMA NoLostExitStep ==
  ASSUME IInv, TypeOK', [Next]_vars
  PROVE  NoLostExit'
<1> USE SlotFacts DEF TypeOK, Places, Exits, Alive, locals
<1>1. ASSUME NEW s \in Slots, NEW n \in Slots, AllocProc(s, n) PROVE NoLostExit'
  BY <1>1 DEF IInv, NoLostExit, AllocProc
<1>2. ASSUME NEW s \in Slots, NEW n \in Slots, KillFind(s, n) PROVE NoLostExit'
  BY <1>2 DEF IInv, NoLostExit, KillFind
<1>3. ASSUME NEW s \in Slots, NEW n \in Slots, ReapFault(s, n) PROVE NoLostExit'
  BY <1>3 DEF IInv, NoLostExit, ReapFault
<1>4. ASSUME NEW s \in Slots, AllocNoFrame(s) PROVE NoLostExit'
  BY <1>4 DEF IInv, NoLostExit, AllocNoFrame
<1>5. ASSUME NEW s \in Slots, ForkFail(s) PROVE NoLostExit'
  BY <1>5 DEF IInv, NoLostExit, ForkFail, FreeProc
<1>6. ASSUME NEW s \in Slots, ForkDone(s) PROVE NoLostExit'
  BY <1>6 DEF IInv, NoLostExit, ForkDone
<1>7. ASSUME NEW s \in Slots, Exit(s) PROVE NoLostExit'
  BY <1>7 DEF IInv, NoLostExit, Exit
<1>8. ASSUME NEW s \in Slots, ExitWakeInit(s) PROVE NoLostExit'
  BY <1>8 DEF IInv, NoLostExit, ExitWakeInit, Wakeup1
<1>9. ASSUME NEW s \in Slots, ExitCopyParent(s) PROVE NoLostExit'
  BY <1>9 DEF IInv, NoLostExit, ExitCopyParent
<1>10. ASSUME NEW s \in Slots, ExitLockParent(s) PROVE NoLostExit'
  BY <1>10 DEF IInv, NoLostExit, ExitLockParent
<1>11. ASSUME NEW s \in Slots, ExitLockSelf(s) PROVE NoLostExit'
  BY <1>11 DEF IInv, NoLostExit, ExitLockSelf
<1>12. ASSUME NEW s \in Slots, NEW n \in Slots, Reparent(s, n) PROVE NoLostExit'
  BY <1>12 DEF IInv, NoLostExit, Reparent
<1>13. ASSUME NEW s \in Slots, ExitZombie(s) PROVE NoLostExit'
  <2> SUFFICES ASSUME NEW q \in Slots \ {initproc}, NEW n \in Slots,
                      state'[q] = "SLEEPING", parent'[n] = q
               PROVE  state'[n] # "ZOMBIE"
    BY DEF NoLostExit
  <2>1. q # s /\ state[q] = "SLEEPING" /\ parent[n] = q
    BY <1>13, ZombieStep
  <2>2. CASE n = s
    <3>1. parent[s] = other[s]
      BY <1>13, <2>1, <2>2, ZombieStep DEF IInv, Target, Aims
    <3> QED  BY <1>13, <2>1, <2>2, <3>1, ZombieStep
  <2>3. CASE n # s
    <3>1. state[n] # "ZOMBIE"
      BY <2>1 DEF IInv, NoLostExit
    <3> QED  BY <1>13, <2>3, <3>1, ZombieStep
  <2> QED  BY <2>2, <2>3
<1>14. ASSUME NEW s \in Slots, Wait(s) PROVE NoLostExit'
  BY <1>14 DEF IInv, NoLostExit, Wait
<1>15. ASSUME NEW s \in Slots, NEW n \in Slots, ScanChild(s, n) PROVE NoLostExit'
  BY <1>15 DEF IInv, NoLostExit, ScanChild
<1>16. ASSUME NEW s \in Slots, NEW n \in Slots, Reap(s, n) PROVE NoLostExit'
  BY <1>16 DEF IInv, NoLostExit, Reap, FreeProc
<1>17. ASSUME NEW s \in Slots, ScanEnd(s) PROVE NoLostExit'
  <2>1. \A n \in Slots : parent[n] = s => state[n] # "ZOMBIE" \/ s = initproc
    <3> SUFFICES ASSUME NEW n \in Slots, parent[n] = s, s # initproc
                 PROVE  state[n] # "ZOMBIE"
      OBVIOUS
    <3>1. other[s] \in Slots \cup {NPROC + 1} /\ pc[s] = "scan"
      <4>1. pc[s] = "scan"
        BY <1>17, ScanEndStep
      <4>2. Aims(s) /\ other[s] \in Slots \cup {None, NPROC + 1}
        BY DEF IInv, Target
      <4> QED  BY <4>1, <4>2 DEF Aims
    <3>2. n < other[s]
      BY <1>17, <3>1, ScanOrder, Zenon DEF ScanEnd
    <3> QED  BY <3>1, <3>2 DEF IInv, Scanned
  <2>2. \A q \in Slots \ {s} : state'[q] = state[q]
    BY <1>17, ScanEndStep
  <2>3. parent' = parent /\ state'[s] # "ZOMBIE"
    BY <1>17, ScanEndStep
  <2> QED  BY <2>1, <2>2, <2>3 DEF IInv, NoLostExit
<1>18. ASSUME NEW s \in Slots, WaitResume(s) PROVE NoLostExit'
  BY <1>18 DEF IInv, NoLostExit, WaitResume
<1>19. ASSUME NEW s \in Slots, Kill(s) PROVE NoLostExit'
  BY <1>19 DEF IInv, NoLostExit, Kill
<1>20. CASE UNCHANGED vars
  BY <1>20 DEF IInv, vars, NoLostExit
<1> QED
  BY <1>1, <1>2, <1>3, <1>4, <1>5, <1>6, <1>7, <1>8, <1>9, <1>10, <1>11, <1>12,
     <1>13, <1>14, <1>15, <1>16, <1>17, <1>18, <1>19, <1>20
  DEF Next, ExitStep, WaitStep, ForkStep

-----------------------------------------------------------------------------
\* The first state, made by userinit, is as the invariant says.
LEMMA InitIInv == Init => IInv
<1> SUFFICES ASSUME Init PROVE IInv
  OBVIOUS
<1> USE SlotFacts DEF Init
<1>1. TypeOK
  <2>1. 0 \in Nat /\ 1 \in Nat /\ 2 \in Nat
    OBVIOUS
  <2> QED  BY <2>1 DEF TypeOK, Places
<1>2. InPlace /\ Locked /\ Target
  BY DEF InPlace, Exits, Locked, Holds, Target, Aims
<1>3. Family /\ Scanned /\ NoLostExit
  BY DEF Family, Kin, Scanned, NoLostExit
<1>4. Ages
  BY DEF Ages
<1> QED  BY <1>1, <1>2, <1>3, <1>4 DEF IInv

\* However fork, exit, wait and kill of any number of processes interleave,
\* the invariant stays true.
THEOREM ProcInvariant == Spec => []IInv
<1>1. IInv /\ [Next]_vars => IInv'
  BY TypeOKStep, InPlaceStep, LockedStep, TargetStep, FamilyStep, AgesStep, ScannedStep,
     NoLostExitStep DEF IInv
<1> QED  BY InitIInv, <1>1, PTL DEF Spec

\* wait() never goes to sleep over a child that has exited, and no child
\* becomes a zombie unnoticed by a parent that sleeps there.
THEOREM NoLostExitAlways == Spec => []NoLostExit
<1>1. IInv => NoLostExit
  BY DEF IInv
<1> QED  BY ProcInvariant, <1>1, PTL

\* exit() leaves no orphan: the parent of every process is there and has not
\* exited.
THEOREM ParentAliveAlways == Spec => []ParentAlive
<1>1. IInv => ParentAlive
  BY SlotFacts DEF IInv, Family, Kin, Alive, ParentAlive
<1> QED  BY ProcInvariant, <1>1, PTL

-----------------------------------------------------------------------------
\* A thread that holds a p->lock and wants another one.
Between(x) == pc[x] \in {"exit4", "reparent", "scan"}

\* Who holds a lock, and waits for another, has a larger pid than a thread
\* that holds a lock and waits for the former's: the locks of parent and
\* child are taken in this order.
LEMMA Younger ==
  ASSUME IInv, NEW x \in Slots, NEW n \in WantsLock(x), NEW h \in Slots,
         lock[n] = h, Between(x), Between(h), ~ParentReused(h)
  PROVE  pid[x] < pid[h]
<1> USE SlotFacts
<1>1. /\ n \in Slots /\ pid[n] # 0
      /\ \/ pid[x] < pid[n]
         \/ n = x /\ pc[x] = "exit4"
  <2>1. CASE pc[x] = "exit4"
    <3>1. n = x
      BY <2>1 DEF WantsLock
    <3>2. state[x] # "UNUSED"
      BY <2>1 DEF IInv, InPlace
    <3> QED  BY <2>1, <3>1, <3>2 DEF IInv, TypeOK, Ages
  <2>2. CASE pc[x] \in {"reparent", "scan"}
    <3>1. n \in Slots /\ parent[n] = x
      BY <2>2 DEF WantsLock, NextChild
    <3>2. pid[x] < pid[n]
      BY <3>1 DEF IInv, Ages
    <3> QED  BY <3>1, <3>2 DEF IInv, TypeOK
  <2> QED  BY <2>1, <2>2 DEF Between
<1>2. \/ h = n /\ pc[h] \in {"reparent", "scan"}
      \/ pc[h] \in {"exit4", "reparent"} /\ other[h] = n
  BY <1>1 DEF IInv, Locked, Holds, Between
<1>3. pid \in [Slots -> Nat]
  BY DEF IInv, TypeOK
<1>4. CASE h = n /\ pc[h] \in {"reparent", "scan"}
  BY <1>1, <1>3, <1>4
<1>5. CASE pc[h] \in {"exit4", "reparent"} /\ other[h] = n
  <2>1. n # h
    BY <1>5 DEF IInv, Target, Aims
  <2>2. ~(pid[n] > pid[h])
    BY <1>5 DEF ParentReused
  <2>3. pid[n] # pid[h]
    BY <1>1, <2>1 DEF IInv, Ages
  <2> QED  BY <1>1, <1>3, <2>2, <2>3
<1> QED  BY <1>2, <1>4, <1>5

\* No circle of threads each waiting for a p->lock that another of them
\* holds, unless exit() holds the lock of a slot that was reused since it
\* remembered it: of the threads in a circle that hold a lock, the one with
\* the largest pid would wait for a larger one.
THEOREM NoDeadlockAlways == Spec => []NoDeadlock
<1>1. IInv => NoDeadlock
  <2> SUFFICES ASSUME IInv, NEW T \in SUBSET Slots, Circle(T),
                      \A s \in T : ~ParentReused(s)
               PROVE  FALSE
    BY DEF NoDeadlock
  <2> USE SlotFacts
  <2> DEFINE H == {h \in T : Between(h)}
  <2>1. ASSUME NEW x \in T
        PROVE  \E n \in WantsLock(x) : lock[n] \in H
    <3>1. PICK n \in WantsLock(x) : lock[n] \in T
      BY DEF Circle
    <3>2. n \in Slots
      <4>1. pc[x] \in {"exit3", "kill"} => other[x] \in Slots
        BY DEF IInv, Target, Aims
      <4> QED  BY <4>1 DEF WantsLock
    <3>3. Holds(lock[n], n)
      BY <3>1, <3>2, Zenon DEF IInv, Locked
    <3>4. \E m \in WantsLock(lock[n]) : TRUE
      BY <3>1, Zenon DEF Circle
    <3>5. pc[lock[n]] # "fork"
      BY <3>4 DEF WantsLock
    <3> QED  BY <3>1, <3>3, <3>5 DEF Holds, Between
  <2>2. ASSUME NEW x \in H
        PROVE  \E h \in H : pid[x] < pid[h]
    <3>1. PICK n \in WantsLock(x) : lock[n] \in H
      BY <2>1
    <3> QED  BY <3>1, Younger, Zenon
  <2>3. /\ nextpid \in Nat
        /\ \A h \in H : pid[h] \in Nat /\ pid[h] < nextpid
    BY DEF IInv, TypeOK, Ages
  <2> DEFINE S == {nextpid - pid[h] : h \in H}
  <2>4. S \subseteq Nat /\ S # {}
    <3>1. H # {}
      BY <2>1, Zenon DEF Circle
    <3>2. ASSUME NEW h \in H PROVE nextpid - pid[h] \in Nat
      BY <2>3
    <3> QED  BY <3>1, <3>2, Zenon
  <2>5. PICK a \in S : \A b \in S : a <= b
    <3> HIDE DEF S
    <3> QED  BY <2>4, Least
  <2>6. PICK x \in H : a = nextpid - pid[x]
    BY <2>5
  <2>7. PICK h \in H : pid[x] < pid[h]
    BY <2>2
  <2>8. nextpid - pid[x] <= nextpid - pid[h]
    BY <2>5, <2>6
  <2> QED  BY <2>3, <2>7, <2>8
<1> QED  BY ProcInvariant, <1>1, PTL
=============================================================================
