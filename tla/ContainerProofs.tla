-------------------------- MODULE ContainerProofs --------------------------
(***************************************************************************)
(* For any numbers of slots, CPUs and containers and any workload: virtual *)
(* pids are unique in a container, kill stays inside one, and while none   *)
(* is stopped fork keeps its limit up to NCPU - 1.                         *)
(***************************************************************************)
EXTENDS Container, TLAPS, FiniteSetTheorems

\* The provers a leaf is tried with unless it names its own.
USE ZenonT(4), SMT, Z3T(20), ZenonT(40)

ProcRec == [state : {"UNUSED", "RUNNABLE", "ZOMBIE"}, pid : Nat, vpid : Nat,
            cont : Conts, parent : 0 .. NPROC, killed : BOOLEAN]
ContRec == [state : {"CUNUSED", "CRUNNING"}, nextvpid : Nat]
LocRec == [np : 0 .. NPROC, i : Nat, n : Nat, target : Nat, c : Conts]

(* Types, and that the loops over proc[] stay inside it.                    *)
TypeOK ==
    /\ proc \in [Slots -> ProcRec]
    /\ cont \in [Conts -> ContRec]
    /\ nextpid \in Nat
    /\ pc \in [Slots -> {"idle", "count", "join", "killread", "killlock", "cinit", "cstop"}]
    /\ loc \in [Slots -> LocRec]
    /\ ops \in Workloads
    /\ broken \in BOOLEAN
    /\ \A p \in Slots : pc[p] \in {"killread", "killlock", "cstop"} => loc[p].i \in Slots

(* A process in a call is not freed or being made; the child of a fork does *)
(* nothing and belongs to one fork.                                         *)
InCall ==
    \A p \in Slots :
      /\ pc[p] # "idle" => proc[p].state = "RUNNABLE"
      /\ p \in Forking => /\ loc[p].np \in Slots /\ pc[loc[p].np] = "idle"
                          /\ proc[loc[p].np].state = "RUNNABLE"
                          /\ \A q \in Forking : loc[q].np = loc[p].np => q = p

(* What kill and cinit remember of the caller's container is still true.    *)
SameCont ==
    \A p \in Slots : pc[p] \in {"killread", "killlock", "cinit"} => loc[p].c = proc[p].cont

(* A slot whose vpid is the one its container gave it.                      *)
Own(s) == proc[s].state # "UNUSED" /\ ~Locked(s) /\ pc[s] # "cinit"

(* A container's vpids are behind its counter and different.                *)
VpidsGiven ==
    \A s \in Slots : Own(s) =>
      /\ proc[s].vpid < cont[proc[s].cont].nextvpid
      /\ \A t \in Slots : Own(t) /\ proc[t].cont = proc[s].cont
                            /\ proc[t].vpid = proc[s].vpid => t = s

IInv == TypeOK /\ (~broken => InCall /\ SameCont /\ VpidsGiven)

-----------------------------------------------------------------------------
(* freeproc keeps the container and the vpid.                               *)
LEMMA FreedRec ==
    ASSUME NEW r \in ProcRec
    PROVE  /\ Freed(r) \in ProcRec
           /\ Freed(r).state = "UNUSED" /\ Freed(r).killed = FALSE
<1>1. NoSlot \in 0 .. NPROC
  BY ContainerAssumption DEF NoSlot
<1>2. DOMAIN r = {"state", "pid", "vpid", "cont", "parent", "killed"}
  BY DEF ProcRec
<1>3. Freed(r).state = "UNUSED" /\ Freed(r).killed = FALSE
  BY <1>2 DEF Freed
<1>4. Freed(r) \in ProcRec
  BY <1>1, Zenon DEF ProcRec, Freed
<1> QED  BY <1>3, <1>4

(* The local variables a call starts with.                                  *)
LEMMA NoLocRec ==
    /\ NoLoc \in LocRec
    /\ \A np \in 0 .. NPROC, i \in Nat, c \in Conts :
         [NoLoc EXCEPT !.np = np, !.i = i, !.c = c] \in LocRec
    /\ \A i, k \in Nat, c \in Conts :
         [NoLoc EXCEPT !.i = i, !.target = k, !.c = c] \in LocRec
<1>1. NoSlot \in 0 .. NPROC /\ Root \in Conts /\ 0 \in Nat
  BY ContainerAssumption DEF NoSlot, Root, Conts
<1>2. NoLoc \in LocRec
  BY <1>1 DEF NoLoc, LocRec
<1>3. ASSUME NEW np \in 0 .. NPROC, NEW i \in Nat, NEW c \in Conts
      PROVE  [NoLoc EXCEPT !.np = np, !.i = i, !.c = c] \in LocRec
  BY <1>2, Zenon DEF LocRec
<1>4. ASSUME NEW i \in Nat, NEW k \in Nat, NEW c \in Conts
      PROVE  [NoLoc EXCEPT !.i = i, !.target = k, !.c = c] \in LocRec
  BY <1>2, Zenon DEF LocRec
<1> QED  BY <1>2, <1>3, <1>4, Zenon

(* No step is taken once freeproc has been run under a process in a call.   *)
LEMMA NotBroken == Next => ~broken
BY ZenonT(30) DEF Next, Fork, ForkCount, ForkJoin, Exit, Wait, Kill, Balloc, KillRead,
       KillLock, Cinit, CinitClaim, Cstop, CstopFree, Calls, Idle, In

(* A process that starts a call is nobody's half-made child.                *)
LEMMA ForkStep ==
    ASSUME IInv, NEW p \in Slots, Fork(p)
    PROVE  IInv'
<1>1. TypeOK /\ InCall /\ SameCont /\ VpidsGiven /\ ~broken
  BY DEF IInv, Fork, Calls, Idle
<1>2. PICK np \in Slots :
        /\ proc[np].state = "UNUSED"
        /\ proc' = [proc EXCEPT ![np].state = "RUNNABLE", ![np].pid = nextpid,
                                ![np].parent = p]
        /\ Goto(p, "count", [NoLoc EXCEPT !.np = np, !.i = 1, !.c = proc[p].cont])
  BY Zenon DEF Fork
<1>3. pc[p] = "idle" /\ proc[p].state = "RUNNABLE" /\ ~Locked(p)
  BY DEF Fork, Calls, Idle
<1>4. proc[p].cont \in Conts /\ np \in 0 .. NPROC /\ p \in 0 .. NPROC /\ 1 \in Nat
  <2>1. proc[p] \in ProcRec  BY <1>1 DEF TypeOK
  <2>2. proc[p].cont \in Conts  BY <2>1 DEF ProcRec
  <2> QED  BY <2>2, ContainerAssumption DEF Slots
<1>5. [NoLoc EXCEPT !.np = np, !.i = 1, !.c = proc[p].cont] \in LocRec
  BY <1>4, NoLocRec, Zenon
<1>6. proc' \in [Slots -> ProcRec]
  <2> DEFINE r == [proc[np] EXCEPT !.state = "RUNNABLE", !.pid = nextpid, !.parent = p]
  <2>1. proc[np] \in ProcRec /\ nextpid \in Nat  BY <1>1 DEF TypeOK
  <2>2. r \in ProcRec  BY <1>4, <2>1, Zenon DEF ProcRec
  <2>3. proc' = [proc EXCEPT ![np] = r]  BY <1>1, <1>2, Zenon DEF TypeOK
  <2> QED  BY <1>1, <2>2, <2>3 DEF TypeOK
<1>7. TypeOK'
  BY <1>1, <1>2, <1>5, <1>6 DEF TypeOK, Goto, Fork
<1>8. /\ \A s \in Slots : s # np => proc'[s] = proc[s]
      /\ proc'[np].state = "RUNNABLE" /\ proc'[np].cont = proc[np].cont
  BY <1>1, <1>2 DEF TypeOK, ProcRec
<1>9. /\ pc'[p] = "count" /\ loc'[p].np = np
      /\ \A q \in Slots : q # p => pc'[q] = pc[q] /\ loc'[q] = loc[q]
  BY <1>1, <1>2 DEF TypeOK, Goto, NoLoc
<1>10. pc[np] = "idle" /\ ~Locked(np) /\ np # p
  BY <1>1, <1>2, <1>3 DEF InCall, Locked, Forking
<1>11. \A s \in Slots : Locked(s)' <=> Locked(s) \/ s = np
  BY <1>3, <1>9 DEF Locked, Forking
<1>12. InCall'
  BY <1>1, <1>3, <1>8, <1>9, <1>10 DEF InCall, Forking, Locked
<1>13. SameCont'
  BY <1>1, <1>8, <1>9, <1>10 DEF SameCont
<1>14. cont' = cont /\ \A s \in Slots : Own(s)' => Own(s) /\ s # np
  BY <1>2, <1>3, <1>8, <1>9, <1>11, Zenon DEF Own, Fork
<1>15. VpidsGiven'
  BY <1>1, <1>8, <1>14 DEF VpidsGiven
<1> QED  BY <1>7, <1>12, <1>13, <1>15 DEF IInv

(* The steps of a process in which no slot changes its state, container or  *)
(* vpid: a call begins, goes on or ends, and no fork or cinit ends with it. *)
LEMMA MoveStep ==
    ASSUME IInv, TypeOK', ~broken, broken' = broken, NEW p \in Slots,
           \A s \in Slots : /\ proc'[s].state = proc[s].state
                            /\ proc'[s].cont = proc[s].cont
                            /\ proc'[s].vpid = proc[s].vpid,
           \A c \in Conts : cont'[c].nextvpid = cont[c].nextvpid,
           \A q \in Slots : q # p => pc'[q] = pc[q] /\ loc'[q] = loc[q],
           proc[p].state = "RUNNABLE", ~Locked(p),
           pc[p] # "cinit", pc'[p] # "cinit",
           pc'[p] \in {"count", "join"} <=> pc[p] \in {"count", "join"},
           pc[p] \in {"count", "join"} => loc'[p].np = loc[p].np,
           pc'[p] \in {"killread", "killlock"} => loc'[p].c = proc[p].cont
    PROVE  IInv'
<1>1. InCall /\ SameCont /\ VpidsGiven
  BY DEF IInv
<1>2. Forking' = Forking /\ \A q \in Forking : loc'[q].np = loc[q].np
  BY DEF Forking
<1>3. \A s \in Slots : Locked(s)' <=> Locked(s)
  BY <1>2 DEF Locked
<1>4. InCall'
  <2>1. ASSUME NEW q \in Forking PROVE loc[q].np # p /\ pc'[loc[q].np] = "idle"
    BY <1>1 DEF Locked, InCall, Forking
  <2> QED  BY <1>1, <1>2, <2>1 DEF InCall, Forking
<1>5. SameCont'
  BY <1>1 DEF SameCont
<1>6. \A s \in Slots : Own(s)' <=> Own(s)
  BY <1>3 DEF Own
<1>7. \A s \in Slots : cont'[proc'[s].cont].nextvpid = cont[proc[s].cont].nextvpid
  <2>1. \A s \in Slots : proc[s].cont \in Conts  BY DEF IInv, TypeOK, ProcRec
  <2> QED  BY <2>1
<1>8. VpidsGiven'
  BY <1>1, <1>6, <1>7 DEF VpidsGiven
<1> QED  BY <1>4, <1>5, <1>8 DEF IInv

(* A process in a call is not locked by a fork, and can run.                *)
LEMMA InCallRuns ==
    ASSUME IInv, ~broken, NEW p \in Slots, pc[p] # "idle"
    PROVE  proc[p].state = "RUNNABLE" /\ ~Locked(p)
BY DEF IInv, InCall, Locked, Forking

(* numproc.                                                                 *)
LEMMA ForkCountStep ==
    ASSUME IInv, NEW p \in Slots, ForkCount(p)
    PROVE  IInv'
<1>1. TypeOK /\ ~broken /\ pc[p] = "count"
  BY DEF IInv, ForkCount, In
<1>2. PICK m \in Nat, where \in {"count", "join"} :
        Goto(p, where, [loc[p] EXCEPT !.i = loc[p].i + 1, !.n = m])
  <2>1. loc[p].n \in Nat  BY <1>1 DEF TypeOK, LocRec
  <2>2. loc[p].n + (IF Counted(loc[p].i, loc[p].c) THEN 1 ELSE 0) \in Nat  BY <2>1
  <2> QED  BY <2>2, Zenon DEF ForkCount
<1>3. loc[p] \in LocRec /\ loc[p].i + 1 \in Nat
  BY <1>1 DEF TypeOK, LocRec
<1>4. [loc[p] EXCEPT !.i = loc[p].i + 1, !.n = m] \in LocRec
  BY <1>3, Zenon DEF LocRec
<1>5. TypeOK'
  BY <1>1, <1>2, <1>4 DEF TypeOK, Goto, ForkCount
<1>6. loc'[p].np = loc[p].np
  BY <1>1, <1>2, <1>3 DEF TypeOK, LocRec, Goto
<1>7. /\ pc'[p] \in {"count", "join"}
      /\ \A q \in Slots : q # p => pc'[q] = pc[q] /\ loc'[q] = loc[q]
      /\ UNCHANGED <<proc, cont, broken>>
  BY <1>1, <1>2 DEF TypeOK, Goto, ForkCount
<1> QED  BY <1>1, <1>5, <1>6, <1>7, InCallRuns, MoveStep

(* sys_kill, and balloc's kill of the process it works for.                 *)
LEMMA KillStep ==
    ASSUME IInv, NEW p \in Slots, Kill(p) \/ Balloc(p)
    PROVE  IInv'
<1>1. /\ TypeOK /\ ~broken /\ pc[p] = "idle" /\ proc[p].state = "RUNNABLE" /\ ~Locked(p)
      /\ UNCHANGED <<proc, cont, nextpid, ops, broken>>
  BY Zenon DEF IInv, Kill, Balloc, Calls, Idle
<1>2. proc[p].cont \in Conts /\ proc[p].pid \in Nat
  BY <1>1 DEF TypeOK, ProcRec
<1>3. PICK k \in Nat :
        Goto(p, "killread", [NoLoc EXCEPT !.i = 1, !.target = k, !.c = proc[p].cont])
  <2>1. ops.targets \subseteq Nat  BY <1>1, ContainerAssumption DEF TypeOK
  <2> QED  BY <1>2, <2>1, Zenon DEF Kill, Balloc
<1>4. [NoLoc EXCEPT !.i = 1, !.target = k, !.c = proc[p].cont] \in LocRec
  BY <1>2, NoLocRec, Zenon
<1>5. /\ pc' = [pc EXCEPT ![p] = "killread"] /\ loc' \in [Slots -> LocRec]
      /\ loc'[p].i = 1 /\ loc'[p].c = proc[p].cont
      /\ \A q \in Slots : q # p => pc'[q] = pc[q] /\ loc'[q] = loc[q]
  BY <1>1, <1>3, <1>4 DEF TypeOK, Goto, NoLoc
<1>6. 1 \in Slots
  BY ContainerAssumption DEF Slots
<1>7. TypeOK'
  BY <1>1, <1>5, <1>6 DEF TypeOK
<1>8. pc'[p] = "killread"
  BY <1>1, <1>5 DEF TypeOK
<1> QED  BY <1>1, <1>5, <1>7, <1>8, MoveStep

(* The loops over proc[] go to the next slot or return.                     *)
LEMMA LoopStep ==
    ASSUME TypeOK, NEW p \in Slots, NEW where, loc[p].i \in Slots,
           \/ Goto(p, "idle", NoLoc)
           \/ loc[p].i # NPROC /\ Goto(p, where, [loc[p] EXCEPT !.i = loc[p].i + 1])
    PROVE  /\ loc' \in [Slots -> LocRec]
           /\ \A q \in Slots : q # p => pc'[q] = pc[q] /\ loc'[q] = loc[q]
           /\ \/ pc' = [pc EXCEPT ![p] = "idle"]
              \/ /\ pc' = [pc EXCEPT ![p] = where]
                 /\ loc'[p].i \in Slots /\ loc'[p].c = loc[p].c
<1>1. pc \in [Slots -> {"idle", "count", "join", "killread", "killlock", "cinit", "cstop"}]
      /\ loc \in [Slots -> LocRec] /\ loc[p] \in LocRec
  BY DEF TypeOK
<1>2. CASE Goto(p, "idle", NoLoc)
  BY <1>1, <1>2, NoLocRec, Zenon DEF Goto
<1>3. CASE loc[p].i # NPROC /\ Goto(p, where, [loc[p] EXCEPT !.i = loc[p].i + 1])
  <2> DEFINE l == [loc[p] EXCEPT !.i = loc[p].i + 1]
  <2>1. loc[p].i + 1 \in Slots /\ loc[p].i + 1 \in Nat
    <3>1. PICK i \in Slots : i = loc[p].i  OBVIOUS
    <3>2. NPROC \in Nat  BY ContainerAssumption
    <3>3. i # NPROC  BY <1>3, <3>1
    <3>4. i + 1 \in Slots /\ i + 1 \in Nat
      BY ONLY i \in Slots, <3>2, <3>3 DEF Slots
    <3> QED  BY <3>1, <3>4
  <2>2. l \in LocRec /\ l.i \in Slots /\ l.c = loc[p].c
    BY <1>1, <2>1 DEF LocRec
  <2>3. pc' = [pc EXCEPT ![p] = where] /\ loc' = [loc EXCEPT ![p] = l]
    BY <1>3 DEF Goto
  <2> HIDE DEF l
  <2> QED  BY <1>1, <2>2, <2>3
<1> QED  BY <1>2, <1>3

(* kill: the read without the lock, then the slot under its lock.           *)
LEMMA KillReadStep ==
    ASSUME IInv, NEW p \in Slots, KillRead(p)
    PROVE  IInv'
<1>1. /\ TypeOK /\ SameCont /\ ~broken /\ pc[p] = "killread"
      /\ UNCHANGED <<proc, cont, nextpid, ops, broken>>
  BY DEF IInv, KillRead, In
<1>2. PICK m \in Nat : Goto(p, "killlock", [loc[p] EXCEPT !.n = m])
  <2>1. loc[p].i \in Slots  BY <1>1 DEF TypeOK
  <2>2. proc[loc[p].i].pid \in Nat /\ proc[loc[p].i].vpid \in Nat
    BY <1>1, <2>1 DEF TypeOK, ProcRec
  <2> QED  BY <2>2 DEF KillRead
<1>3. loc[p] \in LocRec
  BY <1>1 DEF TypeOK
<1>4. [loc[p] EXCEPT !.n = m] \in LocRec
  BY <1>3 DEF LocRec
<1>5. /\ pc' = [pc EXCEPT ![p] = "killlock"] /\ loc' \in [Slots -> LocRec]
      /\ loc'[p].i = loc[p].i /\ loc'[p].c = loc[p].c
      /\ \A q \in Slots : q # p => pc'[q] = pc[q] /\ loc'[q] = loc[q]
  BY <1>1, <1>2, <1>3, <1>4 DEF TypeOK, LocRec, Goto
<1>6. TypeOK'
  BY <1>1, <1>5 DEF TypeOK
<1>7. pc'[p] = "killlock" /\ loc[p].c = proc[p].cont
  BY <1>1, <1>5 DEF TypeOK, SameCont
<1> QED  BY <1>1, <1>5, <1>6, <1>7, InCallRuns, MoveStep

(* kill, under the lock of the slot it read.                                *)
LEMMA KillLockStep ==
    ASSUME IInv, NEW p \in Slots, KillLock(p)
    PROVE  IInv'
<1> DEFINE s == loc[p].i
<1>1. /\ TypeOK /\ SameCont /\ ~broken /\ pc[p] = "killlock"
      /\ UNCHANGED <<cont, nextpid, ops, broken>> /\ s \in Slots
  BY DEF IInv, KillLock, In, TypeOK
<1>2. proc' = proc \/ proc' = [proc EXCEPT ![s].killed = TRUE]
  BY DEF KillLock
<1>3. proc' \in [Slots -> ProcRec]
  <2>1. proc[s] \in ProcRec  BY <1>1 DEF TypeOK
  <2>2. [proc[s] EXCEPT !.killed = TRUE] \in ProcRec  BY <2>1, Zenon DEF ProcRec
  <2>3. proc' = proc \/ proc' = [proc EXCEPT ![s] = [proc[s] EXCEPT !.killed = TRUE]]
    BY <1>1, <1>2 DEF TypeOK
  <2> QED  BY <1>1, <2>2, <2>3 DEF TypeOK
<1>4. \A t \in Slots : /\ proc'[t].state = proc[t].state
                       /\ proc'[t].cont = proc[t].cont
                       /\ proc'[t].vpid = proc[t].vpid
  BY <1>1, <1>2 DEF TypeOK, ProcRec
<1>5. \/ Goto(p, "idle", NoLoc)
      \/ s # NPROC /\ Goto(p, "killread", [loc[p] EXCEPT !.i = s + 1])
  BY DEF KillLock, Return
<1>6. /\ loc' \in [Slots -> LocRec]
      /\ \A q \in Slots : q # p => pc'[q] = pc[q] /\ loc'[q] = loc[q]
      /\ \/ pc' = [pc EXCEPT ![p] = "idle"]
         \/ pc' = [pc EXCEPT ![p] = "killread"] /\ loc'[p].i \in Slots /\ loc'[p].c = loc[p].c
  BY <1>1, <1>5, LoopStep, Zenon
<1>7. TypeOK'
  BY <1>1, <1>3, <1>6 DEF TypeOK
<1>8. pc'[p] \in {"idle", "killread"} /\ (pc'[p] = "killread" => loc'[p].c = proc[p].cont)
  BY <1>1, <1>6 DEF TypeOK, SameCont
<1> QED  BY <1>1, <1>4, <1>6, <1>7, <1>8, InCallRuns, MoveStep

(* cstop marks the container unused; its numbers go on.                     *)
LEMMA CstopStep ==
    ASSUME IInv, NEW p \in Slots, Cstop(p)
    PROVE  IInv'
<1>1. /\ TypeOK /\ ~broken /\ pc[p] = "idle" /\ proc[p].state = "RUNNABLE" /\ ~Locked(p)
      /\ UNCHANGED <<proc, nextpid, ops, broken>>
  BY DEF IInv, Cstop, Calls, Idle
<1>2. PICK c \in Conts : /\ cont' = [cont EXCEPT ![c].state = "CUNUSED"]
                         /\ Goto(p, "cstop", [NoLoc EXCEPT !.i = 1, !.c = c])
  BY Zenon DEF Cstop
<1>3. /\ cont' \in [Conts -> ContRec]
      /\ \A d \in Conts : cont'[d].nextvpid = cont[d].nextvpid
  BY <1>1, <1>2 DEF TypeOK, ContRec
<1>4. [NoLoc EXCEPT !.i = 1, !.c = c] \in LocRec
  BY NoLocRec, Zenon DEF LocRec
<1>5. /\ pc' = [pc EXCEPT ![p] = "cstop"] /\ loc' \in [Slots -> LocRec] /\ loc'[p].i = 1
      /\ \A q \in Slots : q # p => pc'[q] = pc[q] /\ loc'[q] = loc[q]
  BY <1>1, <1>2, <1>4 DEF TypeOK, Goto, NoLoc
<1>6. 1 \in Slots
  BY ContainerAssumption DEF Slots
<1>7. TypeOK'
  BY <1>1, <1>3, <1>5, <1>6 DEF TypeOK
<1>8. pc'[p] = "cstop"
  BY <1>1, <1>5 DEF TypeOK
<1> QED  BY <1>1, <1>3, <1>5, <1>7, <1>8, MoveStep

(* A slot that no process in a call and no fork depends on leaves the table *)
(* or becomes a zombie.                                                     *)
LEMMA LeaveStep ==
    ASSUME IInv, TypeOK', ~broken, NEW s \in Slots, pc[s] = "idle", ~Locked(s),
           cont' = cont,
           \A q \in Slots :
             \/ pc'[q] = pc[q] /\ loc'[q] = loc[q]
             \/ pc[q] = "cstop" /\ pc'[q] \in {"cstop", "idle"},
           proc'[s].state # "UNUSED" => proc[s].state # "UNUSED",
           \A t \in Slots : /\ t # s => proc'[t].state = proc[t].state
                            /\ proc'[t].cont = proc[t].cont
                            /\ proc'[t].vpid = proc[t].vpid
    PROVE  IInv'
<1>1. InCall /\ SameCont /\ VpidsGiven
  BY DEF IInv
<1>2. Forking' = Forking /\ \A t \in Slots : Locked(t)' <=> Locked(t)
  <2>1. Forking' = Forking /\ \A q \in Forking : loc'[q] = loc[q]  BY DEF Forking
  <2> QED  BY <2>1 DEF Locked
<1>3. \A q \in Forking : loc[q].np # s /\ loc'[q] = loc[q]
  BY DEF Locked, Forking
<1>4. InCall'
  BY <1>1, <1>2, <1>3 DEF InCall, Forking
<1>5. SameCont'
  BY <1>1 DEF SameCont
<1>6. \A t \in Slots : Own(t)' => Own(t)
  BY <1>2 DEF Own
<1>7. VpidsGiven'
  BY <1>1, <1>6 DEF VpidsGiven
<1> QED  BY <1>4, <1>5, <1>7 DEF IInv

(* exit, and wait for an exited child.                                      *)
LEMMA ExitStep ==
    ASSUME IInv, NEW p \in Slots, Exit(p)
    PROVE  IInv'
<1>1. /\ TypeOK /\ ~broken /\ pc[p] = "idle" /\ proc[p].state = "RUNNABLE" /\ ~Locked(p)
      /\ UNCHANGED <<cont, nextpid, pc, loc, ops, broken>>
  BY DEF IInv, Exit, Idle
<1>2. ASSUME NEW t \in Slots
      PROVE  /\ proc'[t] \in ProcRec
             /\ t # p => proc'[t].state = proc[t].state
             /\ proc'[t].cont = proc[t].cont /\ proc'[t].vpid = proc[t].vpid
  <2>1. proc[t] \in ProcRec  BY <1>1 DEF TypeOK
  <2>2. InitProc \in 0 .. NPROC  BY ContainerAssumption DEF InitProc
  <2>3. \/ t = p /\ proc'[t] = [proc[t] EXCEPT !.state = "ZOMBIE"]
        \/ t # p /\ proc'[t] = [proc[t] EXCEPT !.parent = InitProc]
        \/ t # p /\ proc'[t] = proc[t]
    BY DEF Exit
  <2> QED  BY <2>1, <2>2, <2>3 DEF ProcRec
<1>3. proc' \in [Slots -> ProcRec]
  <2>1. DOMAIN proc' = Slots /\ proc' = [t \in Slots |-> proc'[t]]  BY DEF Exit
  <2> QED  BY <1>2, <2>1
<1>4. TypeOK'
  BY <1>1, <1>3 DEF TypeOK
<1> QED  BY <1>1, <1>2, <1>4, LeaveStep

(* A slot freed: what the others see of it.                                 *)
LEMMA FreedSlot ==
    ASSUME TypeOK, NEW s \in Slots, proc' = [proc EXCEPT ![s] = Freed(@)]
    PROVE  /\ proc' \in [Slots -> ProcRec] /\ proc'[s].state = "UNUSED"
           /\ \A t \in Slots : /\ t # s => proc'[t].state = proc[t].state
                               /\ proc'[t].cont = proc[t].cont
                               /\ proc'[t].vpid = proc[t].vpid
                               /\ proc'[t].killed => proc[t].killed
<1>1. proc \in [Slots -> ProcRec] /\ proc[s] \in ProcRec
  BY DEF TypeOK
<1>2. proc' \in [Slots -> ProcRec] /\ proc'[s] = Freed(proc[s])
  BY <1>1, FreedRec, Zenon
<1>3. Freed(proc[s]).cont = proc[s].cont /\ Freed(proc[s]).vpid = proc[s].vpid
  BY <1>1 DEF ProcRec, Freed
<1> QED  BY <1>1, <1>2, <1>3, FreedRec, Zenon

(* wait frees the slot of a zombie child.                                   *)
LEMMA WaitStep ==
    ASSUME IInv, NEW p \in Slots, Wait(p)
    PROVE  IInv'
<1>1. TypeOK /\ InCall /\ ~broken /\ UNCHANGED <<cont, nextpid, pc, loc, ops, broken>>
  BY DEF IInv, Wait, Idle
<1>2. PICK s \in Slots : proc[s].state = "ZOMBIE" /\ proc' = [proc EXCEPT ![s] = Freed(@)]
  BY Zenon DEF Wait
<1>3. pc[s] = "idle" /\ ~Locked(s)
  BY <1>1, <1>2 DEF InCall, Locked, Forking
<1>4. TypeOK'
  BY <1>1, <1>2, FreedSlot, Zenon DEF TypeOK
<1> QED  BY <1>1, <1>2, <1>3, <1>4, FreedSlot, LeaveStep, Zenon

(* cstop's loop: what it frees in the middle of something ends the matter.  *)
LEMMA CstopFreeStep ==
    ASSUME IInv, NEW p \in Slots, CstopFree(p)
    PROVE  IInv'
<1> DEFINE s == loc[p].i
<1>1. /\ TypeOK /\ ~broken /\ pc[p] = "cstop" /\ s \in Slots
      /\ UNCHANGED <<cont, nextpid, ops>> /\ broken' \in BOOLEAN
  BY Zenon DEF IInv, CstopFree, In, TypeOK
<1>2. \/ Goto(p, "idle", NoLoc)
      \/ s # NPROC /\ Goto(p, "cstop", [loc[p] EXCEPT !.i = s + 1])
  BY DEF CstopFree, Return
<1>3. /\ loc' \in [Slots -> LocRec]
      /\ \A q \in Slots : q # p => pc'[q] = pc[q] /\ loc'[q] = loc[q]
      /\ \/ pc' = [pc EXCEPT ![p] = "idle"]
         \/ pc' = [pc EXCEPT ![p] = "cstop"] /\ loc'[p].i \in Slots
  BY <1>1, <1>2, LoopStep, Zenon
<1>4. pc'[p] \in {"idle", "cstop"}
  BY <1>1, <1>3 DEF TypeOK
<1>5. CASE proc[s].cont # loc[p].c
  <2>1. proc' = proc /\ broken' = broken
    <3>1. proc' = proc /\ broken' \in {FALSE}  BY <1>5 DEF CstopFree
    <3> QED  BY <1>1, <3>1, Zenon DEF TypeOK
  <2>2. TypeOK'
    BY <1>1, <1>3, <2>1 DEF TypeOK
  <2> QED  BY <1>1, <1>3, <1>4, <2>1, <2>2, InCallRuns, MoveStep
<1>6. CASE proc[s].cont = loc[p].c
  <2>1. proc' = [proc EXCEPT ![s] = Freed(@)]
    BY <1>6 DEF CstopFree
  <2>2. TypeOK'
    <3>1. proc' \in [Slots -> ProcRec]  BY <1>1, <2>1, FreedSlot, Zenon
    <3> QED  BY <1>1, <1>3, <3>1 DEF TypeOK
  <2>3. CASE pc[s] # "idle" \/ Locked(s)
    <3>1. broken'  BY <1>6, <2>3, Zenon DEF CstopFree
    <3> QED  BY <2>2, <3>1 DEF IInv
  <2>4. CASE pc[s] = "idle" /\ ~Locked(s)
    BY <1>1, <1>3, <1>4, <2>1, <2>2, <2>4, FreedSlot, LeaveStep, ZenonT(30)
  <2> QED  BY <2>3, <2>4
<1> QED  BY <1>5, <1>6

(* cinit moves the caller before it has a vpid there.                       *)
LEMMA CinitStep ==
    ASSUME IInv, NEW p \in Slots, Cinit(p)
    PROVE  IInv'
<1>1. /\ TypeOK /\ InCall /\ SameCont /\ VpidsGiven /\ ~broken
      /\ pc[p] = "idle" /\ proc[p].state = "RUNNABLE" /\ ~Locked(p)
      /\ UNCHANGED <<cont, nextpid, ops, broken>>
  BY DEF IInv, Cinit, Calls, Idle
<1>2. PICK c \in Conts : /\ proc' = [proc EXCEPT ![p].cont = c]
                         /\ Goto(p, "cinit", [NoLoc EXCEPT !.c = c])
  BY Zenon DEF Cinit
<1>3. /\ proc' \in [Slots -> ProcRec]
      /\ \A s \in Slots : s # p => proc'[s] = proc[s]
      /\ proc'[p].state = "RUNNABLE" /\ proc'[p].cont = c
  BY <1>1, <1>2 DEF TypeOK, ProcRec
<1>4. [NoLoc EXCEPT !.c = c] \in LocRec
  BY NoLocRec, Zenon DEF LocRec
<1>5. /\ pc' = [pc EXCEPT ![p] = "cinit"] /\ loc' \in [Slots -> LocRec] /\ loc'[p].c = c
      /\ pc'[p] = "cinit" /\ \A q \in Slots : q # p => pc'[q] = pc[q] /\ loc'[q] = loc[q]
  BY <1>1, <1>2, <1>4 DEF TypeOK, Goto, NoLoc
<1>6. TypeOK'
  BY <1>1, <1>3, <1>5 DEF TypeOK
<1>7. Forking' = Forking /\ \A q \in Forking : q # p /\ loc'[q] = loc[q] /\ loc[q].np # p
  BY <1>1, <1>5 DEF Forking, Locked
<1>8. InCall'
  BY <1>1, <1>3, <1>5, <1>7 DEF InCall, Forking
<1>9. SameCont'
  BY <1>1, <1>3, <1>5 DEF SameCont
<1>10. \A s \in Slots : Own(s)' => Own(s) /\ s # p
  BY <1>3, <1>5, <1>7 DEF Own, Locked
<1>11. VpidsGiven'
  BY <1>1, <1>3, <1>10 DEF VpidsGiven
<1> QED  BY <1>6, <1>8, <1>9, <1>11 DEF IInv

(* A vpid just given out: allocvpid under the container's lock.             *)
LEMMA VpidStep ==
    ASSUME TypeOK, TypeOK', VpidsGiven, NEW np \in Slots, NEW c \in Conts,
           proc'[np].cont = c, proc'[np].vpid = cont[c].nextvpid,
           cont'[c].nextvpid = cont[c].nextvpid + 1,
           \A d \in Conts : d # c => cont'[d].nextvpid = cont[d].nextvpid,
           \A s \in Slots : s # np => proc'[s] = proc[s] /\ (Own(s)' => Own(s))
    PROVE  VpidsGiven'
<1>1. \A s \in Slots : proc[s].vpid \in Nat /\ proc[s].cont \in Conts
  BY DEF TypeOK, ProcRec
<1>2. \A d \in Conts : cont[d].nextvpid \in Nat /\ cont'[d].nextvpid >= cont[d].nextvpid
  BY DEF TypeOK, ContRec
<1>3. ASSUME NEW s \in Slots, s # np, Own(s)'
      PROVE  /\ proc'[s].vpid < cont'[proc'[s].cont].nextvpid
             /\ proc'[s].cont = c => proc'[s].vpid < proc'[np].vpid
  BY <1>1, <1>2, <1>3 DEF VpidsGiven
<1>4. proc'[np].vpid < cont'[proc'[np].cont].nextvpid
  BY <1>2
<1>5. ASSUME NEW s \in Slots, NEW t \in Slots, Own(s)', Own(t)',
             proc'[t].cont = proc'[s].cont, proc'[t].vpid = proc'[s].vpid
      PROVE  t = s
  <2>1. CASE s # np /\ t # np
    BY <1>5, <2>1 DEF VpidsGiven
  <2>2. CASE s = np /\ t # np
    BY <1>1, <1>2, <1>3, <1>5, <2>2
  <2>3. CASE s # np /\ t = np
    BY <1>1, <1>2, <1>3, <1>5, <2>3
  <2> QED  BY <2>1, <2>2, <2>3
<1> QED  BY <1>3, <1>4, <1>5 DEF VpidsGiven

(* cinit marks the container it chose as running and takes a vpid of it.    *)
LEMMA CinitClaimStep ==
    ASSUME IInv, NEW p \in Slots, CinitClaim(p)
    PROVE  IInv'
<1> DEFINE c == loc[p].c
<1>1. /\ TypeOK /\ InCall /\ SameCont /\ VpidsGiven /\ ~broken /\ pc[p] = "cinit"
      /\ UNCHANGED <<nextpid, ops, broken>>
      /\ proc' = [proc EXCEPT ![p].vpid = cont[c].nextvpid]
      /\ cont' = [cont EXCEPT ![c] = AllocVpid([@ EXCEPT !.state = "CRUNNING"])]
      /\ pc' = [pc EXCEPT ![p] = "idle"] /\ loc' = [loc EXCEPT ![p] = NoLoc]
  BY DEF IInv, CinitClaim, In, Return, Goto
<1>2. c \in Conts /\ proc[p].cont = c
  BY <1>1 DEF TypeOK, LocRec, SameCont
<1>3. cont[c] \in ContRec /\ cont[c].nextvpid \in Nat
  BY <1>1, <1>2 DEF TypeOK, ContRec
<1> HIDE DEF c
<1>4. /\ proc' \in [Slots -> ProcRec]
      /\ \A s \in Slots : s # p => proc'[s] = proc[s]
      /\ proc'[p].vpid = cont[c].nextvpid /\ proc'[p].cont = c
      /\ proc'[p].state = proc[p].state
  <2> DEFINE r == [proc[p] EXCEPT !.vpid = cont[c].nextvpid]
  <2>1. proc \in [Slots -> ProcRec] /\ proc[p] \in ProcRec  BY <1>1 DEF TypeOK
  <2>2. r \in ProcRec /\ r.vpid = cont[c].nextvpid /\ r.cont = c /\ r.state = proc[p].state
    BY <1>2, <1>3, <2>1 DEF ProcRec
  <2>3. proc' = [proc EXCEPT ![p] = r]  BY <1>1, <2>1 DEF c
  <2> HIDE DEF r
  <2> QED  BY <2>1, <2>2, <2>3
<1>5. /\ cont' \in [Conts -> ContRec] /\ cont'[c].nextvpid = cont[c].nextvpid + 1
      /\ \A d \in Conts : d # c => cont'[d].nextvpid = cont[d].nextvpid
  <2> DEFINE r == AllocVpid([cont[c] EXCEPT !.state = "CRUNNING"])
  <2>1. r \in ContRec /\ r.nextvpid = cont[c].nextvpid + 1
    <3> DEFINE r0 == [cont[c] EXCEPT !.state = "CRUNNING"]
    <3>1. r0 \in ContRec /\ r0.nextvpid = cont[c].nextvpid  BY <1>3 DEF ContRec
    <3>2. r = [r0 EXCEPT !.nextvpid = r0.nextvpid + 1]  BY DEF AllocVpid
    <3> HIDE DEF r0, r
    <3> QED  BY <1>3, <3>1, <3>2 DEF ContRec
  <2>2. cont \in [Conts -> ContRec] /\ cont' = [cont EXCEPT ![c] = r]
    BY <1>1 DEF TypeOK, c
  <2> HIDE DEF r
  <2> QED  BY <1>2, <2>1, <2>2
<1>6. /\ pc'[p] = "idle" /\ loc' \in [Slots -> LocRec]
      /\ \A q \in Slots : q # p => pc'[q] = pc[q] /\ loc'[q] = loc[q]
  BY <1>1, NoLocRec, Zenon DEF TypeOK
<1>7. TypeOK'
  BY <1>1, <1>4, <1>5, <1>6 DEF TypeOK
<1>8. Forking' = Forking /\ \A q \in Forking : q # p /\ loc'[q] = loc[q]
  BY <1>1, <1>6 DEF Forking
<1>9. \A q \in Forking : loc[q].np # p
  BY <1>1 DEF InCall, Forking
<1>10. InCall'
  BY <1>1, <1>4, <1>6, <1>8, <1>9 DEF InCall, Forking
<1>11. SameCont'
  BY <1>1, <1>4, <1>6 DEF SameCont
<1>12. \A s \in Slots : s # p => (Own(s)' => Own(s))
  BY <1>4, <1>6, <1>8 DEF Own, Locked
<1>13. VpidsGiven'
  BY <1>1, <1>2, <1>4, <1>5, <1>7, <1>12, VpidStep
<1> QED  BY <1>7, <1>10, <1>11, <1>13 DEF IInv

(* The end of fork: the child goes, or has the next vpid of its container.  *)
LEMMA ForkJoinStep ==
    ASSUME IInv, NEW p \in Slots, ForkJoin(p)
    PROVE  IInv'
<1> DEFINE c == loc[p].c
           np == loc[p].np
           f == [proc[np] EXCEPT !.cont = c, !.vpid = cont[c].nextvpid]
<1>1. /\ TypeOK /\ InCall /\ SameCont /\ VpidsGiven /\ ~broken /\ pc[p] = "join"
      /\ UNCHANGED <<nextpid, ops, broken>>
      /\ pc' = [pc EXCEPT ![p] = "idle"] /\ loc' = [loc EXCEPT ![p] = NoLoc]
  BY DEF IInv, ForkJoin, In, Return, Goto
<1>2. /\ c \in Conts /\ np \in Slots /\ pc[np] = "idle" /\ np # p /\ p \in Forking
      /\ proc[np].state = "RUNNABLE" /\ proc[np] \in ProcRec
  BY <1>1 DEF TypeOK, LocRec, InCall, Forking
<1>3. cont[c] \in ContRec /\ cont[c].nextvpid \in Nat
  BY <1>1, <1>2 DEF TypeOK, ContRec
<1>4. \/ proc' = [proc EXCEPT ![np] = Freed(@)] /\ cont' = cont
      \/ /\ proc' = [proc EXCEPT ![np].cont = c, ![np].vpid = cont[c].nextvpid]
         /\ cont' = [cont EXCEPT ![c] = AllocVpid(@)]
  BY DEF ForkJoin
<1>5. f \in ProcRec /\ f.cont = c /\ f.vpid = cont[c].nextvpid /\ f.state = "RUNNABLE"
  BY <1>2, <1>3, Zenon DEF ProcRec
<1>6. \/ proc' = [proc EXCEPT ![np] = Freed(@)] /\ cont' = cont
      \/ proc' = [proc EXCEPT ![np] = f] /\ cont' = [cont EXCEPT ![c] = AllocVpid(@)]
  BY <1>1, <1>2, <1>4, Zenon DEF TypeOK
<1> HIDE DEF f, c, np
<1>7. AllocVpid(cont[c]) \in ContRec /\ AllocVpid(cont[c]).nextvpid = cont[c].nextvpid + 1
  BY <1>3 DEF ContRec, AllocVpid
<1>8. /\ pc'[p] = "idle" /\ loc' \in [Slots -> LocRec]
      /\ \A q \in Slots : q # p => pc'[q] = pc[q] /\ loc'[q] = loc[q]
  BY <1>1, NoLocRec, Zenon DEF TypeOK
<1>9. /\ proc' \in [Slots -> ProcRec]
      /\ \A s \in Slots : s # np => proc'[s] = proc[s]
      /\ proc'[np] = Freed(proc[np]) \/ proc'[np] = f
  BY <1>1, <1>2, <1>5, <1>6, FreedRec, Zenon DEF TypeOK
<1>10. cont' \in [Conts -> ContRec]
  BY <1>1, <1>2, <1>6, <1>7 DEF TypeOK
<1>11. TypeOK'
  BY <1>1, <1>8, <1>9, <1>10 DEF TypeOK
<1>12. Forking' = Forking \ {p} /\ \A q \in Forking \ {p} : loc'[q] = loc[q] /\ loc[q].np # np
  BY <1>1, <1>2, <1>8 DEF Forking, InCall, np
<1>13. InCall'
  BY <1>1, <1>2, <1>8, <1>9, <1>12 DEF InCall, Forking
<1>14. SameCont'
  BY <1>1, <1>2, <1>8, <1>9 DEF SameCont
<1>15. \A s \in Slots : s # np => (Own(s)' => Own(s))
  BY <1>1, <1>2, <1>8, <1>9, <1>12 DEF Own, Locked, np
<1>16. VpidsGiven'
  <2>1. CASE proc' = [proc EXCEPT ![np] = Freed(@)] /\ cont' = cont
    <3>1. proc'[np].state = "UNUSED"
      BY <1>1, <1>2, <2>1, FreedSlot, Zenon
    <3> QED  BY <1>1, <1>9, <1>15, <2>1, <3>1 DEF VpidsGiven, Own
  <2>2. CASE proc' = [proc EXCEPT ![np] = f] /\ cont' = [cont EXCEPT ![c] = AllocVpid(@)]
    <3>1. proc'[np] = f /\ cont'[c] = AllocVpid(cont[c])
          /\ \A d \in Conts : d # c => cont'[d] = cont[d]
      BY <1>1, <1>2, <2>2 DEF TypeOK
    <3> QED  BY <1>1, <1>2, <1>5, <1>7, <1>9, <1>11, <1>15, <3>1, VpidStep
  <2> QED  BY <1>6, <2>1, <2>2
<1> QED  BY <1>11, <1>13, <1>14, <1>16 DEF IInv

(* At the start vpids count the processes of a container in slot order.     *)
LEMMA InitIInv == Init => IInv
<1> SUFFICES ASSUME Init PROVE IInv
  OBVIOUS
<1> DEFINE n == Len(ops.start)
           At(s) == IF s <= n THEN ops.start[s] ELSE Root
           Upto(s) == {t \in 1 .. s : t <= n /\ At(t) = At(s)}
           All(c) == {t \in 1 .. n : At(t) = c}
<1>1. /\ ops \in Workloads /\ ops.start \in Seq(Conts) /\ n \in 1 .. NPROC /\ NPROC \in Nat
      /\ Root \in Conts
  BY ContainerAssumption DEF Init, Conts, Root
<1>2. \A s \in Slots : At(s) \in Conts
  BY <1>1 DEF Slots
<1>3. ASSUME NEW s \in Slots, s <= n
      PROVE  /\ Upto(s) \subseteq All(At(s))
             /\ \A t \in Slots : s < t /\ t <= n /\ At(t) = At(s) =>
                  Upto(s) \subseteq Upto(t) /\ Upto(s) # Upto(t)
  BY <1>1, <1>3 DEF Slots
<1>4. /\ \A s \in Slots : IsFiniteSet(Upto(s)) /\ Cardinality(Upto(s)) \in Nat
      /\ \A c \in Conts : IsFiniteSet(All(c)) /\ Cardinality(All(c)) \in Nat
  <2>1. \A m \in Nat : IsFiniteSet(1 .. m)
    BY FS_Interval
  <2>2. ASSUME NEW m \in Nat, NEW S, S \subseteq 1 .. m
        PROVE  IsFiniteSet(S) /\ Cardinality(S) \in Nat
    BY <2>1, <2>2, FS_Subset, FS_CardinalityType, Zenon
  <2>3. \A s \in Slots : Upto(s) \subseteq 1 .. s /\ s \in Nat
    BY <1>1 DEF Slots
  <2>4. \A c \in Conts : All(c) \subseteq 1 .. n
    OBVIOUS
  <2> HIDE DEF Upto, All, n
  <2>5. n \in Nat
    BY <1>1
  <2> QED  BY <2>2, <2>3, <2>4, <2>5
<1>5. /\ proc = [s \in Slots |->
           [state |-> IF s <= n THEN "RUNNABLE" ELSE "UNUSED",
            pid |-> IF s <= n THEN s ELSE 0,
            vpid |-> IF s <= n THEN Cardinality(Upto(s)) ELSE 0,
            cont |-> At(s), parent |-> IF s \in 2 .. n THEN InitProc ELSE NoSlot,
            killed |-> FALSE]]
      /\ cont = [c \in Conts |->
           [state |-> IF \E s \in 1 .. n : At(s) = c THEN "CRUNNING" ELSE "CUNUSED",
            nextvpid |-> 1 + Cardinality(All(c))]]
      /\ nextpid = n + 1 /\ pc = [s \in Slots |-> "idle"] /\ loc = [s \in Slots |-> NoLoc]
      /\ broken = FALSE
  BY DEF Init
<1>6. ASSUME NEW s \in Slots, s <= n
      PROVE  /\ Cardinality(Upto(s)) <= Cardinality(All(At(s)))
             /\ \A t \in Slots : s < t /\ t <= n /\ At(t) = At(s) =>
                  Cardinality(Upto(s)) # Cardinality(Upto(t))
  <2>1. /\ Upto(s) \subseteq All(At(s)) /\ IsFiniteSet(All(At(s)))
        /\ \A t \in Slots : IsFiniteSet(Upto(t))
        /\ \A t \in Slots : s < t /\ t <= n /\ At(t) = At(s) =>
             Upto(s) \subseteq Upto(t) /\ Upto(s) # Upto(t)
    BY <1>2, <1>3, <1>4, <1>6
  <2> HIDE DEF Upto, All, At, n
  <2>2. Cardinality(Upto(s)) <= Cardinality(All(At(s)))
    BY <2>1, FS_Subset
  <2>3. ASSUME NEW t \in Slots, s < t, t <= n, At(t) = At(s)
        PROVE  Cardinality(Upto(s)) # Cardinality(Upto(t))
    BY <2>1, <2>3, FS_Subset
  <2> QED  BY <2>2, <2>3
<1> HIDE DEF Upto, All, At, n
<1>7. TypeOK
  <2>1. /\ n \in Nat /\ InitProc \in 0 .. NPROC /\ NoSlot \in 0 .. NPROC
        /\ \A s \in Slots : s \in Nat
    BY <1>1 DEF InitProc, NoSlot, Slots
  <2>2. proc \in [Slots -> ProcRec]
    BY <1>2, <1>4, <1>5, <2>1 DEF ProcRec
  <2>3. cont \in [Conts -> ContRec]
    BY <1>4, <1>5 DEF ContRec
  <2>4. loc \in [Slots -> LocRec] /\ nextpid \in Nat
    <3>1. NoLoc \in LocRec  BY NoLocRec, Zenon
    <3>2. loc \in [Slots -> LocRec]  BY <1>5, <3>1
    <3>3. nextpid \in Nat  BY <1>5, <2>1
    <3> QED  BY <3>2, <3>3
  <2> QED  BY <1>1, <1>5, <2>2, <2>3, <2>4, Zenon DEF TypeOK
<1>8. InCall /\ SameCont
  BY <1>5 DEF InCall, SameCont, Forking
<1>9. VpidsGiven
  <2>1. \A s \in Slots : Own(s) => /\ s <= n /\ proc[s].cont = At(s)
                                   /\ proc[s].vpid = Cardinality(Upto(s))
    BY <1>5 DEF Own
  <2>2. ASSUME NEW s \in Slots, Own(s)
        PROVE  proc[s].vpid < cont[proc[s].cont].nextvpid
    BY <1>2, <1>4, <1>5, <1>6, <2>1, <2>2
  <2>3. ASSUME NEW s \in Slots, NEW t \in Slots, Own(s), Own(t),
               proc[t].cont = proc[s].cont, proc[t].vpid = proc[s].vpid
        PROVE  t = s
    <3>1. s < t \/ t < s \/ s = t  BY DEF Slots
    <3> QED  BY <1>6, <2>1, <2>3, <3>1
  <2> QED  BY <2>2, <2>3 DEF VpidsGiven
<1> QED  BY <1>7, <1>8, <1>9 DEF IInv

(* Every step keeps the invariant.                                          *)
LEMMA StepIInv == IInv /\ [Next]_vars => IInv'
<1> SUFFICES ASSUME IInv, [Next]_vars PROVE IInv'
  OBVIOUS
<1>1. CASE UNCHANGED vars
  BY <1>1 DEF vars, IInv, TypeOK, InCall, SameCont, VpidsGiven, Own, Locked, Forking
<1>2. CASE Next
  BY <1>2, ForkStep, ForkCountStep, ForkJoinStep, ExitStep, WaitStep, KillStep,
     KillReadStep, KillLockStep, CinitStep, CinitClaimStep, CstopStep, CstopFreeStep
     DEF Next
<1> QED  BY <1>1, <1>2

(* The invariant holds for any number of slots, CPUs and containers and for *)
(* any workload.                                                            *)
THEOREM Invariant == Spec => []IInv
BY InitIInv, StepIInv, PTL DEF Spec

(* allocvpid: two processes of a container never have the same vpid.        *)
THEOREM VpidsUniqueAlways == Spec => []VpidsUnique
<1>1. IInv => VpidsUnique
  BY DEF IInv, VpidsGiven, VpidsUnique, Own, Members, Counted
<1> QED  BY Invariant, <1>1, PTL

(* Nothing but kill marks a slot killed, and outside root kill marks only   *)
(* slots of the caller's container: the slot's container is looked at under *)
(* the slot's lock, and the caller's has not changed since the call began.  *)
THEOREM KillContainedAlways == Spec => KillContained
<1> DEFINE Contained ==
      \A s \in Slots : proc'[s].killed /\ ~proc[s].killed =>
        \E p \in Slots : MayMark(p, s)
<1>1. ASSUME IInv, Next PROVE Contained
  <2>1. TypeOK /\ SameCont /\ ~broken /\ proc \in [Slots -> ProcRec]
    BY <1>1, NotBroken DEF IInv, TypeOK
  <2>2. ASSUME NEW p \in Slots,
               \/ ForkCount(p) \/ Kill(p) \/ Balloc(p) \/ KillRead(p) \/ Cstop(p)
        PROVE  proc' = proc
    BY <2>2, Zenon DEF ForkCount, Kill, Balloc, KillRead, Cstop
  <2>3. ASSUME NEW p \in Slots, Fork(p) \/ Cinit(p) \/ CinitClaim(p) \/ Exit(p)
        PROVE  \A s \in Slots : proc'[s].killed => proc[s].killed
    <3>1. CASE Fork(p)  BY <2>1, <3>1 DEF Fork, ProcRec
    <3>2. CASE Cinit(p)  BY <2>1, <3>2 DEF Cinit, ProcRec
    <3>3. CASE CinitClaim(p)  BY <2>1, <3>3 DEF CinitClaim, ProcRec
    <3>4. CASE Exit(p)  BY <2>1, <3>4 DEF Exit, ProcRec
    <3> QED  BY <2>3, <3>1, <3>2, <3>3, <3>4
  <2>4. ASSUME NEW p \in Slots, Wait(p) \/ CstopFree(p)
        PROVE  \A s \in Slots : proc'[s].killed => proc[s].killed
    <3>1. loc[p].i \in Slots \/ Wait(p)  BY <2>1, <2>4, Zenon DEF TypeOK, CstopFree, In
    <3>2. proc' = proc \/ \E s \in Slots : proc' = [proc EXCEPT ![s] = Freed(@)]
      BY <2>4, <3>1, Zenon DEF Wait, CstopFree
    <3> QED  BY <2>1, <3>2, FreedSlot
  <2>5. ASSUME NEW p \in Slots, ForkJoin(p)
        PROVE  \A s \in Slots : proc'[s].killed => proc[s].killed
    <3>1. loc[p].np \in Slots  BY <1>1, <2>5 DEF IInv, InCall, Forking, ForkJoin, In
    <3>2. CASE Full(loc[p].n, loc[p].c)  BY <2>1, <2>5, <3>1, <3>2, FreedSlot DEF ForkJoin
    <3>3. CASE ~Full(loc[p].n, loc[p].c)  BY <2>1, <2>5, <3>1, <3>3 DEF ForkJoin, ProcRec
    <3> QED  BY <3>2, <3>3
  <2>6. ASSUME NEW p \in Slots, KillLock(p) PROVE Contained
    <3>1. /\ pc[p] = "killlock" /\ loc[p].i \in Slots /\ loc[p].c = proc[p].cont
          /\ DOMAIN pc = Slots
      BY <2>1, <2>6 DEF TypeOK, SameCont, KillLock, In
    <3>2. \/ proc' = proc
          \/ /\ proc' = [proc EXCEPT ![loc[p].i].killed = TRUE]
             /\ loc[p].c = Root \/ proc[loc[p].i].cont = loc[p].c
             /\ pc' = [pc EXCEPT ![p] = "idle"]
      BY <2>6 DEF KillLock, Outside, Return, Goto
    <3>3. \A s \in Slots : s # loc[p].i => proc'[s] = proc[s]
      BY <2>1, <3>1, <3>2
    <3> QED  BY <3>1, <3>2, <3>3 DEF MayMark
  <2> QED  BY <1>1, <2>2, <2>3, <2>4, <2>5, <2>6 DEF Next
<1>2. IInv /\ [Next]_vars => [Contained]_vars
  BY <1>1
<1> QED  BY Invariant, <1>2, PTL DEF Spec, KillContained

-----------------------------------------------------------------------------
(* What a fork in progress will have counted when numproc returns, if       *)
(* nothing changes but the children of forks.                               *)
From(M, i) == {s \in M : s >= i}
Sees(p) == loc[p].n + Cardinality(From(Members(loc[p].c), loc[p].i))

(* The forks of a container that will find it below a limit.                *)
Below(c, l) == {p \in Forking : loc[p].c = c /\ Sees(p) < l}

(* They do not take it too far over that limit. The limits above the        *)
(* container's own are there for the processes that leave after a fork has  *)
(* counted them.                                                            *)
RoomFor(c) ==
    \A l \in Nat : l >= Limit(c) /\ Below(c, l) # {} =>
      Cardinality(Members(c)) + Cardinality(Below(c, l)) <= l + NCPU - 1

(* numproc's cursor; fork's container is the caller's.                      *)
ForkCursor ==
    \A p \in Forking : /\ loc[p].c = proc[p].cont
                       /\ pc[p] = "count" => loc[p].i \in Slots
                       /\ pc[p] = "join" => loc[p].i = NPROC + 1

(* A process that has joined its container keeps cinit away from it.        *)
Claimed == \A s \in Slots : Own(s) => cont[proc[s].cont].state = "CRUNNING"

(* What the limit rests on.                                                 *)
LInv ==
    NeverStopped =>
      /\ ~broken /\ (\A p \in Slots : pc[p] # "cstop")
      /\ ForkCursor /\ Claimed
      /\ Cardinality(Forking) <= NCPU
      /\ \A c \in Conts : RoomFor(c)

-----------------------------------------------------------------------------
(* Sets of slots are finite.                                                *)
LEMMA SlotSets ==
    ASSUME NEW S \in SUBSET Slots
    PROVE  IsFiniteSet(S) /\ Cardinality(S) \in Nat
<1>1. IsFiniteSet(Slots)
  BY FS_Interval, ContainerAssumption DEF Slots
<1> QED  BY <1>1, FS_Subset, FS_CardinalityType

(* A part of a set of slots is no larger.                                   *)
LEMMA SlotSubset ==
    ASSUME NEW S \in SUBSET Slots, NEW T \in SUBSET S
    PROVE  Cardinality(T) <= Cardinality(S)
BY SlotSets, FS_Subset

(* One slot more or less.                                                   *)
LEMMA SlotLess ==
    ASSUME NEW S \in SUBSET Slots, NEW x
    PROVE  /\ x \in S => Cardinality(S \ {x}) = Cardinality(S) - 1
           /\ x \notin S => Cardinality(S \ {x}) = Cardinality(S)
           /\ x \notin S => Cardinality(S \cup {x}) = Cardinality(S) + 1
BY SlotSets, FS_RemoveElement, FS_AddElement

(* What is still to be counted, when a slot leaves or comes.                *)
LEMMA FromLess ==
    ASSUME NEW M \in SUBSET Slots, NEW i \in Nat, NEW x
    PROVE  /\ Cardinality(From(M, i)) \in Nat
           /\ Cardinality(From(M \ {x}, i)) \in Nat
           /\ Cardinality(From(M \ {x}, i)) >= Cardinality(From(M, i)) - 1
           /\ x \notin M => Cardinality(From(M \ {x}, i)) >= Cardinality(From(M, i))
<1>1. From(M, i) \in SUBSET Slots /\ From(M \ {x}, i) \in SUBSET Slots
  BY DEF From
<1>2. From(M \ {x}, i) = From(M, i) \ {x} /\ (x \in From(M, i) => x \in M)
  BY DEF From
<1> HIDE DEF From
<1>3. Cardinality(From(M, i)) \in Nat /\ Cardinality(From(M \ {x}, i)) \in Nat
  BY <1>1, SlotSets
<1>4. /\ x \in From(M, i) => Cardinality(From(M, i) \ {x}) = Cardinality(From(M, i)) - 1
      /\ x \notin From(M, i) => Cardinality(From(M, i) \ {x}) = Cardinality(From(M, i))
  BY <1>1, SlotLess
<1>5. CASE x \in From(M, i)
  BY <1>2, <1>3, <1>4, <1>5
<1>6. CASE x \notin From(M, i)
  <2>1. Cardinality(From(M \ {x}, i)) = Cardinality(From(M, i))
    BY <1>2, <1>4, <1>6, Zenon
  <2> QED  BY <1>3, <2>1
<1> QED  BY <1>5, <1>6

(* Types of the counts.                                                     *)
LEMMA Counts ==
    ASSUME TypeOK, NEW c \in Conts
    PROVE  /\ Limit(c) \in Nat /\ NCPU \in Nat /\ Members(c) \in SUBSET Slots
           /\ Cardinality(Members(c)) \in Nat
           /\ \A p \in Slots : /\ loc[p].i \in Nat /\ loc[p].n \in Nat /\ loc[p].c \in Conts
                               /\ Sees(p) \in Nat
           /\ \A l \in Nat : Below(c, l) \in SUBSET Slots /\ Cardinality(Below(c, l)) \in Nat
<1>1. Limit(c) \in Nat /\ NCPU \in Nat
  BY ContainerAssumption DEF Limit
<1>2. \A d : Members(d) \in SUBSET Slots
  BY DEF Members
<1>3. ASSUME NEW p \in Slots
      PROVE  loc[p].i \in Nat /\ loc[p].n \in Nat /\ loc[p].c \in Conts
  BY DEF TypeOK, LocRec
<1>4. ASSUME NEW p \in Slots PROVE Sees(p) \in Nat
  <2>1. From(Members(loc[p].c), loc[p].i) \in SUBSET Slots  BY <1>2 DEF From
  <2>2. Cardinality(From(Members(loc[p].c), loc[p].i)) \in Nat  BY <2>1, SlotSets
  <2> QED  BY <1>3, <2>2 DEF Sees
<1>5. \A l \in Nat : Below(c, l) \in SUBSET Slots
  BY DEF Below, Forking
<1> QED  BY <1>1, <1>2, <1>3, <1>4, <1>5, SlotSets

(* A step in which at most one process leaves the container, and no fork in *)
(* it sees more room than that.                                             *)
LEMMA RoomKeeps ==
    ASSUME TypeOK, TypeOK', NEW c \in Conts, RoomFor(c), NEW x,
           Members(c)' = Members(c) \ {x},
           \A p \in Forking' : loc'[p].c = c =>
             /\ p \in Forking /\ loc[p].c = c
             /\ Sees(p)' >= Sees(p) - (IF x \in Members(c) THEN 1 ELSE 0)
    PROVE  RoomFor(c)'
<1> DEFINE d == IF x \in Members(c) THEN 1 ELSE 0
<1> SUFFICES ASSUME NEW l \in Nat, l >= Limit(c), Below(c, l)' # {}
             PROVE  Cardinality(Members(c)') + Cardinality(Below(c, l)') <= l + NCPU - 1
  BY DEF RoomFor, Limit
<1>1. /\ Limit(c) \in Nat /\ NCPU \in Nat /\ Cardinality(Members(c)) \in Nat
      /\ Members(c) \in SUBSET Slots /\ \A p \in Slots : Sees(p) \in Nat
      /\ \A k \in Nat : Below(c, k) \in SUBSET Slots /\ Cardinality(Below(c, k)) \in Nat
  BY Counts
<1>2. \A p \in Slots : Sees(p)' \in Nat
  <2>1. \A p \in Slots : loc'[p].n \in Nat  BY DEF TypeOK, LocRec
  <2>2. \A p \in Slots : From(Members(loc[p].c), loc[p].i)' \in SUBSET Slots
    BY DEF From, Members
  <2> QED  BY <2>1, <2>2, SlotSets DEF Sees
<1>3. l + d \in Nat /\ l + d >= Limit(c)
  BY <1>1
<1>4. Below(c, l)' \subseteq Below(c, l + d)
  <2>1. ASSUME NEW p \in Below(c, l)' PROVE p \in Below(c, l + d)
    <3>1. p \in Forking' /\ loc'[p].c = c /\ Sees(p)' < l /\ p \in Slots
      BY <2>1 DEF Below, Forking
    <3>2. p \in Forking /\ loc[p].c = c /\ Sees(p)' >= Sees(p) - d
      BY <3>1
    <3>3. Sees(p) < l + d
      BY <1>1, <1>2, <3>1, <3>2
    <3> QED  BY <3>2, <3>3 DEF Below
  <2> QED  BY <2>1
<1>5. Cardinality(Members(c)') = Cardinality(Members(c)) - d
  <2>1. CASE x \in Members(c)  BY <1>1, <2>1, SlotLess, ZenonT(30)
  <2>2. CASE x \notin Members(c)
    <3>1. Cardinality(Members(c)') = Cardinality(Members(c))  BY <1>1, <2>2, SlotLess, Zenon
    <3>2. d = 0  BY <2>2
    <3> HIDE DEF d
    <3> QED  BY <1>1, <3>1, <3>2
  <2> QED  BY <2>1, <2>2
<1> HIDE DEF d
<1>6. Cardinality(Members(c)) + Cardinality(Below(c, l + d)) <= l + d + NCPU - 1
  BY <1>3, <1>4 DEF RoomFor
<1>7. Cardinality(Below(c, l)') <= Cardinality(Below(c, l + d))
  BY <1>1, <1>3, <1>4, SlotSubset
<1>8. Cardinality(Below(c, l)') \in Nat /\ d \in Nat
  <2>1. Below(c, l)' \in SUBSET Slots  BY <1>1, <1>3, <1>4
  <2> QED  BY <2>1, SlotSets DEF d
<1> QED  BY <1>1, <1>3, <1>5, <1>6, <1>7, <1>8

(* The same for steps that leave the forks alone or end some.               *)
LEMMA RoomLeft ==
    ASSUME TypeOK, TypeOK', NEW c \in Conts, RoomFor(c), NEW x,
           Members(c)' = Members(c) \ {x},
           \A p \in Forking' : p \in Forking /\ loc'[p] = loc[p]
    PROVE  RoomFor(c)'
<1>1. ASSUME NEW p \in Forking', loc'[p].c = c
      PROVE  /\ p \in Forking /\ loc[p].c = c
             /\ Sees(p)' >= Sees(p) - (IF x \in Members(c) THEN 1 ELSE 0)
  <2>1. p \in Slots /\ loc'[p] = loc[p] /\ p \in Forking  BY <1>1 DEF Forking
  <2>2. loc[p].n \in Nat /\ loc[p].i \in Nat /\ Members(c) \in SUBSET Slots  BY <2>1, Counts
  <2>3. Sees(p)' = loc[p].n + Cardinality(From(Members(c) \ {x}, loc[p].i))
    BY <1>1, <2>1 DEF Sees
  <2>4. Sees(p) = loc[p].n + Cardinality(From(Members(c), loc[p].i))
    BY <1>1, <2>1 DEF Sees
  <2>5. /\ Cardinality(From(Members(c), loc[p].i)) \in Nat
        /\ Cardinality(From(Members(c) \ {x}, loc[p].i)) \in Nat
        /\ Cardinality(From(Members(c) \ {x}, loc[p].i)) >=
             Cardinality(From(Members(c), loc[p].i)) - 1
        /\ x \notin Members(c) => Cardinality(From(Members(c) \ {x}, loc[p].i)) >=
                                    Cardinality(From(Members(c), loc[p].i))
    BY <2>2, FromLess, Zenon
  <2> QED  BY <1>1, <2>1, <2>2, <2>3, <2>4, <2>5
<1> QED  BY <1>1, RoomKeeps

(* A step that leaves the forks alone, takes at most one slot x out of the  *)
(* table and lets nobody into a container that is not running.              *)
LEMMA QuietStep ==
    ASSUME TypeOK, TypeOK', LInv, ops' = ops, ~broken', NEW x,
           \A p \in Slots : pc'[p] # "cstop",
           Forking' = Forking, \A p \in Forking : pc'[p] = pc[p] /\ loc'[p] = loc[p],
           \A s \in Slots : /\ proc'[s].cont = proc[s].cont
                            /\ proc'[s].state # "UNUSED" <=> proc[s].state # "UNUSED" /\ s # x,
           \A s \in Slots : Own(s)' => Own(s) \/ cont'[proc[s].cont].state = "CRUNNING",
           \A c \in Conts : cont[c].state = "CRUNNING" => cont'[c].state = "CRUNNING"
    PROVE  LInv'
<1> SUFFICES ASSUME NeverStopped PROVE LInv'
  BY DEF LInv, NeverStopped
<1>1. /\ ForkCursor /\ Claimed /\ Cardinality(Forking) <= NCPU
      /\ \A c \in Conts : RoomFor(c)
  BY DEF LInv
<1>2. \A s \in Slots : Locked(s)' <=> Locked(s)
  BY DEF Locked
<1>3. ForkCursor'
  <2>1. \A p \in Forking : p \in Slots  BY DEF Forking
  <2> QED  BY <1>1, <2>1 DEF ForkCursor
<1>4. Claimed'
  <2>1. \A s \in Slots : proc[s].cont \in Conts  BY DEF TypeOK, ProcRec
  <2> QED  BY <1>1, <2>1 DEF Claimed
<1>5. ASSUME NEW c \in Conts PROVE RoomFor(c)'
  <2>1. Members(c)' = Members(c) \ {x}  BY <1>2 DEF Members, Counted
  <2> QED  BY <1>1, <2>1, RoomLeft, Zenon
<1> QED  BY <1>1, <1>3, <1>4, <1>5 DEF LInv

(* The steps in which nothing but the place in a call changes.              *)
LEMMA KillLimits ==
    ASSUME IInv, IInv', LInv, NeverStopped, NEW p \in Slots,
           Kill(p) \/ Balloc(p) \/ KillRead(p) \/ KillLock(p)
    PROVE  LInv'
<1>1. TypeOK /\ TypeOK' /\ ~broken /\ broken' = broken /\ ops' = ops /\ cont' = cont
  BY NotBroken, Zenon DEF IInv, Kill, Balloc, KillRead, KillLock, Next, Calls, Idle, In
<1>2. /\ \A q \in Slots : q # p => pc'[q] = pc[q] /\ loc'[q] = loc[q]
      /\ pc[p] \in {"idle", "killread", "killlock"}
      /\ pc'[p] \in {"idle", "killread", "killlock"}
  BY <1>1, ZenonT(30) DEF TypeOK, Kill, Balloc, KillRead, KillLock, Calls, Idle, In, Goto, Return
<1>3. \A s \in Slots : proc'[s].cont = proc[s].cont /\ proc'[s].state = proc[s].state
  <2>1. proc' = proc \/ \E s \in Slots : proc' = [proc EXCEPT ![s].killed = TRUE]
    <3>1. pc[p] = "killlock" => loc[p].i \in Slots  BY <1>1 DEF TypeOK
    <3> QED  BY <3>1, Zenon DEF Kill, Balloc, KillRead, KillLock, In
  <2> QED  BY <1>1, <2>1 DEF TypeOK, ProcRec
<1>4. Forking' = Forking /\ \A q \in Forking : q # p /\ q \in Slots
  BY <1>2 DEF Forking
<1>5. \A s \in Slots : Own(s)' => Own(s)
  <2>1. \A s \in Slots : Locked(s)' <=> Locked(s)  BY <1>2, <1>4 DEF Locked
  <2> QED  BY <1>2, <1>3, <2>1 DEF Own
<1>6. \A s \in Slots : /\ proc'[s].cont = proc[s].cont
                       /\ proc'[s].state # "UNUSED" <=> proc[s].state # "UNUSED" /\ s # NoSlot
  BY <1>3 DEF NoSlot, Slots
<1>7. ~broken' /\ \A q \in Slots : pc'[q] # "cstop"
  BY <1>1, <1>2 DEF LInv
<1>8. \A q \in Forking : pc'[q] = pc[q] /\ loc'[q] = loc[q]
  BY <1>2, <1>4
<1> QED  BY <1>1, <1>4, <1>5, <1>6, <1>7, <1>8, QuietStep, Zenon

(* exit makes a zombie, which still counts; wait frees it.                  *)
LEMMA ExitLimits ==
    ASSUME IInv, IInv', LInv, NeverStopped, NEW p \in Slots, Exit(p) \/ Wait(p)
    PROVE  LInv'
<1>1. /\ TypeOK /\ TypeOK' /\ ~broken /\ UNCHANGED <<cont, pc, loc, ops, broken>>
      /\ proc[p].state = "RUNNABLE"
  BY DEF IInv, Exit, Wait, Idle
<1>2. PICK x \in 0 .. NPROC :
        \A s \in Slots : /\ proc'[s].cont = proc[s].cont
                         /\ proc'[s].state # "UNUSED" <=> proc[s].state # "UNUSED" /\ s # x
  <2>1. CASE Exit(p)
    <3>1. \A s \in Slots : /\ proc'[s].cont = proc[s].cont
                           /\ proc'[s].state # "UNUSED" <=> proc[s].state # "UNUSED"
      BY <1>1, <2>1 DEF Exit, TypeOK, ProcRec
    <3>2. 0 \in 0 .. NPROC /\ 0 \notin Slots  BY ContainerAssumption DEF Slots
    <3> QED  BY <3>1, <3>2
  <2>2. CASE Wait(p)
    <3>1. PICK s \in Slots : proc' = [proc EXCEPT ![s] = Freed(@)]  BY <2>2, Zenon DEF Wait
    <3>2. s \in 0 .. NPROC  BY DEF Slots
    <3> QED  BY <1>1, <3>1, <3>2, FreedSlot, Zenon
  <2> QED  BY <2>1, <2>2
<1>3. Forking' = Forking /\ \A s \in Slots : Locked(s)' <=> Locked(s)
  BY <1>1 DEF Forking, Locked
<1>4. \A s \in Slots : Own(s)' => Own(s)
  BY <1>1, <1>2, <1>3 DEF Own
<1>5. \A q \in Slots : pc'[q] # "cstop"
  BY <1>1 DEF LInv
<1> QED  BY <1>1, <1>2, <1>3, <1>4, <1>5, QuietStep

(* cinit ends: the container it chose is running.                           *)
LEMMA ClaimLimits ==
    ASSUME IInv, IInv', LInv, NeverStopped, NEW p \in Slots, CinitClaim(p)
    PROVE  LInv'
<1> DEFINE c == loc[p].c
<1>1. /\ TypeOK /\ TypeOK' /\ SameCont /\ ~broken /\ ~broken' /\ ops' = ops /\ pc[p] = "cinit"
      /\ proc' = [proc EXCEPT ![p].vpid = cont[c].nextvpid]
      /\ cont' = [cont EXCEPT ![c] = AllocVpid([@ EXCEPT !.state = "CRUNNING"])]
      /\ pc' = [pc EXCEPT ![p] = "idle"] /\ loc' = [loc EXCEPT ![p] = NoLoc]
  BY DEF IInv, CinitClaim, In, Return, Goto
<1>2. c \in Conts /\ proc[p].cont = c
  BY <1>1 DEF TypeOK, LocRec, SameCont
<1>3. \A d \in Conts : cont'[d].state = IF d = c THEN "CRUNNING" ELSE cont[d].state
  <2>1. cont[c] \in ContRec  BY <1>1, <1>2 DEF TypeOK
  <2>2. AllocVpid([cont[c] EXCEPT !.state = "CRUNNING"]).state = "CRUNNING"
    BY <2>1 DEF AllocVpid, ContRec
  <2> QED  BY <1>1, <1>2, <2>2 DEF TypeOK
<1>4. \A s \in Slots : proc'[s].cont = proc[s].cont /\ proc'[s].state = proc[s].state
  BY <1>1 DEF TypeOK, ProcRec
<1>5. \A q \in Slots : pc'[q] = IF q = p THEN "idle" ELSE pc[q]
  BY <1>1 DEF TypeOK
<1>6. Forking' = Forking /\ \A q \in Forking : pc'[q] = pc[q] /\ loc'[q] = loc[q]
  BY <1>1, <1>5 DEF Forking, TypeOK
<1>7. \A s \in Slots : Locked(s)' <=> Locked(s)
  BY <1>6 DEF Locked
<1>8. \A s \in Slots : Own(s)' => Own(s) \/ cont'[proc[s].cont].state = "CRUNNING"
  BY <1>2, <1>3, <1>4, <1>5, <1>7 DEF Own
<1>9. \A s \in Slots : /\ proc'[s].cont = proc[s].cont
                       /\ proc'[s].state # "UNUSED" <=> proc[s].state # "UNUSED" /\ s # NoSlot
  BY <1>4 DEF NoSlot, Slots
<1>10. \A q \in Slots : pc'[q] # "cstop"
  BY <1>5 DEF LInv
<1>11. \A d \in Conts : cont[d].state = "CRUNNING" => cont'[d].state = "CRUNNING"
  BY <1>3
<1>12. TypeOK /\ TypeOK' /\ ~broken' /\ ops' = ops
  BY <1>1
<1> QED  BY <1>6, <1>8, <1>9, <1>10, <1>11, <1>12, QuietStep

(* cinit leaves its container and goes to one that nobody forks in.         *)
LEMMA CinitLimits ==
    ASSUME IInv, IInv', LInv, NeverStopped, NEW p \in Slots, Cinit(p)
    PROVE  LInv'
<1>1. /\ TypeOK /\ TypeOK' /\ InCall /\ ~broken /\ pc[p] = "idle" /\ ~Locked(p)
      /\ UNCHANGED <<cont, ops, broken>>
      /\ ForkCursor /\ Claimed /\ Cardinality(Forking) <= NCPU
      /\ \A d \in Conts : RoomFor(d)
      /\ \A q \in Slots : pc[q] # "cstop"
  BY DEF IInv, LInv, Cinit, Calls, Idle
<1>2. PICK c \in Conts : /\ cont[c].state = "CUNUSED"
                         /\ proc' = [proc EXCEPT ![p].cont = c]
                         /\ Goto(p, "cinit", [NoLoc EXCEPT !.c = c])
  BY Zenon DEF Cinit
<1>3. /\ \A s \in Slots : s # p => proc'[s] = proc[s]
      /\ proc'[p].cont = c /\ proc'[p].state = proc[p].state
  BY <1>1, <1>2 DEF TypeOK, ProcRec
<1>4. pc'[p] = "cinit" /\ \A q \in Slots : q # p => pc'[q] = pc[q] /\ loc'[q] = loc[q]
  BY <1>1, <1>2 DEF TypeOK, Goto
<1>5. /\ Forking' = Forking
      /\ \A q \in Forking : q \in Slots /\ q # p /\ pc'[q] = pc[q] /\ loc'[q] = loc[q]
  BY <1>1, <1>4 DEF Forking
<1>6. \A s \in Slots : Locked(s)' <=> Locked(s)
  BY <1>5 DEF Locked
<1>7. ForkCursor'
  BY <1>1, <1>3, <1>5 DEF ForkCursor
<1>8. Claimed'
  BY <1>1, <1>3, <1>4, <1>6 DEF Claimed, Own
<1>9. \A q \in Forking : loc[q].c # c
  <2>1. ASSUME NEW q \in Forking PROVE Own(q) /\ loc[q].c = proc[q].cont
    BY <1>1 DEF ForkCursor, InCall, Own, Forking, Locked
  <2> QED  BY <1>1, <1>2, <1>5, <2>1 DEF Claimed
<1>10. ASSUME NEW d \in Conts PROVE RoomFor(d)'
  <2>1. CASE d = c
    <3>1. \A l \in Nat : Below(c, l)' = {}  BY <1>5, <1>9 DEF Below
    <3> QED  BY <2>1, <3>1 DEF RoomFor
  <2>2. CASE d # c
    <3>1. Members(d)' = Members(d) \ {p}  BY <1>3, <1>6, <2>2 DEF Members, Counted
    <3> QED  BY <1>1, <1>5, <3>1, RoomLeft
  <2> QED  BY <2>1, <2>2
<1>11. \A q \in Slots : pc'[q] # "cstop"
  BY <1>1, <1>4
<1> QED  BY <1>1, <1>5, <1>7, <1>8, <1>10, <1>11 DEF LInv

(* fork begins: there is a CPU for it, and all members are to be counted.   *)
LEMMA ForkLimits ==
    ASSUME IInv, IInv', LInv, NeverStopped, NEW p \in Slots, Fork(p)
    PROVE  LInv'
<1>1. /\ TypeOK /\ TypeOK' /\ InCall /\ ~broken /\ pc[p] = "idle"
      /\ UNCHANGED <<cont, ops, broken>>
      /\ ForkCursor /\ Claimed /\ Cardinality(Forking) < NCPU
      /\ \A d \in Conts : RoomFor(d)
      /\ \A q \in Slots : pc[q] # "cstop"
  BY DEF IInv, LInv, Fork, Calls, Idle
<1>2. PICK np \in Slots :
        /\ proc[np].state = "UNUSED"
        /\ proc' = [proc EXCEPT ![np].state = "RUNNABLE", ![np].pid = nextpid,
                                ![np].parent = p]
        /\ Goto(p, "count", [NoLoc EXCEPT !.np = np, !.i = 1, !.c = proc[p].cont])
  BY Zenon DEF Fork
<1>3. /\ \A s \in Slots : s # np => proc'[s] = proc[s]
      /\ \A s \in Slots : proc'[s].cont = proc[s].cont
  BY <1>1, <1>2 DEF TypeOK, ProcRec
<1>4. /\ pc'[p] = "count" /\ loc'[p].np = np /\ loc'[p].i = 1 /\ loc'[p].n = 0
      /\ loc'[p].c = proc[p].cont
      /\ \A q \in Slots : q # p => pc'[q] = pc[q] /\ loc'[q] = loc[q]
  BY <1>1, <1>2 DEF TypeOK, Goto, NoLoc
<1>5. /\ Forking' = Forking \cup {p} /\ p \notin Forking /\ Forking \in SUBSET Slots
      /\ \A q \in Forking : q # p /\ pc'[q] = pc[q] /\ loc'[q] = loc[q]
  BY <1>1, <1>4 DEF Forking
<1>6. ~Locked(np) /\ \A s \in Slots : Locked(s)' <=> Locked(s) \/ s = np
  BY <1>1, <1>2, <1>4, <1>5 DEF Locked, InCall, Forking
<1>7. Cardinality(Forking') <= NCPU
  <2>1. Cardinality(Forking') = Cardinality(Forking) + 1 /\ Cardinality(Forking) \in Nat
    BY <1>5, SlotLess, SlotSets
  <2> QED  BY <1>1, <2>1, ContainerAssumption
<1>8. ForkCursor'
  <2>1. 1 \in Slots  BY ContainerAssumption DEF Slots
  <2> QED  BY <1>1, <1>3, <1>4, <1>5, <2>1 DEF ForkCursor
<1>9. Claimed'
  <2>1. \A s \in Slots : Own(s)' => Own(s)  BY <1>3, <1>4, <1>6, <1>1 DEF Own
  <2> QED  BY <1>1, <1>3, <2>1 DEF Claimed
<1>10. \A d \in Conts : Members(d)' = Members(d)
  BY <1>2, <1>3, <1>6, Zenon DEF Members, Counted
<1>11. ASSUME NEW q \in Forking PROVE Sees(q)' = Sees(q)
  <2>1. loc'[q] = loc[q] /\ loc[q].c \in Conts  BY <1>1, <1>5 DEF TypeOK, LocRec
  <2> QED  BY <1>10, <2>1 DEF Sees
<1>12. Sees(p)' = Cardinality(Members(proc[p].cont)) /\ proc[p].cont \in Conts
  <2>1. proc[p].cont \in Conts  BY <1>1 DEF TypeOK, ProcRec
  <2>2. Members(proc[p].cont) \in SUBSET Slots  BY DEF Members
  <2>3. From(Members(proc[p].cont), 1) = Members(proc[p].cont)  BY <2>2 DEF From, Slots
  <2>4. Sees(p)' = 0 + Cardinality(From(Members(proc[p].cont), 1))
    BY <1>4, <1>10, <2>1 DEF Sees
  <2> QED  BY <2>1, <2>2, <2>3, <2>4, SlotSets
<1>13. ASSUME NEW c \in Conts PROVE RoomFor(c)'
  <2> SUFFICES ASSUME NEW l \in Nat, l >= Limit(c), Below(c, l)' # {}
               PROVE  Cardinality(Members(c)') + Cardinality(Below(c, l)') <= l + NCPU - 1
    BY DEF RoomFor, Limit
  <2>1. CASE p \in Below(c, l)'
    <3>1. Cardinality(Members(c)) < l /\ c = proc[p].cont
      BY <1>4, <1>12, <2>1 DEF Below
    <3>2. Below(c, l)' \in SUBSET Forking' /\ Forking' \in SUBSET Slots
      BY DEF Below, Forking
    <3>3. Cardinality(Below(c, l)') <= Cardinality(Forking')
      BY <3>2, SlotSubset
    <3>4. Cardinality(Below(c, l)') \in Nat /\ Cardinality(Forking') \in Nat
          /\ Cardinality(Members(c)) \in Nat /\ NCPU \in Nat
      <4>1. Below(c, l)' \in SUBSET Slots  BY <3>2
      <4> QED  BY <1>1, <3>2, <4>1, SlotSets, Counts
    <3> QED  BY <1>7, <1>10, <3>1, <3>3, <3>4
  <2>2. CASE p \notin Below(c, l)'
    <3>1. Below(c, l)' = Below(c, l)
      BY <1>5, <1>11, <2>2 DEF Below
    <3> QED  BY <1>1, <1>10, <3>1 DEF RoomFor
  <2> QED  BY <2>1, <2>2
<1>14. ~broken' /\ \A q \in Slots : pc'[q] # "cstop"
  BY <1>1, <1>4
<1> QED  BY <1>7, <1>8, <1>9, <1>13, <1>14 DEF LInv

(* numproc counts the slot it looks at if it is a member, and goes past it. *)
LEMMA CountLimits ==
    ASSUME IInv, IInv', LInv, NeverStopped, NEW p \in Slots, ForkCount(p)
    PROVE  LInv'
<1> DEFINE i == loc[p].i
           c == loc[p].c
           m == IF Counted(i, c) THEN 1 ELSE 0
<1>1. /\ TypeOK /\ TypeOK' /\ ~broken /\ pc[p] = "count"
      /\ UNCHANGED <<proc, cont, ops, broken>>
      /\ ForkCursor /\ Claimed /\ Cardinality(Forking) <= NCPU
      /\ \A d \in Conts : RoomFor(d)
      /\ \A q \in Slots : pc[q] # "cstop"
  BY DEF IInv, LInv, ForkCount, In
<1>2. p \in Forking /\ i \in Slots /\ loc[p] \in LocRec /\ NPROC \in Nat
  BY <1>1, ContainerAssumption DEF Forking, ForkCursor, TypeOK
<1>3. /\ pc' = [pc EXCEPT ![p] = IF i = NPROC THEN "join" ELSE "count"]
      /\ loc' = [loc EXCEPT ![p] = [loc[p] EXCEPT !.i = i + 1, !.n = loc[p].n + m]]
  BY DEF ForkCount, Goto
<1>4. /\ loc'[p].i = i + 1 /\ loc'[p].n = loc[p].n + m /\ loc'[p].c = c /\ loc'[p].np = loc[p].np
      /\ pc'[p] = (IF i = NPROC THEN "join" ELSE "count")
      /\ \A q \in Slots : q # p => pc'[q] = pc[q] /\ loc'[q] = loc[q]
  BY <1>1, <1>2, <1>3 DEF TypeOK, LocRec
<1>5. Forking' = Forking /\ \A q \in Forking : q \in Slots /\ loc'[q].np = loc[q].np
  BY <1>2, <1>4 DEF Forking
<1>6. \A s \in Slots : Locked(s)' <=> Locked(s)
  BY <1>5 DEF Locked
<1>7. ForkCursor'
  <2>1. i # NPROC => i + 1 \in Slots  BY <1>2 DEF Slots
  <2>2. ASSUME NEW q \in Forking
        PROVE  /\ loc'[q].c = proc'[q].cont
               /\ pc'[q] = "count" => loc'[q].i \in Slots
               /\ pc'[q] = "join" => loc'[q].i = NPROC + 1
    <3>1. CASE q = p  BY <1>1, <1>2, <1>4, <2>1, <3>1 DEF ForkCursor
    <3>2. CASE q # p  BY <1>1, <1>4, <1>5, <3>2 DEF ForkCursor
    <3> QED  BY <3>1, <3>2
  <2> QED  BY <1>5, <2>2 DEF ForkCursor
<1>8. Claimed'
  <2>1. \A s \in Slots : Own(s)' => Own(s)  BY <1>1, <1>4, <1>6 DEF Own
  <2> QED  BY <1>1, <2>1 DEF Claimed
<1>9. \A d \in Conts : Members(d)' = Members(d) \ {NoSlot}
  BY <1>1, <1>6 DEF Members, Counted, NoSlot, Slots
<1>10. \A d \in Conts : Members(d) \in SUBSET Slots /\ NoSlot \notin Members(d)
  BY DEF Members, NoSlot, Slots
<1>11. Sees(p)' >= Sees(p)
  <2>1. c \in Conts /\ loc[p].n \in Nat  BY <1>2 DEF LocRec
  <2>2. Members(c)' = Members(c)
    <3>1. PICK e \in Conts : e = c  BY <2>1
    <3>2. Members(e)' = Members(e)  BY <1>9, <1>10
    <3>3. c' = e  BY <1>4, <3>1
    <3> QED  BY <3>1, <3>2, <3>3 DEF Members, Counted
  <2>3. /\ From(Members(c), i + 1) = From(Members(c), i) \ {i}
        /\ From(Members(c), i) \in SUBSET Slots
        /\ i \in From(Members(c), i) => Counted(i, c)
    <3>1. Members(c) \in SUBSET Slots /\ \A s \in Slots : s \in Nat  BY <1>10, <2>1 DEF Slots
    <3> QED  BY <1>2, <3>1 DEF From, Members
  <2>4. Sees(p)' = loc[p].n + m + Cardinality(From(Members(c), i) \ {i})
    BY <1>4, <2>2, <2>3 DEF Sees
  <2>5. Sees(p) = loc[p].n + Cardinality(From(Members(c), i))
    BY DEF Sees
  <2> DEFINE F == From(Members(c), i)
  <2>6. Cardinality(F) \in Nat /\ Cardinality(F \ {i}) \in Nat
    BY <2>3, SlotSets
  <2> HIDE DEF F, i, c
  <2>7. CASE i \in F
    <3>1. Cardinality(F \ {i}) = Cardinality(F) - 1  BY <2>3, <2>7, SlotLess DEF F
    <3>2. m = 1  BY <2>3, <2>7 DEF F
    <3> HIDE DEF m
    <3> QED  BY <2>1, <2>4, <2>5, <2>6, <3>1, <3>2 DEF F
  <2>8. CASE i \notin F
    <3>1. Cardinality(F \ {i}) = Cardinality(F)  BY <2>3, <2>8, SlotLess DEF F
    <3>2. m \in Nat  OBVIOUS
    <3> HIDE DEF m
    <3> QED  BY <2>1, <2>4, <2>5, <2>6, <3>1, <3>2 DEF F
  <2> QED  BY <2>7, <2>8
<1>12. ASSUME NEW q \in Forking, q # p PROVE Sees(q)' = Sees(q)
  <2>1. loc'[q] = loc[q] /\ loc[q].c \in Conts  BY <1>1, <1>4, <1>5, <1>12 DEF TypeOK, LocRec
  <2>2. Members(loc[q].c)' = Members(loc[q].c)
    BY <1>9, <1>10, <2>1
  <2> QED  BY <2>1, <2>2 DEF Sees
<1>13. ASSUME NEW d \in Conts PROVE RoomFor(d)'
  <2>1. \A q \in Slots : Sees(q) \in Nat
    BY <1>1, Counts
  <2>2. ASSUME NEW q \in Forking', loc'[q].c = d
        PROVE  /\ q \in Forking /\ loc[q].c = d
               /\ Sees(q)' >= Sees(q) - (IF NoSlot \in Members(d) THEN 1 ELSE 0)
    <3>1. q \in Forking /\ loc[q].c = d /\ Sees(q) \in Nat
      BY <1>4, <1>5, <2>1, <2>2
    <3>2. Sees(q)' >= Sees(q)
      BY <1>11, <1>12, <3>1
    <3>3. (IF NoSlot \in Members(d) THEN 1 ELSE 0) = 0
      BY <1>10
    <3>4. Sees(q) - 0 = Sees(q)
      BY <3>1
    <3> QED  BY <3>1, <3>2, <3>3, <3>4
  <2>3. Members(d)' = Members(d) \ {NoSlot} /\ RoomFor(d) /\ TypeOK /\ TypeOK'
    BY <1>1, <1>9
  <2> QED  BY <2>2, <2>3, RoomKeeps
<1>14. ~broken' /\ \A q \in Slots : pc'[q] # "cstop"
  BY <1>1, <1>4
<1> QED  BY <1>1, <1>5, <1>7, <1>8, <1>13, <1>14 DEF LInv

(* The fork that lets its child in was one of those that would: the others  *)
(* lose the room it takes.                                                  *)
LEMMA RoomTaken ==
    ASSUME TypeOK, TypeOK', NEW c \in Conts, RoomFor(c),
           NEW p \in Forking, loc[p].c = c, Sees(p) < Limit(c),
           NEW np \in Slots, np \notin Members(c), Members(c)' = Members(c) \cup {np},
           Forking' = Forking \ {p}, \A q \in Forking' : loc'[q] = loc[q]
    PROVE  RoomFor(c)' /\ Cardinality(Members(c)') <= Limit(c) + NCPU - 1
<1>1. /\ Limit(c) \in Nat /\ NCPU \in Nat /\ Cardinality(Members(c)) \in Nat
      /\ Members(c) \in SUBSET Slots /\ \A q \in Slots : Sees(q) \in Nat
      /\ \A q \in Slots : loc[q].i \in Nat /\ loc[q].n \in Nat
      /\ \A k \in Nat : Below(c, k) \in SUBSET Slots /\ Cardinality(Below(c, k)) \in Nat
  BY Counts
<1>2. Cardinality(Members(c)') = Cardinality(Members(c)) + 1
  <2>1. Cardinality(Members(c) \cup {np}) = Cardinality(Members(c)) + 1  BY <1>1, SlotLess, Zenon
  <2> QED  BY <2>1
<1>3. ASSUME NEW l \in Nat, l >= Limit(c)
      PROVE  /\ p \in Below(c, l)
             /\ Cardinality(Below(c, l) \ {p}) = Cardinality(Below(c, l)) - 1
             /\ Cardinality(Members(c)) + Cardinality(Below(c, l)) <= l + NCPU - 1
  <2>1. p \in Below(c, l)
    <3>1. Sees(p) \in Nat  BY <1>1 DEF Forking
    <3>2. Sees(p) < l  BY <1>1, <1>3, <3>1
    <3> QED  BY <3>2 DEF Below
  <2>2. Cardinality(Below(c, l) \ {p}) = Cardinality(Below(c, l)) - 1
    BY <1>1, <2>1, SlotLess, Zenon
  <2> QED  BY <1>3, <2>1, <2>2 DEF RoomFor
<1>4. ASSUME NEW q \in Forking', loc'[q].c = c
      PROVE  q \in Slots /\ q \in Forking \ {p} /\ loc[q].c = c /\ Sees(q) <= Sees(q)'
             /\ Sees(q)' \in Nat
  <2>1. q \in Slots /\ q \in Forking \ {p} /\ loc'[q] = loc[q] /\ loc[q].c = c
    BY <1>4 DEF Forking
  <2> DEFINE F == From(Members(c), loc[q].i)
             G == From(Members(c) \cup {np}, loc[q].i)
  <2>2. F \in SUBSET G /\ F \in SUBSET Slots /\ G \in SUBSET Slots
    BY <1>1 DEF From
  <2>3. Sees(q) = loc[q].n + Cardinality(F) /\ Sees(q)' = loc[q].n + Cardinality(G)
    BY <1>4, <2>1 DEF Sees
  <2> HIDE DEF F, G
  <2>4. Cardinality(F) <= Cardinality(G) /\ Cardinality(F) \in Nat /\ Cardinality(G) \in Nat
    BY <2>2, SlotSubset, SlotSets
  <2> QED  BY <1>1, <2>1, <2>3, <2>4
<1>5. ASSUME NEW l \in Nat, l >= Limit(c)
      PROVE  Cardinality(Members(c)') + Cardinality(Below(c, l)') <= l + NCPU - 1
  <2>1. Below(c, l)' \subseteq Below(c, l) \ {p}
    <3>1. ASSUME NEW q \in Below(c, l)' PROVE q \in Below(c, l) /\ q # p
      <4>1. q \in Forking' /\ loc'[q].c = c /\ Sees(q)' < l  BY <3>1 DEF Below
      <4>2. Sees(q) < l /\ q \in Forking /\ q # p /\ loc[q].c = c
        BY <1>1, <1>4, <4>1
      <4> QED  BY <4>2 DEF Below
    <3> QED  BY <3>1
  <2>2. Below(c, l) \ {p} \in SUBSET Slots /\ Below(c, l)' \in SUBSET Slots
    BY <1>1, <2>1
  <2>3. /\ Cardinality(Below(c, l)') <= Cardinality(Below(c, l) \ {p})
        /\ Cardinality(Below(c, l)') \in Nat
    BY <2>1, <2>2, SlotSubset, SlotSets
  <2>4. Cardinality(Below(c, l)) \in Nat
    BY <1>1
  <2> QED  BY <1>1, <1>2, <1>3, <1>5, <2>3, <2>4
<1>6. RoomFor(c)'
  BY <1>5 DEF RoomFor, Limit
<1>7. Cardinality(Members(c)') <= Limit(c) + NCPU - 1
  <2>1. /\ Cardinality(Below(c, Limit(c)) \ {p}) = Cardinality(Below(c, Limit(c))) - 1
        /\ Cardinality(Members(c)) + Cardinality(Below(c, Limit(c))) <= Limit(c) + NCPU - 1
    <3>1. Limit(c) \in Nat /\ Limit(c) >= Limit(c)  BY <1>1
    <3> QED  BY <1>3, <3>1
  <2>2. Cardinality(Below(c, Limit(c)) \ {p}) \in Nat /\ Cardinality(Below(c, Limit(c))) \in Nat
    <3>1. Below(c, Limit(c)) \ {p} \in SUBSET Slots  BY <1>1
    <3> QED  BY <1>1, <3>1, SlotSets
  <2> QED  BY <1>1, <1>2, <2>1, <2>2
<1> QED  BY <1>6, <1>7

(* The end of fork: the child is freed, or is one more in its container.    *)
LEMMA JoinLimits ==
    ASSUME IInv, IInv', LInv, NeverStopped, NEW p \in Slots, ForkJoin(p)
    PROVE  /\ LInv'
           /\ \A d \in Conts : Cardinality(Members(d)') > Cardinality(Members(d))
                => Cardinality(Members(d)') <= Limit(d) + NCPU - 1
<1>1. /\ TypeOK /\ TypeOK' /\ InCall /\ ~broken /\ pc[p] = "join"
      /\ UNCHANGED <<ops, broken>>
      /\ pc' = [pc EXCEPT ![p] = "idle"] /\ loc' = [loc EXCEPT ![p] = NoLoc]
      /\ ForkCursor /\ Claimed /\ Cardinality(Forking) <= NCPU
      /\ \A d \in Conts : RoomFor(d)
      /\ \A q \in Slots : pc[q] # "cstop"
  BY DEF IInv, LInv, ForkJoin, In, Return, Goto
<1>2. PICK c \in Conts, np \in Slots : c = loc[p].c /\ np = loc[p].np
  BY <1>1 DEF TypeOK, LocRec, InCall, Forking
<1>3. /\ p \in Forking /\ Locked(np) /\ np # p /\ proc[np] \in ProcRec /\ cont[c] \in ContRec
      /\ proc[p].cont = c /\ Own(p) /\ pc[np] = "idle"
  <2>1. p \in Forking /\ Locked(np) /\ np # p /\ pc[np] = "idle"
    BY <1>1, <1>2 DEF Forking, Locked, InCall
  <2>2. proc[p].cont = c /\ Own(p)
    BY <1>1, <1>2, <2>1 DEF ForkCursor, Own, InCall, Locked, Forking
  <2> QED  BY <1>1, <1>2, <2>1, <2>2 DEF TypeOK
<1>4. \A q \in Slots : /\ pc'[q] = IF q = p THEN "idle" ELSE pc[q]
                       /\ q # p => loc'[q] = loc[q]
  BY <1>1 DEF TypeOK
<1>5. /\ Forking' = Forking \ {p} /\ Forking \in SUBSET Slots
      /\ \A q \in Forking' : q \in Slots /\ q # p /\ pc'[q] = pc[q] /\ loc'[q] = loc[q]
                            /\ loc[q].np # np
  BY <1>1, <1>2, <1>3, <1>4 DEF Forking, InCall
<1>6. \A s \in Slots : Locked(s)' <=> Locked(s) /\ s # np
  BY <1>2, <1>3, <1>5 DEF Locked
<1>7. Cardinality(Forking') <= NCPU
  <2>1. Cardinality(Forking') = Cardinality(Forking) - 1 /\ Cardinality(Forking) \in Nat
    BY <1>3, <1>5, SlotLess, SlotSets
  <2> QED  BY <1>1, <2>1, ContainerAssumption
<1>8. /\ \A s \in Slots : s # np => proc'[s] = proc[s]
      /\ \A d \in Conts : cont'[d].state = cont[d].state
      /\ \/ proc'[np].state = "UNUSED"
         \/ loc[p].n < Limit(c) /\ proc'[np].cont = c /\ proc'[np].state = proc[np].state
  <2>1. CASE Full(loc[p].n, c)
    <3>1. proc' = [proc EXCEPT ![np] = Freed(@)] /\ cont' = cont
      BY <1>2, <2>1 DEF ForkJoin
    <3>2. proc'[np].state = "UNUSED"  BY <1>1, <3>1, FreedSlot, Zenon
    <3>3. \A s \in Slots : s # np => proc'[s] = proc[s]  BY <1>1, <3>1 DEF TypeOK
    <3> QED  BY <3>1, <3>2, <3>3
  <2>2. CASE ~Full(loc[p].n, c)
    <3>1. /\ proc' = [proc EXCEPT ![np].cont = c, ![np].vpid = cont[c].nextvpid]
          /\ cont' = [cont EXCEPT ![c] = AllocVpid(@)]
      BY <1>2, <2>2 DEF ForkJoin
    <3>2. AllocVpid(cont[c]).state = cont[c].state  BY <1>3 DEF AllocVpid, ContRec
    <3>3. \A d \in Conts : cont'[d].state = cont[d].state
      BY <1>1, <3>1, <3>2 DEF TypeOK
    <3>4. /\ \A s \in Slots : s # np => proc'[s] = proc[s]
          /\ proc'[np].cont = c /\ proc'[np].state = proc[np].state
      BY <1>1, <1>3, <3>1 DEF TypeOK, ProcRec
    <3>5. loc[p].n \in Nat /\ Limit(c) \in Nat  BY <1>1, Counts
    <3>6. loc[p].n < Limit(c)  BY <2>2, <3>5 DEF Full
    <3> QED  BY <3>3, <3>4, <3>6
  <2> QED  BY <2>1, <2>2
<1>9. ForkCursor'
  <2>1. \A q \in Forking' : q # np  BY <1>3, <1>5 DEF Forking
  <2> QED  BY <1>1, <1>5, <1>8, <2>1 DEF ForkCursor
<1>10. Claimed'
  <2>1. \A s \in Slots : Own(s)' /\ s # np => Own(s)
    BY <1>1, <1>3, <1>4, <1>6, <1>8 DEF Own
  <2>2. Own(np)' => proc'[np].cont = c  BY <1>8 DEF Own
  <2>3. cont[c].state = "CRUNNING" /\ \A s \in Slots : proc[s].cont \in Conts
    BY <1>1, <1>3 DEF Claimed, TypeOK, ProcRec
  <2> QED  BY <1>1, <1>2, <1>8, <2>1, <2>2, <2>3 DEF Claimed
<1>11. \A d \in Conts : np \notin Members(d) /\ Members(d) \in SUBSET Slots
  BY <1>3 DEF Members
<1>12. ASSUME NEW d \in Conts, d # c \/ proc'[np].state = "UNUSED"
       PROVE  RoomFor(d)' /\ Members(d)' = Members(d)
  <2>1. Members(d)' = Members(d)
    BY <1>3, <1>6, <1>8, <1>12 DEF Members, Counted
  <2>2. Members(d)' = Members(d) \ {np}
    BY <1>11, <2>1
  <2> QED  BY <1>1, <1>5, <2>1, <2>2, RoomLeft
<1>13. ASSUME proc'[np].state # "UNUSED"
       PROVE  RoomFor(c)' /\ Cardinality(Members(c)') <= Limit(c) + NCPU - 1
  <2>1. Members(c)' = Members(c) \cup {np}
    BY <1>3, <1>6, <1>8, <1>13 DEF Members, Counted
  <2>2. Sees(p) < Limit(c)
    <3>1. loc[p].i = NPROC + 1 /\ NPROC \in Nat
      BY <1>1, <1>3, ContainerAssumption DEF ForkCursor
    <3>2. From(Members(c), loc[p].i) = {}
      BY <1>11, <3>1 DEF From, Slots
    <3>3. Sees(p) = loc[p].n + 0
      BY <1>2, <3>2, FS_EmptySet DEF Sees
    <3>4. loc[p].n \in Nat  BY <1>1, Counts
    <3> QED  BY <1>8, <1>13, <3>3, <3>4
  <2>3. TypeOK /\ TypeOK' /\ RoomFor(c) /\ loc[p].c = c /\ np \notin Members(c)
    BY <1>1, <1>2, <1>11
  <2>4. \A q \in Forking' : loc'[q] = loc[q]
    BY <1>5
  <2> QED  BY <1>3, <1>5, <2>1, <2>2, <2>3, <2>4, RoomTaken, Zenon
<1>14. \A d \in Conts : RoomFor(d)'
  BY <1>12, <1>13
<1>15. ASSUME NEW d \in Conts, Cardinality(Members(d)') > Cardinality(Members(d))
       PROVE  Cardinality(Members(d)') <= Limit(d) + NCPU - 1
  <2>1. Cardinality(Members(d)) \in Nat  BY <1>11, SlotSets
  <2>2. Members(d)' # Members(d)  BY <1>15, <2>1
  <2> QED  BY <1>12, <1>13, <2>2
<1>16. ~broken' /\ \A q \in Slots : pc'[q] # "cstop"
  BY <1>1, <1>4
<1>17. LInv'
  BY <1>7, <1>9, <1>10, <1>14, <1>16 DEF LInv
<1> QED  BY <1>15, <1>17

(* At the start nobody forks.                                               *)
LEMMA InitLimits == Init => LInv
<1> SUFFICES ASSUME Init PROVE LInv
  OBVIOUS
<1>1. IInv /\ ~broken /\ pc = [s \in Slots |-> "idle"]
  BY InitIInv DEF Init
<1>2. Forking = {} /\ \A p \in Slots : pc[p] # "cstop"
  BY <1>1 DEF Forking
<1>3. Cardinality(Forking) <= NCPU
  BY <1>2, FS_EmptySet, ContainerAssumption
<1>4. ForkCursor /\ \A c \in Conts : RoomFor(c)
  BY <1>2 DEF ForkCursor, RoomFor, Below
<1>5. Claimed
  <2> DEFINE n == Len(ops.start)
             At(s) == IF s <= n THEN ops.start[s] ELSE Root
  <2>1. n \in 1 .. NPROC
    BY ContainerAssumption DEF Init
  <2>2. \A s \in Slots : /\ proc[s].state = IF s <= n THEN "RUNNABLE" ELSE "UNUSED"
                         /\ proc[s].cont = At(s)
    BY DEF Init
  <2>3. \A c \in Conts :
          cont[c].state = IF \E s \in 1 .. n : At(s) = c THEN "CRUNNING" ELSE "CUNUSED"
    BY DEF Init
  <2>4. \A s \in Slots : proc[s].cont \in Conts
    BY <1>1 DEF IInv, TypeOK, ProcRec
  <2>5. \A s \in Slots : Own(s) => s \in 1 .. n
    BY <2>1, <2>2 DEF Own, Slots
  <2> HIDE DEF n, At
  <2> QED  BY <2>2, <2>3, <2>4, <2>5 DEF Claimed
<1> QED  BY <1>1, <1>2, <1>3, <1>4, <1>5 DEF LInv

(* Every step keeps the invariant of the limit.                             *)
LEMMA StepLimits == IInv /\ LInv /\ [Next]_vars => LInv'
<1> SUFFICES ASSUME IInv, LInv, [Next]_vars PROVE LInv'
  OBVIOUS
<1>1. CASE UNCHANGED vars
  <2>1. UNCHANGED <<proc, cont, pc, loc, ops, broken>>
    BY <1>1 DEF vars
  <2>2. Forking' = Forking /\ NeverStopped' = NeverStopped
    BY <2>1 DEF Forking, NeverStopped
  <2>3. \A s : Locked(s)' = Locked(s)
    BY <2>1, <2>2 DEF Locked
  <2>4. \A c : Members(c)' = Members(c)
    BY <2>1, <2>3 DEF Members, Counted
  <2>5. \A p : Sees(p)' = Sees(p)
    BY <2>1, <2>4 DEF Sees
  <2>6. \A c, l : Below(c, l)' = Below(c, l)
    BY <2>1, <2>2, <2>5 DEF Below
  <2>7. \A c : RoomFor(c)' = RoomFor(c)
    BY <2>4, <2>6 DEF RoomFor, Limit
  <2>8. ForkCursor' = ForkCursor /\ Claimed' = Claimed
    BY <2>1, <2>2, <2>3 DEF ForkCursor, Claimed, Own
  <2> QED  BY <2>1, <2>2, <2>7, <2>8 DEF LInv
<1>2. CASE Next
  <2>1. IInv' /\ ops' = ops
    BY <1>2, StepIInv, Zenon DEF Next, Fork, ForkCount, ForkJoin, Exit, Wait, Kill, Balloc, KillRead,
       KillLock, Cinit, CinitClaim, Cstop, CstopFree
  <2>2. CASE ~NeverStopped
    BY <2>1, <2>2 DEF LInv, NeverStopped
  <2>3. CASE NeverStopped
    <3>1. \A p \in Slots : ~Cstop(p) /\ ~CstopFree(p)
      BY <2>3, Zenon DEF LInv, NeverStopped, Cstop, CstopFree, Calls, In
    <3> QED  BY <1>2, <2>1, <2>3, <3>1, ForkLimits, CountLimits, JoinLimits, ExitLimits,
                KillLimits, CinitLimits, ClaimLimits DEF Next
  <2> QED  BY <2>2, <2>3
<1> QED  BY <1>1, <1>2

(* fork's test of the container's limit, with numproc's count of slots that *)
(* change under it: no more than NCPU - 1 processes get in above the limit, *)
(* while no container is stopped.                                           *)
THEOREM ForkLimitAlways == Spec => ForkLimit
<1>1. ASSUME IInv, LInv, Next PROVE NeverStopped => WithinLimit
  <2> SUFFICES ASSUME NeverStopped, NEW p \in Slots, NEW c \in Conts, pc[p] = "join",
                      pc'[p] = "idle", Cardinality(Members(c)') > Cardinality(Members(c))
               PROVE  Cardinality(Members(c)') <= Limit(c) + NCPU - 1
    BY DEF WithinLimit
  <2>1. TypeOK /\ IInv'
    BY <1>1, StepIInv DEF IInv
  <2>2. PICK q \in Slots :
          \/ Fork(q) \/ ForkCount(q) \/ ForkJoin(q) \/ Exit(q) \/ Wait(q)
          \/ Kill(q) \/ Balloc(q) \/ KillRead(q) \/ KillLock(q)
          \/ Cinit(q) \/ CinitClaim(q) \/ Cstop(q) \/ CstopFree(q)
    BY <1>1 DEF Next
  <2>3. CASE ForkJoin(q)
    BY <1>1, <2>1, <2>3, JoinLimits
  <2>4. CASE ForkCount(q)
    BY <2>1, <2>4 DEF TypeOK, ForkCount, In, Goto
  <2>5. CASE Exit(q) \/ Wait(q)
    BY <2>5 DEF Exit, Wait
  <2>6. CASE Fork(q) \/ Kill(q) \/ Balloc(q) \/ Cinit(q) \/ Cstop(q)
    BY <2>1, <2>6, Zenon DEF TypeOK, Fork, Kill, Balloc, Cinit, Cstop, Calls, Idle, Goto
  <2>7. CASE KillRead(q) \/ KillLock(q) \/ CinitClaim(q) \/ CstopFree(q)
    BY <2>1, <2>7, Zenon DEF TypeOK, KillRead, KillLock, CinitClaim, CstopFree, In, Goto, Return
  <2> QED  BY <2>2, <2>3, <2>4, <2>5, <2>6, <2>7
<1>2. IInv /\ LInv /\ [Next]_vars => [NeverStopped => WithinLimit]_vars
  BY <1>1
<1> QED  BY Invariant, InitLimits, StepLimits, <1>2, PTL DEF Spec, ForkLimit
=============================================================================
