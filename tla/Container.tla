----------------------------- MODULE Container -----------------------------
(***************************************************************************)
(* Containers as proc.c keeps them: the process limit that fork tests,     *)
(* virtual pids, kill by virtual pid, cinit and cstop.                     *)
(*                                                                         *)
(* Most of this reads and writes shared state without a lock. What is done *)
(* to one slot or container under its lock, or in one access, is a step:   *)
(* numproc counts a slot at a time, kill reads the pid before it takes the *)
(* slot's lock, and cinit sleeps in namei between choosing a container and *)
(* claiming it. A freed slot keeps its container and vpid, as in freeproc. *)
(***************************************************************************)
EXTENDS Integers, FiniteSets, Sequences

CONSTANTS
    NPROC, NCPU,
    NCONTS,
    MaxProc,            \* what cinit is called with
    Workloads,          \* records of what a behaviour explores: the calls each
                        \* slot makes, the pids killed, the containers of the
                        \* processes it starts with, and a bound on the pids
    MaxVpid             \* bound on the vpids cinit gives out

ASSUME ContainerAssumption ==
    /\ \A n \in {NPROC, NCPU, NCONTS, MaxProc, MaxVpid} : n \in Nat \ {0}
    /\ \A w \in Workloads :
         /\ w.start \in Seq(0 .. (NCONTS - 1)) /\ Len(w.start) \in 1 .. NPROC
         /\ w.start[1] = 0 /\ w.targets \subseteq Nat

Slots == 1 .. NPROC
InitProc == 1
Conts == 0 .. (NCONTS - 1)
Root == 0
NoSlot == 0

VARIABLES
    proc,      \* proc[]: state, pid, vpid, container, parent, killed
    cont,      \* containers[]: state, nextvpid
    nextpid,
    pc, loc,   \* where a process is in a call, and its local variables
    ops,       \* the workload
    broken     \* freeproc has run on a process in the middle of something

vars == <<proc, cont, nextpid, pc, loc, ops, broken>>

NoLoc == [np |-> NoSlot, i |-> 0, n |-> 0, target |-> 0, c |-> Root]
Limit(c) == IF c = Root THEN NPROC ELSE MaxProc

(* A slot's lock is held by the fork that fills it until it returns; the    *)
(* child does not run before that.                                          *)
Forking == {p \in Slots : pc[p] \in {"count", "join"}}
Locked(s) == \E p \in Forking : loc[p].np = s

Idle(p) == ~broken /\ proc[p].state = "RUNNABLE" /\ pc[p] = "idle" /\ ~Locked(p)
Calls(p, what) == Idle(p) /\ ~proc[p].killed /\ what \in ops.calls[p]
In(p, where) == ~broken /\ pc[p] = where

Goto(p, where, l) == pc' = [pc EXCEPT ![p] = where] /\ loc' = [loc EXCEPT ![p] = l]
Return(p) == Goto(p, "idle", NoLoc)

(* freeproc leaves container and vpid as they were.                         *)
Freed(r) == [r EXCEPT !.state = "UNUSED", !.pid = 0, !.parent = NoSlot, !.killed = FALSE]

-----------------------------------------------------------------------------
(* fork up to the test of the limit. It holds np->lock from allocproc on,   *)
(* with interrupts off, so there are no more than NCPU of them, and the     *)
(* scan of another allocproc stops at that lock. The child is RUNNABLE      *)
(* before it is counted, in the container its slot was last in.             *)
Fork(p) ==
    /\ Calls(p, "fork")
    /\ nextpid <= ops.pids /\ Cardinality(Forking) < NCPU
    /\ \E np \in Slots :
         /\ proc[np].state = "UNUSED"
         /\ \A s \in 1 .. (np - 1) : proc[s].state # "UNUSED" /\ ~Locked(s)
         /\ proc' = [proc EXCEPT ![np].state = "RUNNABLE", ![np].pid = nextpid,
                                 ![np].parent = p]
         /\ Goto(p, "count", [NoLoc EXCEPT !.np = np, !.i = 1, !.c = proc[p].cont])
    /\ nextpid' = nextpid + 1
    /\ UNCHANGED <<cont, ops, broken>>

(* One iteration of numproc.                                                *)
Counted(s, c) == proc[s].state # "UNUSED" /\ proc[s].cont = c

ForkCount(p) ==
    LET i == loc[p].i
        n == loc[p].n + (IF Counted(i, loc[p].c) THEN 1 ELSE 0)
    IN  /\ In(p, "count")
        /\ Goto(p, IF i = NPROC THEN "join" ELSE "count",
                [loc[p] EXCEPT !.i = i + 1, !.n = n])
        /\ UNCHANGED <<proc, cont, nextpid, ops, broken>>

(* Faulty variant: the process that makes the container full is let in, and *)
(* one more.                                                                *)
FullOver(n, c) == n > Limit(c)

(* The test of fork.                                                        *)
Full(n, c) == n >= Limit(c)

(* Faulty variant: the counter is read and not stored.                      *)
AllocVpidRead(r) == r

(* What allocvpid does to a container, having read its nextvpid.            *)
AllocVpid(r) == [r EXCEPT !.nextvpid = @ + 1]

(* The end of fork.                                                         *)
ForkJoin(p) ==
    LET c == loc[p].c
        np == loc[p].np
    IN  /\ In(p, "join")
        /\ IF Full(loc[p].n, c)
           THEN proc' = [proc EXCEPT ![np] = Freed(@)] /\ UNCHANGED cont
           ELSE /\ proc' = [proc EXCEPT ![np].cont = c, ![np].vpid = cont[c].nextvpid]
                /\ cont' = [cont EXCEPT ![c] = AllocVpid(@)]
        /\ Return(p)
        /\ UNCHANGED <<nextpid, ops, broken>>

(* exit, with reparent.                                                     *)
Exit(p) ==
    /\ Idle(p) /\ p # InitProc
    /\ "exit" \in ops.calls[p] \/ proc[p].killed
    /\ proc' = [s \in Slots |->
                  IF s = p THEN [proc[s] EXCEPT !.state = "ZOMBIE"]
                  ELSE IF proc[s].parent = p THEN [proc[s] EXCEPT !.parent = InitProc]
                  ELSE proc[s]]
    /\ UNCHANGED <<cont, nextpid, pc, loc, ops, broken>>

(* wait, when there is an exited child.                                     *)
Wait(p) ==
    /\ Idle(p)
    /\ \E s \in Slots :
         /\ proc[s].parent = p /\ proc[s].state = "ZOMBIE"
         /\ proc' = [proc EXCEPT ![s] = Freed(@)]
    /\ UNCHANGED <<cont, nextpid, pc, loc, ops, broken>>

(* kill reads the slot's pid, or vpid in a container, and then locks it.    *)
Kill(p) ==
    /\ Calls(p, "kill")
    /\ \E k \in ops.targets :
         Goto(p, "killread", [NoLoc EXCEPT !.i = 1, !.target = k, !.c = proc[p].cont])
    /\ UNCHANGED <<proc, cont, nextpid, ops, broken>>

(* balloc for a process whose container is over its disk limit: it kills    *)
(* the process by the pid, which kill compares with vpids, and goes on.     *)
Balloc(p) ==
    /\ Calls(p, "write") /\ proc[p].cont # Root
    /\ Goto(p, "killread", [NoLoc EXCEPT !.i = 1, !.target = proc[p].pid, !.c = proc[p].cont])
    /\ UNCHANGED <<proc, cont, nextpid, ops, broken>>

KillRead(p) ==
    LET s == proc[loc[p].i] IN
    /\ In(p, "killread")
    /\ Goto(p, "killlock",
            [loc[p] EXCEPT !.n = IF loc[p].c = Root THEN s.pid ELSE s.vpid])
    /\ UNCHANGED <<proc, cont, nextpid, ops, broken>>

(* Faulty variant: the container of the slot is not looked at.              *)
OutsideNot(c, s) == FALSE

(* A container's processes may not kill others.                             *)
Outside(c, s) == c # Root /\ proc[s].cont # c

KillLock(p) ==
    LET s == loc[p].i IN
    /\ In(p, "killlock") /\ ~Locked(s)
    /\ IF loc[p].n = loc[p].target
       THEN /\ proc' = IF Outside(loc[p].c, s) THEN proc ELSE [proc EXCEPT ![s].killed = TRUE]
            /\ Return(p)
       ELSE /\ UNCHANGED proc
            /\ IF s = NPROC THEN Return(p)
               ELSE Goto(p, "killread", [loc[p] EXCEPT !.i = s + 1])
    /\ UNCHANGED <<cont, nextpid, ops, broken>>

(* cinit takes the first container it finds unused, sleeps in namei, and    *)
(* then claims it. If there is none it does nothing.                        *)
Cinit(p) ==
    /\ Calls(p, "cinit")
    /\ \E c \in Conts :
         /\ cont[c].state = "CUNUSED" /\ cont[c].nextvpid <= MaxVpid
         /\ \A d \in 0 .. (c - 1) : cont[d].state # "CUNUSED"
         /\ proc' = [proc EXCEPT ![p].cont = c]
         /\ Goto(p, "cinit", [NoLoc EXCEPT !.c = c])
    /\ UNCHANGED <<cont, nextpid, ops, broken>>

CinitClaim(p) ==
    LET c == loc[p].c IN
    /\ In(p, "cinit")
    /\ cont' = [cont EXCEPT ![c] = AllocVpid([@ EXCEPT !.state = "CRUNNING"])]
    /\ proc' = [proc EXCEPT ![p].vpid = cont[c].nextvpid]
    /\ Return(p)
    /\ UNCHANGED <<nextpid, ops, broken>>

(* cstop by a process of the root container, of one that cinit has given a  *)
(* name: it is unused, and its processes are freed one by one, without      *)
(* their locks.                                                             *)
Cstop(p) ==
    /\ Calls(p, "cstop") /\ proc[p].cont = Root
    /\ \E c \in Conts :
         /\ cont[c].nextvpid > 1
         /\ cont' = [cont EXCEPT ![c].state = "CUNUSED"]
         /\ Goto(p, "cstop", [NoLoc EXCEPT !.i = 1, !.c = c])
    /\ UNCHANGED <<proc, nextpid, ops, broken>>

(* One iteration. A process that sleeps or waits for a CPU is gone; one     *)
(* that is in the middle of a call, on a CPU, or being made by fork goes on *)
(* with what has been freed.                                                *)
CstopFree(p) ==
    LET s == loc[p].i
        hit == proc[s].cont = loc[p].c
    IN  /\ In(p, "cstop")
        /\ proc' = IF hit THEN [proc EXCEPT ![s] = Freed(@)] ELSE proc
        /\ broken' \in IF hit /\ (pc[s] # "idle" \/ Locked(s)) THEN {TRUE}
                      ELSE IF hit /\ proc[s].state = "RUNNABLE" THEN BOOLEAN
                      ELSE {FALSE}
        /\ IF s = NPROC THEN Return(p) ELSE Goto(p, "cstop", [loc[p] EXCEPT !.i = s + 1])
        /\ UNCHANGED <<cont, nextpid, ops>>

-----------------------------------------------------------------------------
(* The processes of a workload are children of init, and have the vpids of  *)
(* their containers in order.                                               *)
Init ==
    /\ ops \in Workloads
    /\ LET n == Len(ops.start)
           At(s) == IF s <= n THEN ops.start[s] ELSE Root
           Before(s) == Cardinality({t \in 1 .. s : t <= n /\ At(t) = At(s)})
       IN  /\ proc = [s \in Slots |->
                [state |-> IF s <= n THEN "RUNNABLE" ELSE "UNUSED",
                 pid |-> IF s <= n THEN s ELSE 0, vpid |-> IF s <= n THEN Before(s) ELSE 0,
                 cont |-> At(s), parent |-> IF s \in 2 .. n THEN InitProc ELSE NoSlot,
                 killed |-> FALSE]]
           /\ cont = [c \in Conts |->
                [state |-> IF \E s \in 1 .. n : At(s) = c THEN "CRUNNING" ELSE "CUNUSED",
                 nextvpid |-> 1 + Cardinality({s \in 1 .. n : At(s) = c})]]
           /\ nextpid = n + 1
    /\ pc = [s \in Slots |-> "idle"] /\ loc = [s \in Slots |-> NoLoc]
    /\ broken = FALSE

Next == \E p \in Slots :
    \/ Fork(p) \/ ForkCount(p) \/ ForkJoin(p) \/ Exit(p) \/ Wait(p)
    \/ Kill(p) \/ Balloc(p) \/ KillRead(p) \/ KillLock(p)
    \/ Cinit(p) \/ CinitClaim(p) \/ Cstop(p) \/ CstopFree(p)

Spec == Init /\ [][Next]_vars

-----------------------------------------------------------------------------
Members(c) == {s \in Slots : Counted(s, c) /\ ~Locked(s)}

(* The workload has no cstop in it.                                         *)
NeverStopped == \A p \in Slots : "cstop" \notin ops.calls[p]

(* A fork that lets its child in brings a container no more than NCPU - 1   *)
(* processes over its limit.                                                *)
WithinLimit ==
    \A p \in Slots : \A c \in Conts :
      pc[p] = "join" /\ pc'[p] = "idle" /\ Cardinality(Members(c)') > Cardinality(Members(c))
        => Cardinality(Members(c)') <= Limit(c) + NCPU - 1

(* Forks keep within the limit, though numproc counts without locks and     *)
(* each fork in progress counts the others' children in whatever container  *)
(* their slots were. It is so while no container is stopped: cstop gives a  *)
(* container to the next cinit while forks that have counted its processes  *)
(* still run.                                                               *)
ForkLimit == [][NeverStopped => WithinLimit]_vars

(* Two processes of a container never have the same vpid, also when two     *)
(* cinit have taken the same container or its slot was used before. Left    *)
(* out is a process in the middle of cinit, which is in its new container   *)
(* with the vpid of the old one until namei returns (proc.c:999-1016).      *)
VpidsUnique ==
    ~broken =>
      \A c \in Conts : \A s, t \in Members(c) :
        s # t /\ pc[s] # "cinit" /\ pc[t] # "cinit" => proc[s].vpid # proc[t].vpid

(* p's kill ends at slot s, in whose container p is, or p is in root's.     *)
MayMark(p, s) ==
    /\ pc[p] = "killlock" /\ pc'[p] = "idle" /\ loc[p].i = s
    /\ proc[p].cont \in {Root, proc[s].cont}

(* Only a kill marks a slot killed, and only one the caller may: outside    *)
(* root the slot is in the caller's container, though the vpid was read     *)
(* before the slot was locked (proc.c:732-743). kill does not look whether  *)
(* the slot is in use. A free one counts to the container it was last in,   *)
(* and keeps the mark for the next process, of any container.               *)
KillContained ==
    [][\A s \in Slots : proc'[s].killed /\ ~proc[s].killed =>
         \E p \in Slots : MayMark(p, s)]_vars

(* "Kill the process with the given pid." (proc.c:718): a process that fork *)
(* has just made, which no kill can have meant, is not killed.              *)
NobodyBornKilled ==
    [][\A s \in Slots : proc[s].state = "UNUSED" /\ proc'[s].state # "UNUSED"
         => ~proc'[s].killed]_vars
=============================================================================
