------------------------------ MODULE Console ------------------------------
(***************************************************************************)
(* The virtual consoles and the clock, with what they run on: the traps of *)
(* trap.c, the spin-locks of spinlock.c with their nested disabling of     *)
(* interrupts, and sched and sleep as far as they hand a CPU over.         *)
(*                                                                         *)
(* A CPU executes the thread it runs: the kernel thread of a process, or   *)
(* its scheduler. A thread is a stack of frames: what it does, and over it *)
(* the trap that interrupted it. acquire is two steps, push_off and the    *)
(* swap; a critical section and its release are one each. Sections of a    *)
(* p->lock, which no interrupt handler of a device holds across a step,    *)
(* are part of the step they are in. An interrupt comes between any two    *)
(* steps of a CPU whose interrupts are on.                                 *)
(***************************************************************************)
EXTENDS Integers, Sequences, SequencesExt, FiniteSets

CONSTANTS
    NCPU, NPROC,
    NCONS,
    INPUT_BUF,
    UINT,            \* number of values of a uint
    Ordinary,        \* the characters without a meaning
    Workloads        \* the calls of each process, what is typed, and how many
                     \* timer interrupts each CPU takes

Cpus == 1 .. NCPU
Procs == 1 .. NPROC
Consoles == 1 .. NCONS
Size == INPUT_BUF

ASSUME ConsoleAssumption ==
    /\ \A n \in {NCPU, NPROC, NCONS, INPUT_BUF} : n \in Nat \ {0}
    /\ UINT % INPUT_BUF = 0 /\ UINT > INPUT_BUF
    /\ \A w \in Workloads : Len(w.calls) = NPROC /\ \A c \in Cpus : w.timers[c] < UINT

VARIABLES
    cpu,       \* struct cpu and the interrupt bit: sie, noff, intena, proc
    proc,      \* of each process: state, chan, killed, and sched's intena
    frames,    \* the stack of each thread
    lock,      \* of each lock: the CPU that holds it, or 0
    cons,      \* consoles[]: buf, r, w, e
    active,
    ticks,
    rx,        \* the characters in the UART
    claimed,   \* the CPU that is serving the UART's interrupt, or 0
    work,      \* what is left of the workload
    got,       \* what a read has copied to the user so far
    panicked, wild

vars == <<cpu, proc, frames, lock, cons, active, ticks, rx, claimed, work, got,
          panicked, wild>>

ConsLock(k) == <<"cons", k>>
TicksLock == <<"ticks", 0>>
PrLock == <<"pr", 0>>
NoChan == <<"none", 0>>
Locks == {ConsLock(k) : k \in Consoles} \cup {TicksLock, PrLock}

(* Threads: processes are 1, 2, ...; the scheduler of CPU c is -c.          *)
Thread(c) == IF cpu[c].proc = 0 THEN -c ELSE cpu[c].proc
Stack(c) == frames[Thread(c)]
Top(c) == Last(Stack(c))
InTrap(c) == Len(Stack(c)) > 1
FromUser(c) == InTrap(c) /\ Last(Front(Stack(c))).pc = "user"
Killed(c) == cpu[c].proc # 0 /\ proc[cpu[c].proc].killed

(* A frame: where it is, the lock it takes or holds, where it goes when it  *)
(* has taken or released it, and its locals.                                *)
Frame(pc, lk, then, v) == [pc |-> pc, lk |-> lk, then |-> then, v |-> v]
NoArgs == [op |-> "none"]
Simple(pc) == Frame(pc, NoChan, "none", NoArgs)

Running == ~panicked /\ ~wild
At(c, pc) == Running /\ Top(c).pc = pc
ReplaceTop(c, f) == [frames EXCEPT ![Thread(c)] = Append(Front(@), f)]
Goto(c, f) == frames' = ReplaceTop(c, f)
GotoPc(c, pc) == Goto(c, [Top(c) EXCEPT !.pc = pc])

-----------------------------------------------------------------------------
(* spinlock.c.                                                              *)

PushOff(r) ==
    [r EXCEPT !.sie = FALSE, !.intena = IF r.noff = 0 THEN r.sie ELSE @, !.noff = @ + 1]

(* intena means something only while noff > 0.                              *)
PopOff(r) ==
    [r EXCEPT !.noff = @ - 1, !.sie = (r.noff = 1 /\ r.intena) \/ @,
              !.intena = r.noff > 1 /\ @]

PopPanics(r) == r.sie \/ r.noff < 1

(* The beginning of acquire, up to the swap.                                *)
StartAcquire(c, lk, then, v) ==
    /\ cpu' = [cpu EXCEPT ![c] = PushOff(@)]
    /\ panicked' = (lock[lk] = c)
    /\ Goto(c, Frame("spin", lk, then, v))

Acquire(c) ==
    /\ At(c, "spin") /\ lock[Top(c).lk] = 0
    /\ lock' = [lock EXCEPT ![Top(c).lk] = c]
    /\ GotoPc(c, Top(c).then)
    /\ UNCHANGED <<cpu, proc, cons, active, ticks, rx, claimed, work, got, panicked, wild>>

(* release, at the end of a section; then says what follows it.             *)
Release(c) ==
    /\ At(c, "release")
    /\ panicked' = (lock[Top(c).lk] # c \/ PopPanics(cpu[c]))
    /\ lock' = [lock EXCEPT ![Top(c).lk] = 0]
    /\ cpu' = [cpu EXCEPT ![c] = PopOff(@)]
    /\ GotoPc(c, Top(c).then)
    /\ UNCHANGED <<proc, cons, active, ticks, rx, claimed, work, got, wild>>

ToRelease(c, then) == Goto(c, [Top(c) EXCEPT !.pc = "release", !.then = then])

-----------------------------------------------------------------------------
(* proc.c.                                                                  *)

(* Faulty variant: only the first sleeper is woken.                         *)
WokenUpOne(chan) ==
    LET sleepers == {p \in Procs : proc[p].state = "SLEEPING" /\ proc[p].chan = chan}
        First(p) == p \in sleepers /\ \A q \in sleepers : p <= q
    IN  [p \in Procs |-> IF First(p) THEN [proc[p] EXCEPT !.state = "RUNNABLE"] ELSE proc[p]]

(* wakeup(chan).                                                            *)
WokenUp(chan) ==
    [p \in Procs |-> IF proc[p].state = "SLEEPING" /\ proc[p].chan = chan
                     THEN [proc[p] EXCEPT !.state = "RUNNABLE"] ELSE proc[p]]

(* sched, called with the CPU in state r and p->lock held: the thread keeps *)
(* its intena, and the scheduler releases p->lock.                          *)
Sched(c, r, q) ==
    /\ panicked' = (r.noff # 1 \/ r.sie)
    /\ proc' = [proc EXCEPT ![cpu[c].proc] = [q EXCEPT !.intena = r.intena]]
    /\ cpu' = [cpu EXCEPT ![c] = [PopOff(r) EXCEPT !.proc = 0]]

(* sleep with lk held, to come back at the acquire of lk.                   *)
Sleep(c, f) ==
    LET p == cpu[c].proc IN
    /\ Sched(c, PopOff(PushOff(cpu[c])),
             [proc[p] EXCEPT !.state = "SLEEPING", !.chan = f.lk])
    /\ lock' = [lock EXCEPT ![f.lk] = 0]
    /\ Goto(c, [f EXCEPT !.pc = "slept"])

Exits(c) ==
    /\ Sched(c, PushOff(cpu[c]), [proc[cpu[c].proc] EXCEPT !.state = "ZOMBIE"])
    /\ frames' = [frames EXCEPT ![Thread(c)] = <<Simple("zombie")>>]

(* Faulty variant: intena stays what the CPU's last thread had.             *)
SwitchedKeep(r, p) == r

(* What swtch and the rest of sched, or forkret, make of the CPU.           *)
Switched(r, p) ==
    IF Last(frames[p]).pc = "forkret" THEN r ELSE [r EXCEPT !.intena = proc[p].intena]

(* scheduler: the top of its loop, and a process it finds RUNNABLE.         *)
Loop(c) ==
    /\ At(c, "scheduler") /\ ~cpu[c].sie
    /\ cpu' = [cpu EXCEPT ![c].sie = TRUE]
    /\ UNCHANGED <<proc, frames, lock, cons, active, ticks, rx, claimed, work, got,
                   panicked, wild>>

(* scheduler chooses among the processes of a container that runs: here all *)
(* are of one that does.                                                    *)
Dispatch(c) ==
    /\ At(c, "scheduler")
    /\ \E p \in Procs :
         LET r == Switched(PushOff(cpu[c]), p) IN
         /\ proc[p].state = "RUNNABLE"
         /\ proc' = [proc EXCEPT ![p].state = "RUNNING", ![p].chan = NoChan,
                                 ![p].intena = FALSE]
         /\ cpu' = [cpu EXCEPT ![c] = [PopOff(r) EXCEPT !.proc = p]]
         /\ panicked' = PopPanics(r)
    /\ UNCHANGED <<frames, lock, cons, active, ticks, rx, claimed, work, got, wild>>

(* The end of sleep.                                                        *)
Slept(c) ==
    /\ At(c, "slept")
    /\ StartAcquire(c, Top(c).lk, Top(c).then, Top(c).v)
    /\ UNCHANGED <<proc, lock, cons, active, ticks, rx, claimed, work, got, wild>>

-----------------------------------------------------------------------------
(* consoleread.                                                             *)
Chars(q, from, to) ==
    [i \in 1 .. ((to - from) % UINT) |-> q.buf[(from + i - 1) % INPUT_BUF]]

(* An end of file, the m-th character, that is saved for the next read.     *)
PutBack(m, v) == m > 1 \/ v.n < v.target

Read(c) ==
    LET v == Top(c).v
        q == cons[v.k]
        s == IF v.n = 0 THEN <<>> ELSE Chars(q, q.r, q.w)
        stops == {i \in 1 .. Len(s) : s[i] \in {"NL", "EOF"} \/ i = v.n \/ v.bad}
        m == IF stops = {} THEN Len(s) ELSE CHOOSE i \in stops : \A j \in stops : i <= j
        eof == m > 0 /\ s[m] = "EOF"
        taken == IF eof /\ PutBack(m, v) THEN m - 1 ELSE m
        copied == IF eof \/ (v.bad /\ m > 0) THEN m - 1 ELSE m
    IN  /\ At(c, "read")
        /\ cons' = [cons EXCEPT ![v.k].r = (@ + taken) % UINT]
        /\ got' = [got EXCEPT ![cpu[c].proc] = @ \o SubSeq(s, 1, copied)]
        /\ IF stops # {} \/ v.n = 0 \/ Killed(c)
           THEN ToRelease(c, "sysret") /\ UNCHANGED <<cpu, proc, lock, panicked>>
           ELSE Sleep(c, [Top(c) EXCEPT !.v.n = @ - m])
        /\ UNCHANGED <<active, ticks, rx, claimed, work, wild>>

(* consolewrite: nothing is kept of what it sends to the UART.              *)
Write(c) ==
    /\ At(c, "write")
    /\ ToRelease(c, "sysret")
    /\ UNCHANGED <<cpu, proc, lock, cons, active, ticks, rx, claimed, work, got,
                   panicked, wild>>

(* The end of printf, which only its lock is kept of.                       *)
Printed(c) ==
    /\ At(c, "printed")
    /\ ToRelease(c, Top(c).v.next)
    /\ UNCHANGED <<cpu, proc, lock, cons, active, ticks, rx, claimed, work, got,
                   panicked, wild>>

(* The loop of sys_sleep; the first time it notes the time.                 *)
SysSleep(c) ==
    LET v == Top(c).v
        t0 == IF v.t0 = -1 THEN ticks ELSE v.t0
    IN  /\ At(c, "sleep")
        /\ IF (ticks - t0) % UINT >= v.n \/ Killed(c)
           THEN ToRelease(c, "sysret") /\ UNCHANGED <<cpu, proc, lock, panicked>>
           ELSE Sleep(c, [Top(c) EXCEPT !.v.t0 = t0])
        /\ UNCHANGED <<cons, active, ticks, rx, claimed, work, got, wild>>

-----------------------------------------------------------------------------
(* trap.c: system calls.                                                    *)

(* Where acquire(&consoles[active - 1].lock) leads. Past the end of         *)
(* consoles[] there is no telling.                                          *)
AcquireActive(c, then, v) ==
    IF active \in Consoles
    THEN StartAcquire(c, ConsLock(active), then, v) /\ UNCHANGED wild
    ELSE wild' = TRUE /\ UNCHANGED <<cpu, frames, panicked>>

(* syscall, and the call up to its first lock.                              *)
Call(c, v) ==
    LET p == cpu[c].proc IN
    /\ work' = [work EXCEPT !.calls[p] = Tail(@)]
    /\ got' = [got EXCEPT ![p] = <<>>]
    /\ \/ /\ v.op = "read"
          /\ StartAcquire(c, ConsLock(v.k), "read", v) /\ UNCHANGED <<proc, wild>>
       \/ v.op = "write" /\ AcquireActive(c, "write", v) /\ UNCHANGED proc
       \/ /\ v.op = "sleep"
          /\ StartAcquire(c, TicksLock, "sleep", v) /\ UNCHANGED <<proc, wild>>
       \/ /\ v.op = "printf"
          /\ StartAcquire(c, PrLock, "printed", v) /\ UNCHANGED <<proc, wild>>
       \/ /\ v.op = "kill"
          /\ proc' = [proc EXCEPT ![v.p].killed = TRUE,
                        ![v.p].state = IF @ = "SLEEPING" THEN "RUNNABLE" ELSE @]
          /\ GotoPc(c, "sysret") /\ UNCHANGED <<cpu, panicked, wild>>

Syscall(c) ==
    LET calls == work.calls[cpu[c].proc] IN
    /\ At(c, "user")
    /\ IF Killed(c) \/ calls = <<>>
       THEN Exits(c) /\ UNCHANGED <<work, got, wild>>
       ELSE Call(c, Head(calls))
    /\ UNCHANGED <<lock, cons, active, ticks, rx, claimed>>

UserTrapRet(c) ==
    /\ cpu' = [cpu EXCEPT ![c].sie = TRUE]
    /\ Goto(c, Simple("user"))
    /\ UNCHANGED <<proc, panicked>>

(* usertrap after a system call.                                            *)
SysRet(c) ==
    /\ At(c, "sysret")
    /\ IF Killed(c) THEN Exits(c) ELSE UserTrapRet(c)
    /\ UNCHANGED <<lock, cons, active, ticks, rx, claimed, work, got, wild>>

(* forkret: a process's first step, once the scheduler's p->lock is gone.   *)
Forkret(c) ==
    /\ At(c, "forkret")
    /\ UserTrapRet(c)
    /\ UNCHANGED <<lock, cons, active, ticks, rx, claimed, work, got, wild>>

-----------------------------------------------------------------------------
(* trap.c: interrupts.                                                      *)

(* A trap turns the interrupts off; devintr looks at the cause.             *)
Interrupt(c, pc) ==
    /\ Running /\ cpu[c].sie
    /\ cpu' = [cpu EXCEPT ![c].sie = FALSE]
    /\ frames' = [frames EXCEPT ![Thread(c)] = Append(@, Simple(pc))]
    /\ UNCHANGED <<proc, lock, cons, active, ticks, rx, claimed, got, panicked, wild>>

TimerInterrupt(c) ==
    /\ work.timers[c] > 0
    /\ Interrupt(c, "timer")
    /\ work' = [work EXCEPT !.timers[c] = @ - 1]

UartInterrupt(c) ==
    /\ rx # <<>> /\ claimed = 0
    /\ Interrupt(c, "claim")
    /\ UNCHANGED work

(* The first CPU keeps the time.                                            *)
Clock(c) ==
    /\ At(c, "timer")
    /\ IF c = 1 THEN StartAcquire(c, TicksLock, "tick", NoArgs)
       ELSE GotoPc(c, "yield") /\ UNCHANGED <<cpu, panicked>>
    /\ UNCHANGED <<proc, lock, cons, active, ticks, rx, claimed, work, got, wild>>

(* clockintr.                                                               *)
Tick(c) ==
    /\ At(c, "tick")
    /\ ticks' = (ticks + 1) % UINT
    /\ proc' = WokenUp(TicksLock)
    /\ ToRelease(c, "yield")
    /\ UNCHANGED <<cpu, lock, cons, active, rx, claimed, work, got, panicked, wild>>

(* plic_claim gives nothing if another CPU has been faster.                 *)
Claim(c) ==
    /\ At(c, "claim")
    /\ IF rx # <<>> /\ claimed = 0
       THEN claimed' = c /\ GotoPc(c, "uart")
       ELSE UNCHANGED claimed /\ GotoPc(c, "trapret")
    /\ UNCHANGED <<cpu, proc, lock, cons, active, ticks, rx, work, got, panicked, wild>>

(* Faulty variant: plic_complete is not called.                             *)
CompleteNever(c) == UNCHANGED claimed

Complete(c) == claimed' = 0

(* An iteration of uartintr, to the acquire of consoleintr.                 *)
Uart(c) ==
    /\ At(c, "uart")
    /\ IF rx = <<>>
       THEN Complete(c) /\ GotoPc(c, "trapret") /\ UNCHANGED <<cpu, rx, panicked, wild>>
       ELSE /\ AcquireActive(c, "input", [k |-> active, ch |-> Head(rx), next |-> "uart"])
            /\ rx' = Tail(rx)
            /\ UNCHANGED claimed
    /\ UNCHANGED <<proc, lock, cons, active, ticks, work, got>>

(* Faulty variant: one character too many.                                  *)
AcceptsMore(q, ch) == ch # "NUL" /\ (q.e - q.r) % UINT <= INPUT_BUF

Accepts(q, ch) == ch # "NUL" /\ (q.e - q.r) % UINT < INPUT_BUF

(* What the ordinary case of consoleintr stores.                            *)
Stored(q, ch) ==
    LET char == IF ch = "CR" THEN "NL" ELSE ch
        e == (q.e + 1) % UINT
        full == e = (q.r + INPUT_BUF) % UINT
    IN  [q EXCEPT !.buf[q.e % INPUT_BUF] = char, !.e = e,
                  !.w = IF char \in {"NL", "EOF"} \/ full THEN e ELSE @]

(* Control-U.                                                               *)
LineKilled(q) ==
    LET s == Chars(q, q.w, q.e)
        lines == {i \in 1 .. Len(s) : s[i] = "NL"}
        keep == CHOOSE i \in lines \cup {0} : \A j \in lines : j <= i
    IN  [q EXCEPT !.e = (q.w + keep) % UINT]

Erased(q) == IF q.e = q.w THEN q ELSE [q EXCEPT !.e = (@ - 1) % UINT]

(* The section of consoleintr. Control-P calls printf in it.                *)
Input(c) ==
    LET v == Top(c).v
        q == cons[v.k]
        new == CASE v.ch = "KILL" -> LineKilled(q)
                 [] v.ch = "BS" -> Erased(q)
                 [] OTHER -> IF Accepts(q, v.ch) THEN Stored(q, v.ch) ELSE q
    IN  /\ At(c, "input")
        /\ IF v.ch = "PS"
           THEN /\ StartAcquire(c, PrLock, "printed", [v EXCEPT !.next = "printed PS"])
                /\ UNCHANGED <<proc, cons>>
           ELSE IF v.ch = "SWITCH"
           THEN ToRelease(c, "switch") /\ UNCHANGED <<cpu, proc, cons, panicked>>
           ELSE /\ cons' = [cons EXCEPT ![v.k] = new]
                /\ proc' = IF new.w = q.w THEN proc ELSE WokenUp(ConsLock(v.k))
                /\ ToRelease(c, "uart") /\ UNCHANGED <<cpu, panicked>>
        /\ UNCHANGED <<lock, active, ticks, rx, claimed, work, got, wild>>

ProcDumped(c) ==
    /\ At(c, "printed PS")
    /\ Goto(c, [Top(c) EXCEPT !.pc = "release", !.lk = ConsLock(Top(c).v.k), !.then = "uart"])
    /\ UNCHANGED <<cpu, proc, lock, cons, active, ticks, rx, claimed, work, got,
                   panicked, wild>>

(* The end of consoleintr after control-T.                                  *)
Switch(c) ==
    /\ At(c, "switch")
    /\ active' = (active % (NCONS + 1)) + 1
    /\ StartAcquire(c, PrLock, "printed", Top(c).v)
    /\ UNCHANGED <<proc, lock, cons, ticks, rx, claimed, work, got, wild>>

(* The end of a timer trap: usertrap lets a killed process exit, and a      *)
(* process gives up the CPU, to come back at the return from the trap.      *)
Yield(c) ==
    /\ At(c, "yield")
    /\ IF FromUser(c) /\ Killed(c) THEN Exits(c)
       ELSE IF cpu[c].proc = 0
       THEN GotoPc(c, "sret") /\ UNCHANGED <<cpu, proc, panicked>>
       ELSE /\ Sched(c, PushOff(cpu[c]), [proc[cpu[c].proc] EXCEPT !.state = "RUNNABLE"])
            /\ GotoPc(c, "sret")
    /\ UNCHANGED <<lock, cons, active, ticks, rx, claimed, work, got, wild>>

(* The end of a trap of the UART, and what follows the yield.               *)
TrapRet(c) ==
    /\ At(c, "trapret") \/ At(c, "sret")
    /\ IF FromUser(c) /\ Killed(c) /\ At(c, "trapret") THEN Exits(c)
       ELSE /\ cpu' = [cpu EXCEPT ![c].sie = TRUE]
            /\ frames' = [frames EXCEPT ![Thread(c)] = Front(@)]
            /\ UNCHANGED <<proc, panicked>>
    /\ UNCHANGED <<lock, cons, active, ticks, rx, claimed, work, got, wild>>

(* A character arrives at the UART.                                         *)
Typed ==
    /\ Running /\ work.input # <<>>
    /\ rx' = Append(rx, Head(work.input))
    /\ work' = [work EXCEPT !.input = Tail(@)]
    /\ UNCHANGED <<cpu, proc, frames, lock, cons, active, ticks, claimed, got,
                   panicked, wild>>

-----------------------------------------------------------------------------
(* Every CPU is in its scheduler; the indices are about to wrap around.     *)
Init ==
    /\ cpu = [c \in Cpus |-> [sie |-> TRUE, noff |-> 0, intena |-> FALSE, proc |-> 0]]
    /\ work \in Workloads
    /\ proc = [p \in Procs |->
                 [state |-> IF work.calls[p] = <<>> THEN "UNUSED" ELSE "RUNNABLE",
                  chan |-> NoChan, killed |-> FALSE, intena |-> FALSE]]
    /\ frames = [t \in (-NCPU .. -1) \cup Procs |->
                   <<Simple(IF t < 0 THEN "scheduler" ELSE "forkret")>>]
    /\ lock = [lk \in Locks |-> 0]
    /\ cons = [k \in Consoles |->
                 [buf |-> [i \in 0 .. (INPUT_BUF - 1) |-> "NUL"],
                  r |-> UINT - 1, w |-> UINT - 1, e |-> UINT - 1]]
    /\ active = 1 /\ ticks = UINT - 1
    /\ rx = <<>> /\ claimed = 0 /\ got = [p \in Procs |-> <<>>]
    /\ panicked = FALSE /\ wild = FALSE

Step(c) ==
    \/ Acquire(c) \/ Release(c) \/ Loop(c) \/ Dispatch(c) \/ Slept(c)
    \/ Read(c) \/ Write(c) \/ Printed(c) \/ SysSleep(c) \/ Syscall(c) \/ SysRet(c) \/ Forkret(c)
    \/ Clock(c) \/ Tick(c) \/ Claim(c) \/ Uart(c) \/ Input(c) \/ ProcDumped(c) \/ Switch(c)
    \/ Yield(c) \/ TrapRet(c)

Next == Typed \/ \E c \in Cpus : Step(c) \/ TimerInterrupt(c) \/ UartInterrupt(c)

(* A CPU goes on executing, and takes an interrupt that stays pending.      *)
Fairness == \A c \in Cpus : WF_vars(Step(c)) /\ WF_vars(UartInterrupt(c))

Spec == Init /\ [][Next]_vars
FairSpec == Spec /\ Fairness

-----------------------------------------------------------------------------
(* noff counts the locks a CPU holds or is about to take. The interrupts    *)
(* are off while there is one and throughout a trap, whatever threads have  *)
(* run in between, and on while a process executes a system call. So the    *)
(* panics of acquire, release, pop_off and sched are not reached: a CPU     *)
(* never takes a lock it holds, though its interrupts take the same locks,  *)
(* and threads switch with exactly p->lock held.                            *)
InterruptsMatched ==
    /\ ~panicked
    /\ Running => \A c \in Cpus :
         LET held == Cardinality({lk \in Locks : lock[lk] = c})
         IN  /\ cpu[c].noff = held + (IF Top(c).pc = "spin" THEN 1 ELSE 0)
             /\ (cpu[c].noff > 0 \/ InTrap(c)) => ~cpu[c].sie
             /\ Top(c).pc \in {"user", "slept", "sysret"} => cpu[c].sie

(* A process that sleeps in a read has nothing to read, and one in          *)
(* sys_sleep has time left.                                                 *)
SleepersShort ==
    \A p \in Procs : proc[p].state = "SLEEPING" =>
      LET v == Last(frames[p]).v
      IN  IF v.op = "read" THEN cons[v.k].r = cons[v.k].w
          ELSE (ticks - v.t0) % UINT < v.n

(* The buffer of a console, with its indices that wrap around, is a         *)
(* terminal.                                                                *)
T == INSTANCE Terminal WITH
       line <- [k \in Consoles |-> Chars(cons[k], cons[k].w, cons[k].e)],
       ready <- [k \in Consoles |-> Chars(cons[k], cons[k].r, cons[k].w)]
IsTerminal == T!Spec

(* In the end everything typed has been handled and every process has       *)
(* finished or sleeps.                                                      *)
Settles ==
    <>[](\/ wild \/ panicked
         \/ /\ rx = <<>>
            /\ \A p \in Procs : proc[p].state \in {"UNUSED", "SLEEPING", "ZOMBIE"})
=============================================================================
