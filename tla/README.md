# A TLA+ model of the xv6-riscv-container kernel

xv6-riscv-container is a small multi-core Unix kernel (RISC-V, C) to which
containers have been added: groups of processes with their own root directory,
process ids, limits and turn in the scheduler. This directory holds TLA+
modules translated from `src/kernel`, the TLC configurations that check them on
small instances, and TLAPS proofs of the properties that matter most.
`PROJECT.json` lists the components, runs, findings, hazards and theorems, and
maps every definition to the source lines it models.

## The system

| part | module | what makes it hard |
|---|---|---|
| write-ahead log (`log.c`) | Log, AtomicDisk | crash at any disk write; space reserved before it is used; sleepers in begin_op |
| buffer cache (`bio.c`, `sleeplock.c`) | BufferCache | the lock is taken after the reference; dirty blocks live only in pinned buffers |
| disk driver (`virtio_disk.c`) | VirtioDisk, BlockDevice | answers out of order, rings with two moduli, descriptors taken one by one |
| inodes, directories, paths (`fs.c`, `sysfile.c`) | Inodes | last reference against last link; lock order; failure paths that must take counts back |
| open files (`file.c`, `sysfile.c`) | Files | reference counts on error paths; shared offsets; transactions that must fit |
| file contents (`fs.c`) | FileData, ByteFiles | indirect blocks, reuse of freed blocks, copies that fail part-way |
| pipe (`pipe.c`) | Pipe, BoundedFifo | lost wakeups, wrap-around, close against sleepers, kill |
| process life cycle (`proc.c`) | Proc | two-lock protocols, fields read without locks, slots reused |
| scheduler (`proc.c`) | Sched | several CPUs in one table; the container test is cached in `cindex` |
| containers (`proc.c`) | Container, Sched | limits and numbers read and written without locks; cstop against everything |
| memory (`kalloc.c`, `vm.c`, `exec.c`, `proc.c`) | Memory | cleaning up half-built page tables; sizes modulo 2^32 |
| console, UART, clock (`console.c`, `uart.c`, `trap.c`) | Console, Terminal | interrupts at every step, ring indices that wrap, readers racing the line |
| spin-locks and traps (`spinlock.c`, `trap.c`, `plic.c`) | Console, Proc | nested disabling of interrupts across a change of CPU |

System calls reach the disk only through the log, the log only through the
buffer cache, the cache only through the driver, and every wait in the kernel
is the sleep/wakeup pair of `proc.c` under some spin-lock. Where one part
relies on another, its module uses what the other one promises: Log and Files
use a cache that returns the last contents (BufferCache's ReadsLatest),
BufferCache a disk that transfers a block once per call (BlockDevice), Inodes
and Files system calls that are transactions (AtomicDisk).

## Conventions

What the code does between `acquire` and `release` of a spin-lock (or the
`sleep` that releases it) is one step, because nothing that respects the lock
can see inside; where two locks are held in turn, or a field is read without
its lock, each acquisition or read is a step of its own. In Proc and Console
the locks are variables. Each disk write is a step. `sleep` takes `p->lock`
before it releases the caller's lock, and `wakeup` needs `p->lock`, so "release
and be asleep" is one step.

Operators introduced by "Faulty variant" are plausible wrong versions of the
definition after them, used to see that a property notices; no specification
uses them.

## Modules

**Log**, **AtomicDisk** (`log.c`). Processes go through begin_op, any number of
log_writes and end_op; the last one out commits block by block. `Crash` can
happen in any state, also during recovery, and may leave the block being
written torn; the header is one sector and is written whole. log_write's panic
tests are made before `log.lock` and before the search for the block in the log,
as in the code. A call logs up to MAXOPBLOCKS distinct blocks, each as often as
it likes; that it logs no more is taken from param.h:9 ("max # of blocks any FS
op writes"). Files shows it for write, and that it fails for itrunc
(MCFilesTruncate). AtomicDisk is what the log promises: durable contents that
change only by whole transactions, when no call is in progress. The refinement
maps `durable` to what recovery would produce from the present disk.

**BufferCache** (`bio.c`, `sleeplock.c`). bget (hit, recycle the least recently
used free buffer, or panic), acquiresleep, the disk read, modification with
log_write's bpin, install_trans's bwrite and bunpin, and brelse in its two
steps. A process has one buffer in hand. `refcnt` wraps around like the
unsigned int it is. `RecoverySpec` adds recovery's install_trans, which unpins
blocks nobody has pinned.

**VirtioDisk**, **BlockDevice** (`virtio_disk.c`). alloc3_desc with its failure
path, the chain of three descriptors, both rings with their indices, the sleep
for descriptors and the sleep for the answer, free_chain, the interrupt, and
kill, which wakes any sleeper. The device is external: it takes requests in
order, performs them in any order, and follows the descriptors as it finds them
at that moment. BlockDevice says each request transfers once, between call and
return.

**Inodes** (`fs.c`, `sysfile.c`). The inode cache (iget, idup, ilock, iunlock,
iput), directories, namex, and the bodies of open, mkdir, mknod, link, unlink,
chdir, close and cinit's change of root, with every failure path. A step runs
from one acquisition of a sleep-lock to the next; iput is in four steps.
`ContainerSpec` adds cinit, after which walks start at the container's root.

**Files**, **FileData**, **ByteFiles** (`file.c`, `sysfile.c`, `fs.c`).
FileData has balloc, bfree, bmap, itrunc and the loop bodies of readi and
writei as functions of the file system's state, with the blocks each one logs.
Files has the file table, descriptors, and open, dup, close, pipe, read, write,
unlink, fork and exit as they move references, with a step for every iteration
of writei. ByteFiles says that a file is a sequence of cells.

**Proc** (`proc.c`). Slots with a state, a parent, a pid, a killed flag and a
lock; exit takes init's lock, its own, its parent's and its own again, gives
its children away one at a time and becomes a zombie; wait scans with its own
lock held; kill reads the pid first and locks afterwards, and pid 0 matches free
slots. Failing allocproc and fork, and a copyout failure in wait, are included.

**Sched** (`proc.c`). Each CPU walks the table with its own `cindex`; the
search for the next container happens with `p->lock` held; cinit is in two
steps because it looks up a directory in between; cpause and cresume act at any
time on a container that has a name, which cinit gives it as it claims it. cstop
is not in this module: a stopped container keeps its name, and cresume could
mark it running again. `SuspendSpec` adds suspend and kill.

**Container** (`proc.c`, `fs.c`). fork's limit with numproc's unlocked count
slot by slot, virtual pids, kill by vpid in its unlocked and locked halves,
cinit's choice and claim, cstop, and the kill that balloc issues at the disk
limit. kill marks free slots too, by the container and vpid they had last, and
fork does not clear the mark. When cstop frees a process that is still running
the model sets `broken` and stops: the code promises nothing for that thread.

**Memory** (`kalloc.c`, `vm.c`, `exec.c`, `proc.c`, `sysproc.c`). The free list
and page tables (walk, mappages, uvmunmap, uvmalloc, uvmdealloc, uvmcopy,
freewalk), exec, resume, sbrk, psinfo, fork and wait. A call is one step, since
no other process touches its page tables; which of its kallocs fail is an
input. resume takes the sizes it finds in the header of the file. The run gives
it headers as suspend writes them; suspend reads the size of the process twice
without its lock (proc.c:875), so the two may differ, and then the process that
resumes has a size that is not that of its page table (`odd`). Other contents
of the file are not explored. Pages that proc_freepagetable leaves behind are
kept in `dropped`, those of page tables and those of the user apart. copyin, copyout and copyinstr are operators compared with a reference
definition in every reachable address space.

**Console**, **Terminal** (`console.c`, `uart.c`, `trap.c`, `spinlock.c`,
`plic.c`, `proc.c`). CPUs execute threads, threads are stacks of frames, and a
UART or timer interrupt may come between any two steps of a CPU whose
interrupts are on. push_off and the swap of acquire are steps of their own.
consoleread, consolewrite, consoleintr with line editing, sys_sleep and the
clock run on top. Terminal says what a reader gets.

**Pipe**, **BoundedFifo** (`pipe.c`). Byte by byte, `pi->lock` explicit,
`killed` set at any moment. BoundedFifo is what a pipe promises.

## Runs

| run | bounds | states | shows |
|---|---|---|---|
| `log` | 3 processes, 2 blocks, 2 contents, a log of 2 blocks, 1 for each call | 139,360 | log_write panics only when the calls have used up their reservation, space reserved, an atomic disk across crashes, every sleeper in begin_op is woken |
| `bcache` | 3 processes, 3 blocks, 2 buffers | 56,528 | exact reference counts and one buffer per block, a buffer in use is not recycled, reads see the last write |
| `bcache_recovery` (violated) | the same | | after a recovery a buffer in use can be recycled |
| `virtio` | 3 processes, 7 descriptors, indices modulo 14 | 98,169 | chains disjoint, nobody sleeps for descriptors that are there, a block device, every request returns |
| `inodes` | 2 processes, 3 inodes, 3 cache entries, 2 names | 330,935 | exact reference and link counts, no panic, no wait inside iput, no circle of locks |
| `files` | 2 processes, 2 inodes, 5 blocks of 2 cells, one direct block | 335,819 | files, inodes and pipes are counted, blocks have one owner, writes fit a transaction, shared offsets lose nothing, contents are sequences |
| `pipe` | 2 writers, 1 reader, ring of 2, counters modulo 4 | 699,520 | no lost wakeup, no use after the free, first in first out |
| `proc` | 4 slots, 5 pids, one process that kills one other or pid 0 | 611,114 | no zombie under a sleeping parent, every process has a live parent, no circle of locks except through a reused slot |
| `sched` | 2 CPUs, 3 processes, 2 containers | 403,576 | one CPU per process; a paused container gets at most one more process per CPU; a sole running container starves nobody |
| `container` | 6 slots, 2 CPUs, 3 containers | 159,211 | vpids unique outside of cinit, forks at most NCPU - 1 over the limit while no container is stopped, kill marks slots of the caller's container only |
| `memory` | 2 processes, 18 pages of 2 units, sizes modulo 128 | 14,956 | no page shared or freed twice, which calls lose pages, sizes and mappings agree unless the header's sizes differed, which calls can panic, copies exact |
| `console` | 2 CPUs, 2 processes, 2 consoles, buffer of 2, indices modulo 4 | 195,711 | interrupts off exactly where needed, nobody sleeps over input or past its time, a terminal, all input is handled |

**Bounds.** They are the smallest at which the cases meet. Three log users share
a log for two calls of one block each, so begin_op sleeps both for space and for
a commit, and the log fills up under a call that goes on logging. Three blocks
in two buffers force recycling, and pins or three users exhaust them. Seven
descriptors are two requests and one to spare, so a third request gets one and
gives it back; 14 is the smallest multiple of 7 above it. Two processes and two
names give unlink against open, link and mkdir of the same entry, in a directory
that is somebody's current one. One direct block and blocks of two cells give a
file that needs its indirect block; five blocks run out. A ring of two with
counters modulo four wraps both. Four slots with five pids are what it takes to
give the slot of a parent to a grandchild of a process in exit; kills are limited
to process 4 in slot 2 and, in slot 3, process 3 or a free slot (`FewKills`),
which still meet a slot that is given out or reused before it is locked, and
MCProcDeadlock has none; the proofs of the three properties are not limited. Two
containers on two CPUs let one be paused while chosen. 18 pages let two processes grow, fork and exec; failures do
not depend on running out, because each call is tried with every set of denied
kallocs in `MCDenials`. The workloads in MCFiles, MCContainer, MCConsole,
MCInodes and MCVirtioDisk give each process a set of calls; each set brings one
group of races together, and an initial state picks one of them.

Symmetry is used in `bcache` for processes and blocks; it has no liveness
property. `memory` identifies states that differ only in the numbers of pages
(`MCView`), and only where the accounting holds. `inodes` does not follow calls
after one has walked out of a removed directory (`LostCallOnly`): "." and ".."
of such a directory lead to inodes the code promises nothing about.

**Deadlock** is checked in `log` and `virtio`; after a panic `log` has only the
crash left, which is always possible. Elsewhere it is off because the
system may really stop: everybody has exited or closed (`pipe`), pids are used
up (`proc`, `container`), all containers are paused (`sched`), the input and the
calls have been used up (`console`), or a panic of the code for want of a
resource has been reached, after which nothing runs: no free buffer (`bcache`),
no page (`memory`), no inode or cache entry (`inodes`), no block (`files`).
Circles of locks are looked for by properties of their own (NoDeadlock in `proc`
and `inodes`).

**Fairness.** *log*: a process that can run keeps running (weak), and a call
makes finitely many log writes, so that end_op is eventually taken (strong,
because log_write disables it again and again). *sched*: each CPU keeps
executing and the timer interrupts what it runs; `start.c` arms the timer on
every CPU. *virtio*: the device works on what it is offered, a pending interrupt
is taken by some CPU, a process that is awake gets to run. *console*: a CPU
keeps executing, and a pending UART interrupt is taken by a CPU that stays able
to take it. All are weak except the one for end_op. Nothing is assumed of
users: calls, kills, typing and crashes need never happen. That a process which
is awake gets to run, which *log*, *virtio* and *console* assume, is the
scheduler's promise; `sched` shows that it keeps it while one container runs
(SoleContainerRuns), and MCSchedStarve that it need not with several. So
SleepersWake, Answered and Settles are about a system with one running container.

## Proofs

All theorems hold for every value of the constants that satisfies the named
assumptions of the modules; those say that sets are finite and numbers are in
the order in which the code needs them.

*LogProofs* proves `Spec => [](TypeOK /\ SpaceReserved /\ CommitAlone /\
NoLostWakeup)`, and `Spec => []PanicsOnlyFull`, for any number of log blocks on
disk (`NLOG`). That number is in the super block, which mkfs makes, and mkfs is
not among the sources: the run takes LOGSIZE data blocks and a header, and where
there are fewer, calls can panic before they have used their reservation, by as
many blocks as are missing (`Missing`). The invariant is `IInv`: `outstanding`
counts the calls in progress (`Counted`); `committing` holds exactly while
somebody is in commit (`CommitFlag`); during recovery nobody is in a call (`Quiet`); the log is empty
when nobody uses it (`LogIdle`); a call's blocks are in the log (`WroteLogged`)
and within its budget (`Budget`); the loop variable is inside the log
(`Cursor`). `SpaceReserved` alone is not inductive: that log_write adds at most
one block, and gives back one token of the reservation when it does, needs
`WroteLogged` and `Budget`; that begin_op's test is about the same number needs
`Counted`. `PanicsOnlyFull` follows: where log_write finds the log full,
SpaceReserved leaves no room for a token. A call that has used all its budget
can get there, because the test comes before the search for the block
(MCLogFull).

It also proves that the log implements AtomicDisk (`LogIsAtomic`), with
a crash and a torn block at any write and during recovery. `DataInv` adds to
`IInv` where the contents are: the header on disk is empty, or is the log being
installed, and has no block twice (`Header`, which needs log_write's
absorption); a block that is not logged or in hand is the same in the cache and
on disk (`Clean`); how much of the log is written (`Copied`) and installed
(`Installed`). `Overlay` is recovery as a function of header, log and disk: it
does not see home blocks the header covers, so installing them, once or again,
and tearing them change nothing; writing the log changes nothing while the
header is empty; writing the header is the commit.

*PipeProofs* proves `NoLostWakeup` and `NoUseAfterFree`. The invariant says who
holds `pi->lock`, that a call keeps its descriptor and the open flags say
whether an end has descriptors, what the test before a sleep established, and
that a sleeper has a reason to sleep or the holder of the lock will wake it.
The module also proves that the pipe implements BoundedFifo (`PipeIsFifo`): the
bytes between `nread` and `nwrite`, taken modulo WIDTH and indexed modulo
PIPESIZE, are a sequence that a write extends and a read shortens; this rests on
WIDTH being a multiple of PIPESIZE and on the ring never holding more than
PIPESIZE bytes (`Within`).

*BufferCacheProofs* proves `RefCounted`, `BufferKept` and `ReadsLatest`. A
process inside a call has the buffer of the block it asked for, and the lock if
it got that far (`InUse`); the last contents of a block are in its buffer if
that is valid, on disk unless the block is logged, and then it has a valid
buffer (`Fresh`). `RefCounted` gives both: a buffer with a user or a pinned
block has refcnt at least 1, so bget's recycling cannot take it.

*SchedProofs* proves `OneCPU` and `PausedOnce`. A CPU in a process stands at that
process's slot (`InProcess`), no two CPUs hold the lock of one slot while they
look for the next container (`OneLock`), and a CPU whose walk stands at a paused
container has run nothing of it since the pause (`NotYetLate`): had it, it would
have moved on with the slot's lock still held.

*ContainerProofs* proves `VpidsUnique`, `KillContained` and `ForkLimit`. A
process in a call is alive and the child of a fork belongs to one fork and does nothing (`InCall`),
what kill and cinit remember of the caller's container is still true
(`SameCont`), and the vpids given out in a container are below its counter and
different (`VpidsGiven`); a process in the middle of cinit, with the new
container and the old vpid (proc.c:999-1016), is left out of VpidsUnique.
`VpidsGiven` needs cinit's double use of a container to draw from one counter,
and leaves out slots whose vpid is of an earlier life.
For `ForkLimit`, a fork in progress *sees* what it has counted and the members
in the slots it has still to look at. For every limit l from the container's own
upwards, if there are forks that see fewer than l, the members and these forks
are together at most l + NCPU - 1 (`RoomFor`): a fork that begins sees all
members and there are at most NCPU forks, one that lets its child in takes the
place of a fork that saw room, and a member that leaves after it was counted is
paid for by the inequality for l + 1. That nobody comes in by cinit meanwhile
needs that a container with a process in it is running (`Claimed`). cstop breaks
this, which is how the condition of `ForkLimit` was found.

*ProcProofs* proves `NoLostExit`, `ParentAlive` and `NoDeadlock`. The invariant
says where a thread can be by the state of its process (`InPlace`), which locks
it holds there (`Locked`), that `other` is a slot where it is used as one and in
exit the parent or a former one (`Target`), that parents are alive (`Family`),
that a child has a larger pid than its parent and pids differ (`Ages`), and that
the children wait has passed in its scan are no zombies (`Scanned`): `NoLostExit`
alone says nothing of a parent that is about to sleep. With `Ages`, locks are
taken in the order of pids, so of the threads in a circle that hold a lock the
one with the largest pid would wait for a larger one. The step that breaks this
order, exit with a remembered slot that was reused, is the exception NoDeadlock
names; the attempt to prove NoDeadlock without it is how it was found.

*InodesProofs*, with the lemmas about single steps in *InodesStepProofs*, proves
Inodes' `RefCounted`, `IputWontBlock` and `NoDeadlock`. `Local` says which
pointers a call has where it is, `Locked` who holds which sleep-lock between two
steps; a valid entry of the cache agrees with the disk on the type, except
between the two writes with which iput frees an inode (`Coherent`); calls work in
directories and link what is not one (`Kinds`); and nobody works in an inode that
is being freed (`Freeing`), because to get there one has to lock it. Every step
adds to the cache at most the one reference that a pointer of the calling
process gains (`Gains`, `StepKeeps`), so the counting over all pointers is done
once for all actions. iput's wait-free lock of the last reference follows from
`RefCounted` and `Locked`: a holder of the lock has a pointer of its own.

For `NoDeadlock`: unlink and create take the lock of a directory and then that
of an inode in it; that this makes no circle is a property of the directories on disk, not of the locks: they form a forest.
`Forest` says that the inodes have ranks such that every entry of a directory
leads to a directory of higher rank, and that the parent and child in the hands
of unlink or create are in this order. mkdir gives the new inode a rank above all
others, link refuses directories, and an unlinked directory is empty. In a
circle the process whose directory has the highest rank would wait for a higher
one.

Only model-checked: liveness (SleepersWake, SoleContainerRuns, Answered,
Settles), the refinements of BlockDevice, ByteFiles and Terminal, Inodes'
EntriesLive and NoPanic, and everything in Files, Memory, VirtioDisk and Console.
Liveness is out of the prover's reach; Memory's copies are recursive operators
over data, for which it has no induction; the others, among them the counting of
links under EntriesLive, are not done.

## Where the code and its comments disagree

The run `bcache_recovery` is expected to be violated: install_trans calls bunpin
on every block it installs (log.c:78), also at recovery, when nobody has pinned
it; refcnt wraps around and a buffer in use can be recycled, though "Only one
process at a time can use a buffer," (bio.c:13).

The following configurations ask more questions of the same modules. They are
not among the regular runs, which are kept to one for each part and the one
violation above; each is run by hand (`tlc -config X.cfg M`, with `-continue` for
MCMemoryDocs, which has three properties) and has a counterexample.

| configuration, module | property | what happens | what is said |
|---|---|---|---|
| MCProcReap, Proc | ZombieReaped | exit wakes init before it is a zombie, and a process handed to init after it copied its old parent wakes the wrong one (proc.c:444): init can sleep over a zombie | "init may miss this wakeup, but that seems harmless." (proc.c:442); "An exited process remains in the zombie state until its parent calls wait()." (proc.c:415) |
| MCProcKill, Proc | KillsThePid | the pid is copied before the lock is taken (proc.c:730): kill can mark a process that has taken the slot since, be it one that was free (the pid 0, the shortest trace) or that of a process that has gone | "Kill the process with the given pid." (proc.c:718) |
| MCProcDeadlock, MCProc | HarmlessRace | exit copies its parent's slot, the parent exits and is reaped, the slot goes to a grandchild of the exiting process: exit locks the grandchild as its parent (proc.c:460) and waits for its child's lock in reparent, while the child, in wait, holds its own lock and waits for the grandchild's (24 states, four slots) | "the result will be a harmless spurious wakeup to a dead or wrong process" (proc.c:451) |
| MCLogFull, MCLog | BudgetEnough | log_write tests for room before it looks whether the block is logged already (log.c:218): a call that has logged all its blocks into a full log and logs one of them again panics | "max # of blocks any FS op writes" (param.h:9), which is what begin_op reserves |
| MCContainerKill, MCContainer | NobodyBornKilled | kill by vpid marks a free slot that was last in the caller's container (proc.c:737), and neither allocproc nor fork clears the mark: the next process there, of any container, is born killed | "Kill the process with the given pid." (proc.c:718) |
| MCContainerStop, MCContainer | LimitAnyway | cstop marks a container unused before it frees its processes (proc.c:1118); two processes enter it by cinit while a fork that has counted one process there has yet to let its child in: four processes, limit two, two CPUs (13 states) | "If exceed maxproc" (proc.c:372) |
| MCSchedStarve, MCSched | RunnableRuns | the two places that advance `cindex` (proc.c:592) can pass over the same process on every walk | "Give up the CPU for one scheduling round." (proc.c:624) |
| MCSchedSuspend, MCSched | NeverTwice | suspend overwrites RUNNING (proc.c:870); a later kill makes the process RUNNABLE while it runs (proc.c:744) | "Wake process from sleep()." (proc.c:745) |
| MCInodesContainer, MCInodes | PointersValid | a walk that starts at the container's root takes no reference but gives one up (fs.c:661): the root's entry is recycled under those who point to it | "iget() increments ip->ref so that the inode stays cached and pointers to it remain valid." (fs.c:177) |
| MCFilesTruncate, MCFiles | TruncateFits | itrunc logs the bitmap block of every freed block in one transaction (fs.c:437) | "max # of blocks any FS op writes" (param.h:9) |
| MCMemoryDocs, MCMemory | NothingLost | with a size of 0 proc_freepagetable frees neither the table nor what it maps (proc.c:262): a fork that fails, an exec that is refused, the wait for a process shrunk to nothing lose the table, an exec without memory for a later segment also the pages of the earlier ones | "Free a process's page table, and free the physical memory it refers to." (proc.c:255) |
| MCMemoryDocs, MCMemory | UvmCopyReturns | when there is no page for the first copy, uvmunmap is asked for a size of 0 and panics (vm.c:340) | "returns 0 on success, -1 on failure." (vm.c:312) |
| MCMemoryDocs, MCMemory | Trampolined | proc_pagetable ignores a failure of mappages | "with no user pages, but with trampoline pages." (proc.c:232) |

Some properties that hold have an exception written into them, because the code
does less than one would expect: a writer killed at a full pipe does not wake
the readers (NoLostWakeup); a fork that fails at the process limit leaves its
duplicated descriptors counted (Files' RefCounted); proc_freepagetable leaves
pages behind when it is given the size 0 (PagesAccounted); a fork, exec or
resume that runs out of pages while it makes a page table or copies the first
page can panic (PanicsOnlyStarved); a process resumed from a header with two
different sizes has pages its size does not tell of, or not the pages it tells
of, and can panic in any call (SizeMapped, PanicsOnlyStarved); forks on several
CPUs can exceed the process limit by one for each other CPU, and by more once a
container has been stopped (ForkLimit); an exit that has copied its parent's
slot can take the lock of a younger process that was given this slot, out of the
order parent before child (Proc's NoDeadlock). Two steps end the behaviour of
the model, because what follows depends on how memory is laid out or on a kernel
thread that was freed: control-T past the last console (console.c:204, `wild`)
and cstop of a process that is running (proc.c:1122, `broken`).

## Not modelled, and why

- **Boot** (`main.c`, `start.c`, `entry.S`, the set-up halves of drivers, the
  kernel's page table): runs once, on one CPU, before anything can interleave.
- **Registers and assembly** (`swtch.S`, `trampoline.S`, `kernelvec.S`): below
  the level of these models. A switch of threads is a step of Console and Sched.
- **Formatting, strings and layouts** (`printf.c`, `string.c`, skipelem, the
  layout of inodes and directory entries in blocks): no property depends on
  them. Only printf's lock is in Console.
- **cinfo**: it fills a `struct ctable` of about 20 KB in the one page it
  allocates, so nothing after it can be modelled.
- **Memory and disk usage of containers**: plain stores from several CPUs to one
  integer, without a lock. They can drift by any amount, so there is no bound to
  state; the kill that balloc issues at the limit is in Container.
- **The bytes of a suspended image**: written and read with the loops of
  filewrite and fileread, which are in Files. The state changes of suspend are in
  Sched, the image resume builds in Memory.
- **Errors of the disk**: the device answers every request with the status 0;
  with another virtio_disk_intr panics (virtio_disk.c:259).
- **Unlogged copies**: when either_copyin fails part-way in writei, what arrived
  is in the buffer and not in the log (fs.c:515). FileData keeps it or has none of
  it; in the code it can also be read once and vanish when the buffer is recycled.
  A file's cells are one value for each inode, which tells owners apart and not
  positions.
- **Several buffers in one hand**: BufferCache gives each process one buffer, so
  it does not say how many buffers a system call needs at once (bio.c:86).
- **User programs**: callers of the kernel. init's loop around wait and the order
  of calls in cstart and suspend are used as assumptions about the environment.
