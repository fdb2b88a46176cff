------------------------------- MODULE Memory -------------------------------
(***************************************************************************)
(* Physical pages and user address spaces: kalloc.c, vm.c, exec.c, the     *)
(* calls exec, sbrk and psinfo, and allocproc, freeproc, proc_pagetable,   *)
(* proc_freepagetable, growproc, resume and the memory half of fork in     *)
(* proc.c.                                                                 *)
(*                                                                         *)
(* A system call builds or takes apart page tables that no other process   *)
(* touches, and asks kalloc for one page at a time, so a call is one step  *)
(* that works on a record w: the free list, the page table at hand, and    *)
(* what has gone wrong. Which of a call's kallocs fail is an input, deny:  *)
(* kalloc gives nothing when other processes have taken the last page or   *)
(* when the caller's container is at its limit, and may give pages again   *)
(* to the next request. Addresses and sizes are in units of which PGSIZE   *)
(* make a page.                                                            *)
(*                                                                         *)
(* Of the tree that walk descends, a page table has its root, the chain of *)
(* table pages above the user's pages (lo) and the chain above TRAMPOLINE  *)
(* and TRAPFRAME (hi): the sizes explored stay below the 512 pages that    *)
(* one lowest-level table page maps.                                       *)
(***************************************************************************)
EXTENDS Integers, FiniteSets, SequencesExt

CONSTANTS
    Procs, InitProc,
    NPAGES,
    PGSIZE,
    UINT,        \* growproc computes sizes modulo UINT
    MaxSize,     \* bound on a process's size that sbrk is called to reach
    Increments,  \* the n of sbrk
    Programs,    \* of a call of exec: the segments of the file, argc, whether
                 \* argv could be read to its end, the room its strings take
    Images,      \* of a process that was suspended, the sizes that suspend
                 \* read one after the other
    Denials      \* the sets of calls of kalloc that fail in one system call

ASSUME MemoryAssumption ==
    /\ NPAGES \in Nat \ {0} /\ PGSIZE \in Nat \ {0}
    /\ UINT > 2 * PGSIZE * (NPAGES + 1)
    /\ InitProc \in Procs

VARIABLES
    free,      \* kmem.freelist
    procs,     \* of each slot: in use, tf, pagetable, sz, and whether sz and
               \* the pages come from a header with two different sizes (odd)
    dropped,   \* the pages that proc_freepagetable left behind: pages of page
               \* tables and user pages
    last,      \* the last system call, whether a kalloc in it failed, and of
               \* its process, before the call, sz and whether it is odd
    panicked

vars == <<free, procs, dropped, last, panicked>>

(* The pages that kinit puts on the free list.                              *)
Pages == 1 .. NPAGES

NoPage == 0
Vpns == 0 .. NPAGES
Down(a) == a \div PGSIZE
Up(a) == (a + PGSIZE - 1) \div PGSIZE

(* The page numbers from a up to but not including b, as far as memory can  *)
(* reach.                                                                   *)
Span(a, b) == [i \in 1 .. (Min({b, NPAGES + 1}) - a) |-> a + i - 1]

NoTable == [root |-> NoPage, hi |-> <<>>, lo |-> <<>>, top |-> {},
            maps |-> [v \in Vpns |-> NoPage], guard |-> {}]
Unused == [used |-> FALSE, tf |-> NoPage, pt |-> NoTable, sz |-> 0, odd |-> FALSE]

TablePages(pt) == ({pt.root} \cup Range(pt.hi) \cup Range(pt.lo)) \ {NoPage}
UserPages(pt) == {pt.maps[v] : v \in Vpns} \ {NoPage}

Work(pt, deny) ==
    [free |-> free, pt |-> pt, argv |-> {}, page |-> NoPage, n |-> 0, deny |-> deny,
     ok |-> TRUE, failed |-> FALSE, dropped |-> dropped, panic |-> "no"]

Panic(w, why) == [w EXCEPT !.panic = why, !.ok = FALSE]

-----------------------------------------------------------------------------
(* kalloc: the page is NoPage when it fails.                                *)
Kalloc(w) ==
    LET k == w.n + 1 IN
    IF k \in w.deny \/ w.free = {}
    THEN [w EXCEPT !.n = k, !.page = NoPage, !.failed = TRUE]
    ELSE LET r == CHOOSE x \in w.free : \A y \in w.free : x <= y
         IN  [w EXCEPT !.n = k, !.page = r, !.free = @ \ {r}]

(* kfree puts the page on the list without looking whether it is there.     *)
Kfree(w, pg) ==
    IF pg \in w.free THEN Panic(w, "page freed twice")
    ELSE [w EXCEPT !.free = @ \cup {pg}]

(* walk with alloc set: the table pages missing on the way down, r being    *)
(* "hi" or "lo". Those it made stay when a later one cannot be had.         *)
Walk(w, r) ==
    LET Hang(a) == IF a.page = NoPage THEN [a EXCEPT !.ok = FALSE]
                   ELSE [a EXCEPT !.pt[r] = Append(@, a.page)]
        Descend(v, level) ==
            IF ~v.ok \/ Len(v.pt[r]) >= level THEN v ELSE Hang(Kalloc(v))
    IN  Descend(Descend(w, 1), 2)

(* mappages of the user page v, and of TRAMPOLINE or TRAPFRAME.             *)
MapPage(w, v, pg) ==
    LET Set(x) == IF ~x.ok THEN x
                  ELSE IF x.pt.maps[v] # NoPage THEN Panic(x, "remap")
                  ELSE [x EXCEPT !.pt.maps[v] = pg]
    IN  Set(Walk(w, "lo"))

MapTop(w, name) ==
    LET Set(x) == IF ~x.ok THEN x
                  ELSE IF name \in x.pt.top THEN Panic(x, "remap")
                  ELSE [x EXCEPT !.pt.top = @ \cup {name}]
    IN  Set(Walk(w, "hi"))

(* uvmunmap of user pages, freeing them, and of TRAMPOLINE or TRAPFRAME. A  *)
(* size of zero puts last before va: the loop only ends in a panic.         *)
UnmapPage(w, v) ==
    IF w.panic # "no" THEN w
    ELSE IF Len(w.pt.lo) < 2 THEN Panic(w, "uvmunmap: walk")
    ELSE IF w.pt.maps[v] = NoPage THEN Panic(w, "uvmunmap: not mapped")
    ELSE [Kfree(w, w.pt.maps[v]) EXCEPT !.pt.maps[v] = NoPage,
                                        !.pt.guard = @ \ {v}]

UvmUnmap(w, va, size) ==
    FoldLeft(UnmapPage, w,
             Span(Down(va), IF size = 0 THEN UINT ELSE Down(va + size - 1) + 1))

UnmapTop(w, name) ==
    IF w.panic # "no" THEN w
    ELSE IF Len(w.pt.hi) < 2 THEN Panic(w, "uvmunmap: walk")
    ELSE IF name \notin w.pt.top THEN Panic(w, "uvmunmap: not mapped")
    ELSE [w EXCEPT !.pt.top = @ \ {name}]

(* Faulty variant: rounds the new size down and frees the last page in use. *)
UvmDeallocDown(w, oldsz, newsz) ==
    IF newsz >= oldsz \/ Down(newsz) >= Up(oldsz) THEN w
    ELSE UvmUnmap(w, Down(newsz) * PGSIZE, oldsz - Down(newsz) * PGSIZE)

(* uvmdealloc.                                                              *)
UvmDealloc(w, oldsz, newsz) ==
    LET newup == Up(newsz) * PGSIZE IN
    IF newsz >= oldsz \/ Up(newsz) >= Up(oldsz) THEN w
    ELSE UvmUnmap(w, newup, oldsz - newup)

(* One iteration of uvmalloc, and of uvmcopy: a page for v.                 *)
GrowPage(w, v) ==
    LET Undo(x, pg) == IF x.ok \/ x.panic # "no" THEN x ELSE Kfree(x, pg)
        Use(a) == IF a.page = NoPage THEN [a EXCEPT !.ok = FALSE]
                  ELSE Undo(MapPage(a, v, a.page), a.page)
    IN  IF w.ok THEN Use(Kalloc(w)) ELSE w

(* uvminit: the first process's page.                                       *)
UvmInit(w) == GrowPage(w, 0)

Mapped(pt, from) == Cardinality({v \in Vpns : v >= from /\ pt.maps[v] # NoPage})

(* Faulty variant: the pages mapped before the failure stay mapped.         *)
UvmAllocKeep(w, oldsz, newsz) ==
    LET Result(x) == [w |-> x, sz |-> IF x.ok THEN newsz ELSE 0]
    IN  IF newsz < oldsz THEN [w |-> w, sz |-> oldsz]
        ELSE Result(FoldLeft(GrowPage, w, Span(Up(oldsz), Up(newsz))))

(* uvmalloc: on failure the pages it mapped are unmapped again; the table   *)
(* pages stay. It returns sz, 0 on failure.                                 *)
UvmAlloc(w, oldsz, newsz) ==
    LET from == Up(oldsz)
        Stopped(x) == (from + Mapped(x.pt, from)) * PGSIZE
        Result(x) == IF x.ok THEN [w |-> x, sz |-> newsz]
                     ELSE [w |-> UvmDealloc(x, Stopped(x), from * PGSIZE), sz |-> 0]
    IN  IF newsz < oldsz THEN [w |-> w, sz |-> oldsz]
        ELSE Result(FoldLeft(GrowPage, w, Span(from, Up(newsz))))

(* uvmcreate and proc_pagetable, which does not look whether mappages could *)
(* map the two pages.                                                       *)
ProcPagetable(w) ==
    LET Rooted(r) == [r EXCEPT !.pt = [NoTable EXCEPT !.root = r.page]]
        Anyway(x) == [x EXCEPT !.ok = TRUE]
        Fill(r) == IF r.page = NoPage THEN Panic(r, "uvmcreate: out of memory")
                   ELSE Anyway(MapTop(Anyway(MapTop(Rooted(r), "TRAMPOLINE")), "TRAPFRAME"))
    IN  Fill(Kalloc(w))

(* freewalk.                                                                *)
Freewalk(w) ==
    IF UserPages(w.pt) # {} \/ w.pt.top # {} THEN Panic(w, "freewalk: leaf")
    ELSE [w EXCEPT !.free = @ \cup TablePages(w.pt), !.pt = NoTable]

(* uvmfree.                                                                 *)
UvmFree(w, sz) ==
    LET Tables(u) == IF u.panic # "no" THEN u ELSE Freewalk(u)
    IN  Tables(UvmUnmap(w, 0, sz))

(* proc_freepagetable. With sz = 0 nothing that the page table still holds  *)
(* is freed, and its caller forgets it.                                     *)
ProcFreePagetable(w, sz) ==
    LET Drop(t) == [t EXCEPT !.dropped.tables = @ \cup TablePages(t.pt),
                             !.dropped.users = @ \cup UserPages(t.pt),
                             !.pt = NoTable]
        Rest(t) == IF t.panic # "no" THEN t
                   ELSE IF sz = 0 THEN Drop(t) ELSE UvmFree(t, sz)
    IN  Rest(UnmapTop(UnmapTop(w, "TRAMPOLINE"), "TRAPFRAME"))

(* freeproc of a process whose page table is in w.                          *)
FreeProc(w, tf, sz) == ProcFreePagetable(Kfree(w, tf), sz)

(* The loop of uvmcopy.                                                     *)
CopyPages(w, old, sz) ==
    LET Flags(y, v) == IF y.ok THEN [y EXCEPT !.pt.guard = @ \cup (old.guard \cap {v})]
                       ELSE y
        CopyPage(x, v) ==
            IF ~x.ok THEN x
            ELSE IF Len(old.lo) < 2 THEN Panic(x, "uvmcopy: pte should exist")
            ELSE IF old.maps[v] = NoPage THEN Panic(x, "uvmcopy: page not present")
            ELSE Flags(GrowPage(x, v), v)
    IN  FoldLeft(CopyPage, w, Span(0, Up(sz)))

(* Faulty variant: the pages copied before the failure are left to freeproc.*)
UvmCopyKeep(w, old, sz) == CopyPages(w, old, sz)

(* uvmcopy. When it fails, what it mapped below the page it stopped at is   *)
(* unmapped: when that is the first page, nothing is, and uvmunmap is given *)
(* a size of zero.                                                          *)
UvmCopy(w, old, sz) ==
    LET Err(c) == IF c.ok \/ c.panic # "no" THEN c
                  ELSE UvmUnmap(c, 0, Mapped(c.pt, 0) * PGSIZE)
    IN  Err(CopyPages(w, old, sz))

(* walkaddr, which refuses pages without PTE_U.                             *)
Walkaddr(pt, v) ==
    IF v \notin Vpns \/ Len(pt.lo) < 2 \/ v \in pt.guard THEN NoPage ELSE pt.maps[v]

(* Faulty variant: the last piece is not cut to what is left to copy.       *)
RECURSIVE CopyWhole(_, _, _, _)
CopyWhole(pt, va, len, done) ==
    IF len <= 0 THEN [ok |-> TRUE, cells |-> done]
    ELSE LET v  == Down(va)
             at == va % PGSIZE
             n  == PGSIZE - at
         IN  IF Walkaddr(pt, v) = NoPage THEN [ok |-> FALSE, cells |-> done]
             ELSE CopyWhole(pt, (v + 1) * PGSIZE, len - n,
                            done \o [i \in 1 .. n |-> <<Walkaddr(pt, v), at + i - 1>>])

(* copyout and copyin: the cells of physical memory they write or read, in  *)
(* order.                                                                   *)
RECURSIVE Copy(_, _, _, _)
Copy(pt, va, len, done) ==
    IF len = 0 THEN [ok |-> TRUE, cells |-> done]
    ELSE LET v  == Down(va)
             at == va % PGSIZE
             n  == IF PGSIZE - at > len THEN len ELSE PGSIZE - at
         IN  IF Walkaddr(pt, v) = NoPage THEN [ok |-> FALSE, cells |-> done]
             ELSE Copy(pt, (v + 1) * PGSIZE, len - n,
                       done \o [i \in 1 .. n |-> <<Walkaddr(pt, v), at + i - 1>>])

(* copyinstr, of a user memory with '\0' at the addresses nul; the cells it *)
(* copies include the '\0'.                                                 *)
RECURSIVE CopyInStr(_, _, _, _, _)
CopyInStr(pt, va, max, nul, done) ==
    IF max = 0 THEN [ok |-> FALSE, cells |-> done]
    ELSE LET v    == Down(va)
             at   == va % PGSIZE
             n    == IF PGSIZE - at > max THEN max ELSE PGSIZE - at
             ends == {i \in 1 .. n : va + i - 1 \in nul}
             m    == IF ends = {} THEN n ELSE Min(ends)
             now  == done \o [i \in 1 .. m |-> <<Walkaddr(pt, v), at + i - 1>>]
         IN  IF Walkaddr(pt, v) = NoPage THEN [ok |-> FALSE, cells |-> done]
             ELSE IF ends # {} THEN [ok |-> TRUE, cells |-> now]
             ELSE CopyInStr(pt, (v + 1) * PGSIZE, max - n, nul, now)

-----------------------------------------------------------------------------
(* One iteration of sys_exec's loop: a page for the string argv[i].         *)
ArgPage(w, i) ==
    LET Keep(a) == IF a.page = NoPage THEN Panic(a, "sys_exec kalloc")
                   ELSE [a EXCEPT !.argv = @ \cup {a.page}]
    IN  IF w.panic # "no" THEN w ELSE Keep(Kalloc(w))

(* sys_exec, however it ends, frees the strings.                            *)
FreeArgs(w) == w.free \cup w.argv

(* What a call of p leaves behind: its working record, and the slots.       *)
Done(p, name, w, slots) ==
    /\ free' = FreeArgs(w)
    /\ dropped' = w.dropped
    /\ panicked' = w.panic
    /\ procs' = IF w.panic = "no" THEN slots ELSE procs
    /\ last' = [call |-> name, failed |-> w.failed, sz |-> procs[p].sz,
                odd |-> procs[p].odd]

(* A process without TRAMPOLINE never gets through trampoline.S to its user *)
(* code or back: it makes no call, and does not exit.                       *)
Running(p) == panicked = "no" /\ procs[p].used /\ "TRAMPOLINE" \in procs[p].pt.top

(* fork: allocproc takes a trapframe and a page table, uvmcopy the pages.   *)
(* limit: the container has its maxproc processes. np->sz is 0 until        *)
(* uvmcopy is done.                                                         *)
Fork(p, q, deny, limit) ==
    /\ Running(p) /\ ~procs[q].used
    /\ \E a \in {Kalloc(Work(NoTable, deny))} :
         IF a.page = NoPage THEN Done(p, "fork", a, procs)
         ELSE \E c \in {UvmCopy(ProcPagetable(a), procs[p].pt, procs[p].sz)} :
                IF c.panic # "no" THEN Done(p, "fork", c, procs)
                ELSE IF ~c.ok THEN Done(p, "fork", FreeProc(c, a.page, 0), procs)
                ELSE IF limit THEN Done(p, "fork", FreeProc(c, a.page, procs[p].sz), procs)
                ELSE Done(p, "fork", c,
                          [procs EXCEPT ![q] = [procs[p] EXCEPT !.tf = a.page, !.pt = c.pt]])

(* wait frees a child that has exited.                                      *)
Reap(q) ==
    /\ Running(q) /\ q # InitProc
    /\ Done(q, "wait", FreeProc(Work(procs[q].pt, {}), procs[q].tf, procs[q].sz),
            [procs EXCEPT ![q] = Unused])

(* growproc, whose sizes are of type uint: the working record and p->sz.    *)
GrowProc(w, sz, n) ==
    LET to == (sz + n) % UINT
        Grown(a) == [w |-> a.w, sz |-> IF a.sz = 0 THEN sz ELSE a.sz]
    IN  IF n > 0 THEN Grown(UvmAlloc(w, sz, to))
        ELSE [w |-> UvmDealloc(w, sz, to), sz |-> IF to >= sz THEN sz ELSE to]

Sbrk(p, n, deny) ==
    /\ Running(p)
    /\ procs[p].sz + n <= MaxSize
    /\ \E g \in {GrowProc(Work(procs[p].pt, deny), procs[p].sz, n)} :
         Done(p, "sbrk", g.w, [procs EXCEPT ![p].pt = g.w.pt, ![p].sz = g.sz])

(* psinfo: ptableof fills a page that is copied out and freed. It uses what *)
(* kalloc gives without looking: a store to address 0 is a kerneltrap.      *)
Psinfo(p, deny) ==
    /\ Running(p)
    /\ \E a \in {Kalloc(Work(procs[p].pt, deny))} :
         Done(p, "psinfo", IF a.page = NoPage THEN Panic(a, "kerneltrap") ELSE Kfree(a, a.page),
              procs)

(* loadseg of a segment just allocated: what is to be read into is mapped.  *)
(* Of seg, reads is 0 when its program header cannot be read, 1 when not    *)
(* all of its contents can be, 2 otherwise.                                 *)
Loadseg(a, seg) ==
    IF \E v \in Down(seg.va) .. (Up(seg.va + seg.file) - 1) : Walkaddr(a.w.pt, v) = NoPage
    THEN [w |-> Panic(a.w, "loadseg: address should exist"), sz |-> a.sz, bad |-> TRUE]
    ELSE [w |-> a.w, sz |-> a.sz, bad |-> seg.reads = 1]

(* One iteration of exec's loop over the program headers.                   *)
LoadSegment(s, seg) ==
    LET Load(a) == IF a.sz = 0 \/ seg.va % PGSIZE # 0
                   THEN [w |-> a.w, sz |-> a.sz, bad |-> TRUE]
                   ELSE Loadseg(a, seg)
    IN  IF s.bad \/ s.w.panic # "no" THEN s
        ELSE IF seg.reads = 0 \/ seg.mem < seg.file THEN [s EXCEPT !.bad = TRUE]
        ELSE Load(UvmAlloc(s.w, s.sz, seg.va + seg.mem))

(* uvmclear: the user loses access to page v.                               *)
UvmClear(w, v) ==
    IF Len(w.pt.lo) < 2 THEN Panic(w, "uvmclear") ELSE [w EXCEPT !.pt.guard = @ \cup {v}]

(* The two pages for the stack, the first of them a guard, unless something *)
(* is wrong with the image already. sz is 0 when they cannot be had.        *)
UserStack(img) ==
    LET base == Up(img.sz) * PGSIZE
        Clear(a) == [w |-> IF a.sz = 0 THEN a.w ELSE UvmClear(a.w, Down(base)),
                     sz |-> a.sz, bad |-> a.sz = 0]
    IN  IF img.bad \/ img.w.panic # "no" THEN img
        ELSE Clear(UvmAlloc(img.w, base, base + 2 * PGSIZE))

(* The end of exec and of resume: the image replaces the process's or, when *)
(* something is wrong with it, is freed (bad).                              *)
Install(p, name, stk, refused, size) ==
    IF stk.w.panic # "no" THEN Done(p, name, stk.w, procs)
    ELSE IF stk.bad \/ refused THEN Done(p, name, ProcFreePagetable(stk.w, stk.sz), procs)
    ELSE Done(p, name, ProcFreePagetable([stk.w EXCEPT !.pt = procs[p].pt], procs[p].sz),
              [procs EXCEPT ![p].pt = stk.w.pt, ![p].sz = size,
                            ![p].odd = Up(size) # Up(stk.sz)])

NoImage(w) == [w |-> ProcPagetable(w), sz |-> 0, bad |-> FALSE]

(* exec of a file with an ELF header. The arguments go on the stack's one   *)
(* page, which has a guard page below it.                                   *)
Exec(p, prog, w) ==
    \E stk \in {UserStack(FoldLeft(LoadSegment, NoImage(w), prog.segs))} :
      Install(p, "exec", stk,
              \/ prog.args > PGSIZE
              \/ ~Copy(stk.w.pt, stk.sz - prog.args, prog.args, <<>>).ok,
              stk.sz)

(* sys_exec: a page for each string of argv, then exec.                     *)
SysExec(p, prog, deny) ==
    /\ Running(p)
    /\ \E a \in {FoldLeft(ArgPage, Work(NoTable, deny), Span(0, prog.argc))} :
         IF a.panic # "no" \/ ~prog.argv THEN Done(p, "exec", a, procs) ELSE Exec(p, prog, a)

(* The header that suspend writes. It reads the size of the process twice,  *)
(* without its lock: the process may be on a CPU still, in sbrk. The code   *)
(* is all but the last two pages, which are taken for guard and stack; for  *)
(* less than two pages code_sz is negative, and made unsigned by resume.    *)
Header(szs) == [mem_sz |-> szs[1], code_sz |-> (szs[2] - 2 * PGSIZE) % UINT]

(* resume of a file that suspend wrote, which takes both sizes from the     *)
(* header as they are. reads: 1 when the file ends in the code, 2 in the    *)
(* stack, 3 otherwise.                                                      *)
Resume(p, hdr, reads, deny) ==
    LET seg == [va |-> 0, mem |-> hdr.code_sz, file |-> hdr.code_sz,
                reads |-> IF reads = 1 THEN 1 ELSE 2]
    IN  /\ Running(p)
        /\ \E stk \in {UserStack(LoadSegment(NoImage(Work(NoTable, deny)), seg))} :
             Install(p, "resume", stk, reads = 2, hdr.mem_sz)

(* userinit: the first process has one page.                                *)
Init ==
    LET a == Kalloc([free |-> Pages, pt |-> NoTable, argv |-> {}, page |-> NoPage,
                     n |-> 0, deny |-> {}, ok |-> TRUE, failed |-> FALSE,
                     dropped |-> [tables |-> {}, users |-> {}], panic |-> "no"])
        w == UvmInit(ProcPagetable(a))
    IN  /\ free = w.free
        /\ procs = [p \in Procs |->
                      IF p # InitProc THEN Unused
                      ELSE [used |-> TRUE, tf |-> a.page, pt |-> w.pt, sz |-> PGSIZE,
                            odd |-> FALSE]]
        /\ dropped = w.dropped
        /\ last = [call |-> "boot", failed |-> FALSE, sz |-> 0, odd |-> FALSE]
        /\ panicked = "no"

Next ==
    \/ \E p, q \in Procs, deny \in Denials, limit \in BOOLEAN : Fork(p, q, deny, limit)
    \/ \E q \in Procs : Reap(q)
    \/ \E p \in Procs, n \in Increments, deny \in Denials : Sbrk(p, n, deny)
    \/ \E p \in Procs, prog \in Programs, deny \in Denials : SysExec(p, prog, deny)
    \/ \E p \in Procs, deny \in Denials : Psinfo(p, deny)
    \/ \E p \in Procs, szs \in Images, reads \in 1 .. 3, deny \in Denials :
          Resume(p, Header(szs), reads, deny)

Spec == Init /\ [][Next]_vars

-----------------------------------------------------------------------------
Users == {p \in Procs : procs[p].used}
Owned(p) == {procs[p].tf} \cup TablePages(procs[p].pt) \cup UserPages(procs[p].pt)
Holdings(p) ==
    1 + 1 + Len(procs[p].pt.hi) + Len(procs[p].pt.lo) + Mapped(procs[p].pt, 0)

Lost == dropped.tables \cup dropped.users

(* Every page is on the free list, or is in exactly one place of one        *)
(* process (its trapframe, a page of its page table, a user page), or was   *)
(* left behind by proc_freepagetable.                                       *)
Partition ==
    panicked = "no" =>
      /\ Pages = free \cup Lost \cup UNION {Owned(p) : p \in Users}
      /\ free \cap Lost = {}
      /\ \A p \in Users :
            /\ Cardinality(Owned(p)) = Holdings(p)
            /\ Owned(p) \cap (free \cup Lost) = {}
            /\ \A q \in Users \ {p} : Owned(p) \cap Owned(q) = {}

(* Which calls leave pages behind. User pages: an exec or resume in which a *)
(* kalloc failed, never a fork. Pages of page tables: a refused exec or     *)
(* resume, a fork in which a kalloc failed, and a call of, or the wait for, *)
(* a process that has shrunk to the size 0. A process that is odd may also  *)
(* lose the user pages that its size does not tell of.                      *)
Losses ==
    /\ dropped'.users # dropped.users =>
         last'.odd \/ (last'.call \in {"exec", "resume"} /\ last'.failed)
    /\ dropped'.tables # dropped.tables =>
         \/ last'.call \in {"exec", "resume"} /\ procs' = procs
         \/ last'.call = "fork" /\ last'.failed
         \/ last'.sz = 0

(* No page is in two places, and one is lost only where proc_freepagetable  *)
(* is given the size 0 (proc.c:262): what uvmalloc and uvmcopy had taken    *)
(* when a kalloc failed they give back, once.                               *)
PagesAccounted == []Partition /\ [][Losses]_vars

(* A process has the pages of its size and no other: the size that growproc *)
(* computes modulo 2^32, exec from the segments and resume from the header  *)
(* is what uvmcopy, uvmfree and freewalk rely on. Not so for a process      *)
(* resumed from a header whose two sizes differ, and its children, until    *)
(* they exec.                                                               *)
SizeMapped ==
    panicked = "no" =>
      \A p \in Users : ~procs[p].odd =>
        \A v \in Vpns : (procs[p].pt.maps[v] # NoPage) <=> (v < Up(procs[p].sz))

(* The only panics are those of a fork, exec or resume in which a kalloc    *)
(* failed while it made the page table or copied the first page, and those  *)
(* of exec and psinfo when the page for a string or a table is not there:   *)
(* never one of sbrk or wait, nor "remap", "freewalk: leaf", "uvmcopy: ..." *)
(* or "loadseg: ...", and never a page freed twice; unless the process was  *)
(* resumed from a header whose two sizes differ.                            *)
PanicsOnlyStarved ==
    panicked # "no" =>
      \/ last.odd
      \/ /\ last.failed
         /\ \/ /\ last.call \in {"fork", "exec", "resume"}
               /\ panicked \in {"uvmcreate: out of memory", "uvmunmap: walk",
                                "uvmunmap: not mapped"}
            \/ <<last.call, panicked>> \in {<<"exec", "sys_exec kalloc">>,
                                           <<"psinfo", "kerneltrap">>}

(* copyout, copyin and copyinstr touch exactly the memory of the addresses  *)
(* they are given, in order, up to the first page the user cannot access,   *)
(* and say whether they reached the end (copyinstr: the '\0').              *)
CopiesExactly ==
    \A p \in Users :
      LET pt == procs[p].pt
          Bad(va, i) == Walkaddr(pt, Down(va + i - 1)) = NoPage
          Cells(va, n) == [i \in 1 .. n |->
              <<Walkaddr(pt, Down(va + i - 1)), (va + i - 1) % PGSIZE>>]
      IN  \A va \in 0 .. MaxSize, len \in 0 .. 2 * PGSIZE + 1 :
            LET reach == Min({i \in 1 .. len : Bad(va, i)} \cup {len + 1}) - 1 IN
            /\ Copy(pt, va, len, <<>>) = [ok |-> reach = len, cells |-> Cells(va, reach)]
            /\ \A k \in 1 .. 2 * PGSIZE + 1 :
                 CopyInStr(pt, va, len, {va + k - 1}, <<>>) =
                   [ok |-> k <= reach,
                    cells |-> Cells(va, IF k <= reach THEN k ELSE reach)]

(* proc_pagetable: "with no user pages, but with trampoline pages".         *)
Trampolined ==
    panicked = "no" =>
      \A p \in Users : procs[p].pt.top = {"TRAMPOLINE", "TRAPFRAME"}

(* proc_freepagetable: "Free a process's page table, and free the physical  *)
(* memory it refers to." (proc.c:255).                                      *)
NothingLost == panicked = "no" => Lost = {}

(* uvmcopy: "returns 0 on success, -1 on failure." (vm.c:312).              *)
UvmCopyReturns ==
    \A p \in Users, deny \in Denials :
      LET new == ProcPagetable(Work(NoTable, deny))
      IN  new.panic = "no" => UvmCopy(new, procs[p].pt, procs[p].sz).panic = "no"
=============================================================================
