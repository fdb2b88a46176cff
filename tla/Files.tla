------------------------------- MODULE Files -------------------------------
(***************************************************************************)
(* Open files: the file table of file.c, the descriptors of each process,  *)
(* and the calls of sysfile.c and proc.c that move them around (open, dup, *)
(* close, pipe, read, write, unlink, fork, exit), over the file contents   *)
(* of FileData.                                                            *)
(*                                                                         *)
(* What a call has still to give up is in todo, in order: a file (for      *)
(* fileclose), and what fileclose copied out of the last reference to one, *)
(* an inode (for iput) or an end of a pipe (for pipeclose). filewrite is a *)
(* step for each iteration of writei's loop. The cache, names and locks of *)
(* inodes are in Inodes, what goes through a pipe is in Pipe.              *)
(***************************************************************************)
EXTENDS FileData, Sequences

CONSTANTS
    Procs, NoProc,
    NOFILE, NFILE,
    Pipes,
    MAXOPBLOCKS,
    Wrote,        \* [Inodes -> Values], what the processes write to an inode
    Workloads     \* records of what a behaviour explores: the calls of each
                  \* process, the inodes opened and the modes (TRUE for
                  \* writable), the n of reads and writes, and whether a copy
                  \* from user memory may fail

ASSUME FilesAssumption ==
    /\ \A n \in {NOFILE, NFILE} : n \in Nat \ {0}
    /\ MAXOPBLOCKS \in Nat /\ MAXOPBLOCKS >= 6
    /\ Wrote \in [Inodes -> Values]

VARIABLES
    live,      \* the process slot is in use
    ofile,     \* p->ofile[]
    ft,        \* ftable.file[]
    pipes,     \* which ends of each pipe are open
    ino,       \* inodes: allocated, nlink, references, who holds the lock
    fs,        \* their contents
    pc, call,  \* where a process is in write or exit
    todo,      \* what its call has yet to release
    hist,      \* of each inode: opens for writing (2: more, or a copy failed), and
               \* the cells write has acknowledged
    ops,       \* the workload of this behaviour
    badfork,   \* some fork has failed at the container's process limit
    panicked

vars == <<live, ofile, ft, pipes, ino, fs, pc, call, todo, hist, ops, badfork, panicked>>

FDs == 0 .. (NOFILE - 1)
Slots == 1 .. NFILE
NoFile == 0
NoCall == [f |-> 0, n |-> 0, done |-> 0, off |-> 0, left |-> 0, log |-> {}]

(* Faulty variant: the chunk leaves no room for the allocation blocks.      *)
ChunkMaxWhole == (MAXOPBLOCKS - 1 - 1 - 2) * BSIZE

(* filewrite's max.                                                         *)
ChunkMax == ((MAXOPBLOCKS - 1 - 1 - 2) \div 2) * BSIZE

Running(p, where) == panicked = "no" /\ live[p] /\ pc[p] = where /\ todo[p] = <<>>

(* A process makes a system call.                                           *)
Calls(p, op) == Running(p, "idle") /\ op \in ops.calls[p]

FreeFiles == {f \in Slots : ft[f].ref = 0}
FreeFds(p) == {d \in FDs : ofile[p][d] = NoFile}
First(S) == CHOOSE x \in S : \A y \in S : x <= y
Least2(S) == First(S \ {First(S)})

(* filealloc.                                                               *)
Filealloc(t) == [t EXCEPT ![First({f \in Slots : t[f].ref = 0})].ref = 1]

(* sys_open of inode i, which create makes when it is not there: a file and *)
(* a descriptor, or whatever was taken is given back.                       *)
SysOpen(p, i, w) ==
    LET f == First(FreeFiles)
        d == First(FreeFds(p))
    IN
    /\ Calls(p, "open")
    /\ ino[i].lock = NoProc /\ (ino[i].nlink = 0 => ~ino[i].alloc)
    /\ \/ /\ FreeFiles # {} /\ FreeFds(p) # {}
          /\ ft' = [ft EXCEPT ![f] = [ref |-> 1, type |-> "inode", obj |-> i,
                                      off |-> 0, wr |-> w]]
          /\ ofile' = [ofile EXCEPT ![p][d] = f]
          /\ hist' = [hist EXCEPT ![i].opens = IF w /\ @ < 2 THEN @ + 1 ELSE @]
          /\ UNCHANGED todo
       \/ /\ FreeFiles # {} /\ FreeFds(p) = {}
          /\ ft' = Filealloc(ft)
          /\ todo' = [todo EXCEPT ![p] = <<<<"file", f>>, <<"inode", i>>>>]
          /\ UNCHANGED <<ofile, hist>>
       \/ /\ FreeFiles = {}
          /\ todo' = [todo EXCEPT ![p] = <<<<"inode", i>>>>]
          /\ UNCHANGED <<ft, ofile, hist>>
    /\ ino' = [ino EXCEPT ![i].alloc = TRUE, ![i].nlink = 1, ![i].ref = @ + 1]
    /\ UNCHANGED <<live, pipes, fs, pc, call, ops, badfork, panicked>>

(* argfd.                                                                   *)
Argfd(p, d) == ofile[p][d] # NoFile

Filedup(f) ==
    /\ ft' = [ft EXCEPT ![f].ref = @ + 1]
    /\ panicked' = IF ft[f].ref < 1 THEN "filedup" ELSE "no"

(* sys_dup: fdalloc, then filedup.                                          *)
SysDup(p, d) ==
    /\ Calls(p, "dup") /\ Argfd(p, d) /\ FreeFds(p) # {}
    /\ ofile' = [ofile EXCEPT ![p][First(FreeFds(p))] = ofile[p][d]]
    /\ Filedup(ofile[p][d])
    /\ UNCHANGED <<live, pipes, ino, fs, pc, call, todo, hist, ops, badfork>>

SysClose(p, d) ==
    /\ Calls(p, "close") /\ Argfd(p, d)
    /\ ofile' = [ofile EXCEPT ![p][d] = NoFile]
    /\ todo' = [todo EXCEPT ![p] = <<<<"file", ofile[p][d]>>>>]
    /\ UNCHANGED <<live, ft, pipes, ino, fs, pc, call, hist, ops, badfork, panicked>>

(* Faulty variant: the closed slot keeps its type.                          *)
ClosedKeepType(f) == [ft[f] EXCEPT !.ref = 0]

(* The file table's slot after its last reference is gone.                  *)
Closed(f) == [ft[f] EXCEPT !.ref = 0, !.type = "none"]

(* fileclose under ftable.lock: one reference less; the last one leaves a   *)
(* copy of the file to close what is behind it.                             *)
Fileclose(p) ==
    LET f == Head(todo[p])[2]
        behind == CASE ft[f].type = "pipe"  -> <<<<"pipe", ft[f].obj, ft[f].wr>>>>
                    [] ft[f].type = "inode" -> <<<<"inode", ft[f].obj>>>>
                    [] ft[f].type = "none"  -> <<>>
    IN
    /\ panicked = "no" /\ todo[p] # <<>> /\ Head(todo[p])[1] = "file"
    /\ panicked' = IF ft[f].ref < 1 THEN "fileclose" ELSE "no"
    /\ ft' = [ft EXCEPT ![f] = IF @.ref > 1 THEN [@ EXCEPT !.ref = @ - 1] ELSE Closed(f)]
    /\ todo' = [todo EXCEPT ![p] = (IF ft[f].ref > 1 THEN <<>> ELSE behind) \o Tail(@)]
    /\ UNCHANGED <<live, ofile, pipes, ino, fs, pc, call, hist, ops, badfork>>

(* pipeclose: an end closes; with both closed the page is freed.            *)
Pipeclose(p) ==
    LET end == Head(todo[p]) IN
    /\ panicked = "no" /\ todo[p] # <<>> /\ Head(todo[p])[1] = "pipe"
    /\ pipes' = [pipes EXCEPT ![end[2]][IF end[3] THEN "w" ELSE "r"] = FALSE]
    /\ todo' = [todo EXCEPT ![p] = Tail(@)]
    /\ UNCHANGED <<live, ofile, ft, ino, fs, pc, call, hist, ops, badfork, panicked>>

(* iput: the last reference to an inode without a name frees it.            *)
Iput(p) ==
    LET i == Head(todo[p])[2]
        last == ino[i].ref = 1 /\ ino[i].nlink = 0
    IN
    /\ panicked = "no" /\ todo[p] # <<>> /\ Head(todo[p])[1] = "inode"
    /\ fs' = IF last THEN Itrunc(fs, i).fs ELSE fs
    /\ ino' = [ino EXCEPT ![i].ref = @ - 1, ![i].alloc = ~last]
    /\ hist' = IF last THEN [hist EXCEPT ![i] = [opens |-> 0, acked |-> 0]] ELSE hist
    /\ todo' = [todo EXCEPT ![p] = Tail(@)]
    /\ UNCHANGED <<live, ofile, ft, pipes, pc, call, ops, badfork, panicked>>

(* sys_unlink of inode i's name; its own reference goes at the end.         *)
SysUnlink(p, i) ==
    /\ Calls(p, "unlink") /\ ino[i].lock = NoProc /\ ino[i].nlink = 1
    /\ ino' = [ino EXCEPT ![i].nlink = 0, ![i].ref = @ + 1]
    /\ todo' = [todo EXCEPT ![p] = <<<<"inode", i>>>>]
    /\ UNCHANGED <<live, ofile, ft, pipes, fs, pc, call, hist, ops, badfork, panicked>>

(* pipealloc and sys_pipe: two files, a page, two descriptors, and the      *)
(* copy of the two numbers to the caller; the first that fails undoes all.  *)
SysPipe(p, q) ==
    LET f0 == First(FreeFiles)
        f1 == Least2(FreeFiles)
        d0 == First(FreeFds(p))
        d1 == Least2(FreeFds(p))
        two == Cardinality(FreeFiles) >= 2
        end(w) == [ref |-> 1, type |-> "pipe", obj |-> q, off |-> 0, wr |-> w]
    IN
    /\ Calls(p, "pipe") /\ pipes[q] = [r |-> FALSE, w |-> FALSE]
    /\ \/ /\ FreeFiles # {} \* no second file, or no page
          /\ ft' = IF two THEN Filealloc(Filealloc(ft)) ELSE Filealloc(ft)
          /\ todo' = [todo EXCEPT ![p] =
                        IF two THEN <<<<"file", f0>>, <<"file", f1>>>> ELSE <<<<"file", f0>>>>]
          /\ UNCHANGED <<pipes, ofile>>
       \/ /\ two
          /\ ft' = [ft EXCEPT ![f0] = end(FALSE), ![f1] = end(TRUE)]
          /\ pipes' = [pipes EXCEPT ![q] = [r |-> TRUE, w |-> TRUE]]
          /\ \/ /\ Cardinality(FreeFds(p)) >= 2
                /\ ofile' = [ofile EXCEPT ![p][d0] = f0, ![p][d1] = f1]
                /\ UNCHANGED todo
             \/ /\ todo' = [todo EXCEPT ![p] = <<<<"file", f0>>, <<"file", f1>>>>]
                /\ UNCHANGED ofile
    /\ UNCHANGED <<live, ino, fs, pc, call, hist, ops, badfork, panicked>>

(* fileread of an inode: the offset moves by what readi says it read, even  *)
(* when the copy to the caller failed.                                      *)
Fileread(f, n) ==
    LET r == ReadCount(fs, ft[f].obj, ft[f].off, n) IN
    /\ ft[f].type = "inode" /\ ino[ft[f].obj].lock = NoProc
    /\ r > 0 /\ ft' = [ft EXCEPT ![f].off = @ + r]

SysRead(p, d, n) ==
    /\ Calls(p, "read") /\ Argfd(p, d) /\ Fileread(ofile[p][d], n)
    /\ UNCHANGED <<live, ofile, pipes, ino, fs, pc, call, todo, hist, ops, badfork,
                   panicked>>

(* filewrite up to its loop.                                                *)
Filewrite(p, f, n) ==
    /\ ft[f].wr /\ ft[f].type = "inode"
    /\ call' = [call EXCEPT ![p] = [NoCall EXCEPT !.f = f, !.n = n]]
    /\ pc' = [pc EXCEPT ![p] = "chunk"]

SysWrite(p, d, n) ==
    /\ Calls(p, "write") /\ Argfd(p, d) /\ Filewrite(p, ofile[p][d], n)
    /\ UNCHANGED <<live, ofile, ft, pipes, ino, fs, todo, hist, ops, badfork, panicked>>

(* The length of filewrite's next chunk.                                    *)
Chunk(p) == IF call[p].n - call[p].done > ChunkMax THEN ChunkMax
            ELSE call[p].n - call[p].done

(* filewrite returns: all of n, if positive, is written, or writei has      *)
(* refused a chunk.                                                         *)
WriteReturn(p) ==
    LET i == ft[call[p].f].obj IN
    /\ Running(p, "chunk") /\ ino[i].lock = NoProc
    /\ \/ call[p].done >= call[p].n
       \/ ~WriteOk(fs, i, ft[call[p].f].off, Chunk(p))
    /\ call' = [call EXCEPT ![p] = NoCall] /\ pc' = [pc EXCEPT ![p] = "idle"]
    /\ UNCHANGED <<live, ofile, ft, pipes, ino, fs, todo, hist, ops, badfork, panicked>>

(* Faulty variant: the inode is not locked around writei.                   *)
WriteLockNot(p) ==
    LET f == call[p].f
        i == ft[f].obj
    IN
    /\ Running(p, "chunk") /\ call[p].done < call[p].n
    /\ WriteOk(fs, i, ft[f].off, Chunk(p))
    /\ call' = [call EXCEPT ![p].off = ft[f].off, ![p].left = Chunk(p)]
    /\ pc' = [pc EXCEPT ![p] = "writei"]
    /\ UNCHANGED <<live, ofile, ft, pipes, ino, fs, todo, hist, ops, badfork, panicked>>

(* begin_op, ilock, and writei's tests.                                     *)
WriteLock(p) ==
    LET f == call[p].f
        i == ft[f].obj
    IN
    /\ Running(p, "chunk") /\ call[p].done < call[p].n /\ ino[i].lock = NoProc
    /\ WriteOk(fs, i, ft[f].off, Chunk(p))
    /\ ino' = [ino EXCEPT ![i].lock = p]
    /\ call' = [call EXCEPT ![p].off = ft[f].off, ![p].left = Chunk(p)]
    /\ pc' = [pc EXCEPT ![p] = "writei"]
    /\ UNCHANGED <<live, ofile, ft, pipes, fs, todo, hist, ops, badfork, panicked>>

(* writei goes on after an iteration with m cells moved, or breaks out of   *)
(* the loop where it is.                                                    *)
WriteLoop(p) ==
    LET k == call[p]
        i == ft[k.f].obj
        m == BlockPart(k.off, k.left)
    IN
    /\ Running(p, "writei") /\ k.left > 0
    /\ Room(fs, i, k.off \div BSIZE)
    /\ \E c \in IF ops.faults THEN 0 .. m ELSE {m} :
         LET w == WriteBlock(fs, i, k.off, m, c, Wrote[i]) IN
         /\ fs' = w.fs
         /\ call' = [call EXCEPT ![p].log = @ \cup w.log,
                                 ![p].off = IF c = m THEN @ + m ELSE @,
                                 ![p].left = IF c = m THEN @ - m ELSE 0]
         /\ hist' = [hist EXCEPT ![i].opens = IF c = m THEN @ ELSE 2]
    /\ UNCHANGED <<live, ofile, ft, pipes, ino, pc, todo, ops, badfork, panicked>>

(* The end of writei and of filewrite's loop body: the size, iupdate, the   *)
(* offset, which moves by the whole chunk whatever was copied, the unlock.  *)
WriteEnd(p) ==
    LET k == call[p]
        i == ft[k.f].obj
    IN
    /\ Running(p, "writei") /\ k.left = 0
    /\ fs' = GrowTo(fs, i, k.off)
    /\ ft' = [ft EXCEPT ![k.f].off = @ + Chunk(p)]
    /\ ino' = [ino EXCEPT ![i].lock = NoProc]
    /\ hist' = [hist EXCEPT ![i].acked = IF hist[i].opens = 1 THEN @ + Chunk(p) ELSE 0]
    /\ call' = [call EXCEPT ![p] = [NoCall EXCEPT !.f = k.f, !.n = k.n,
                                                  !.done = k.done + Chunk(p)]]
    /\ pc' = [pc EXCEPT ![p] = "chunk"]
    /\ UNCHANGED <<live, ofile, pipes, todo, ops, badfork, panicked>>

(* filedup for every descriptor of the parent.                              *)
ForkFiles(p, q) ==
    [f \in Slots |-> [ft[f] EXCEPT !.ref =
        @ + Cardinality({d \in FDs : ofile[p][d] = f})]]

(* fork: the child's slot gets the parent's files where the parent has      *)
(* one, and is then started, or freed at the process limit as it is, which  *)
(* is explored once: every such fork leaks references.                      *)
Fork(p, q) ==
    /\ Calls(p, "fork") /\ ~live[q]
    /\ ft' = ForkFiles(p, q)
    /\ ofile' = [ofile EXCEPT ![q] =
                   [d \in FDs |-> IF ofile[p][d] # NoFile THEN ofile[p][d] ELSE @[d]]]
    /\ \/ live' = [live EXCEPT ![q] = TRUE] /\ UNCHANGED badfork
       \/ ~badfork /\ badfork' = TRUE /\ UNCHANGED live
    /\ UNCHANGED <<pipes, ino, fs, pc, call, todo, hist, ops, panicked>>

(* exit: fileclose for every descriptor. The first process never exits.     *)
OpenFds(p) == {d \in FDs : ofile[p][d] # NoFile}

Exit(p) ==
    LET d == First(OpenFds(p)) IN
    /\ \E q \in Procs \ {p} : live[q] /\ pc[q] # "exit"
    /\ Calls(p, "exit") \/ Running(p, "exit")
    /\ IF OpenFds(p) # {}
       THEN /\ todo' = [todo EXCEPT ![p] = <<<<"file", ofile[p][d]>>>>]
            /\ ofile' = [ofile EXCEPT ![p][d] = NoFile]
            /\ pc' = [pc EXCEPT ![p] = "exit"]
            /\ UNCHANGED live
       ELSE /\ live' = [live EXCEPT ![p] = FALSE]
            /\ pc' = [pc EXCEPT ![p] = "idle"]
            /\ UNCHANGED <<todo, ofile>>
    /\ UNCHANGED <<ft, pipes, ino, fs, call, hist, ops, badfork, panicked>>

Init ==
    /\ live = [p \in Procs |-> p = CHOOSE x \in Procs : TRUE]
    /\ ofile = [p \in Procs |-> [d \in FDs |-> NoFile]]
    /\ ft = [f \in Slots |-> [ref |-> 0, type |-> "none", obj |-> 0, off |-> 0, wr |-> FALSE]]
    /\ pipes = [q \in Pipes |-> [r |-> FALSE, w |-> FALSE]]
    /\ ino = [i \in Inodes |-> [alloc |-> FALSE, nlink |-> 0, ref |-> 0, lock |-> NoProc]]
    /\ fs = EmptyFs
    /\ pc = [p \in Procs |-> "idle"] /\ call = [p \in Procs |-> NoCall]
    /\ todo = [p \in Procs |-> <<>>]
    /\ hist = [i \in Inodes |-> [opens |-> 0, acked |-> 0]]
    /\ ops \in Workloads /\ badfork = FALSE /\ panicked = "no"

Next ==
    \E p \in Procs :
        \/ \E i \in ops.inodes : SysUnlink(p, i) \/ \E w \in ops.modes : SysOpen(p, i, w)
        \/ \E d \in FDs : \/ SysDup(p, d) \/ SysClose(p, d)
                          \/ \E n \in ops.counts : SysRead(p, d, n) \/ SysWrite(p, d, n)
        \/ \E q \in Pipes : SysPipe(p, q)
        \/ Fileclose(p) \/ Pipeclose(p) \/ Iput(p)
        \/ WriteReturn(p) \/ WriteLock(p) \/ WriteLoop(p) \/ WriteEnd(p)
        \/ \E q \in Procs \ {p} : Fork(p, q)
        \/ Exit(p)

Spec == Init /\ [][Next]_vars

-----------------------------------------------------------------------------

(* The pointers to file f: descriptors, and calls about to close it.        *)
Pending(x) == {<<p, k>> \in Procs \X (1 .. 4) : k <= Len(todo[p]) /\ todo[p][k] = x}
Holders(f) == {<<p, d>> \in Procs \X FDs : ofile[p][d] = f}

(* A file that a descriptor or a call refers to is never given to another   *)
(* open: through dup, fork, exit and the failure paths of open and pipe,    *)
(* the file table counts at least the pointers there are, and counts them   *)
(* exactly unless a fork has failed at the process limit, whose duplicates  *)
(* nobody gives back. What is behind a file goes only with its last         *)
(* reference: an inode's references are the files open on it and the calls  *)
(* about to drop it, and a pipe's end is open as long as its file is. The   *)
(* panics of filedup and fileclose are not reached.                         *)
RefCounted ==
    /\ panicked = "no"
    /\ \A f \in Slots :
         LET n == Cardinality(Holders(f)) + Cardinality(Pending(<<"file", f>>)) IN
         ft[f].ref >= n /\ (~badfork => ft[f].ref = n)
    /\ \A i \in Inodes :
         ino[i].ref = Cardinality({f \in Slots : ft[f].type = "inode" /\ ft[f].obj = i})
                        + Cardinality(Pending(<<"inode", i>>))
    /\ \A q \in Pipes, w \in BOOLEAN :
         pipes[q][IF w THEN "w" ELSE "r"] =
            \/ \E f \in Slots : ft[f].type = "pipe" /\ ft[f].obj = q /\ ft[f].wr = w
            \/ Pending(<<"pipe", q, w>>) # {}

(* The bitmap marks the blocks that inodes refer to, and no block belongs   *)
(* to two of them: no interleaving of writes, failed copies and frees leaks *)
(* a block or shares it. Below its size a file has no holes, so readi,      *)
(* which runs outside of a transaction, never makes bmap allocate           *)
(* (log_write would panic), although a write whose copy fails leaves the    *)
(* offset past the end of the file.                                         *)
BlocksOwned ==
    /\ fs.bitmap = UNION {OwnedBlocks(fs, i) : i \in Inodes}
    /\ \A i, j \in Inodes : i # j => OwnedBlocks(fs, i) \cap OwnedBlocks(fs, j) = {}
    /\ \A i \in Inodes : \A k \in 0 .. (fs.size[i] - 1) : Mapped(fs, i, k \div BSIZE)

(* "write a few blocks at a time to avoid exceeding the maximum log         *)
(* transaction size" (file.c): with the inode, a chunk of filewrite logs at *)
(* most MAXOPBLOCKS different blocks, however the file is aligned and the   *)
(* free blocks are spread over the bitmap.                                  *)
WriteFits ==
    \A p \in Procs : pc[p] = "writei" => Cardinality(call[p].log) + 1 <= MAXOPBLOCKS

(* "max # of blocks any FS op writes" (param.h), for the transaction in     *)
(* which iput frees an inode.                                               *)
TruncateFits ==
    \A p \in Procs : todo[p] # <<>> /\ Head(todo[p])[1] = "inode" =>
        LET i == Head(todo[p])[2] IN
        ino[i].ref = 1 /\ ino[i].nlink = 0 => Cardinality(Itrunc(fs, i).log) <= MAXOPBLOCKS

(* Processes that share one open file by dup and fork never write over each *)
(* other: if a file was opened for writing once and no copy failed, its     *)
(* size is the number of cells its writes have acknowledged.                *)
SharedWrites ==
    \A i \in Inodes : hist[i].opens = 1 /\ ino[i].lock = NoProc => fs.size[i] = hist[i].acked

(* Files implement sequences of cells (ByteFiles): through bmap, indirect   *)
(* blocks and blocks freed and reused, a step changes one file, only where  *)
(* it writes, and never shows what another file has left in a block.        *)
Bytes == INSTANCE ByteFiles WITH contents <- [i \in Inodes |-> Contents(fs, i)]
AreBytes == Bytes!Spec
=============================================================================
