------------------------------ MODULE FileData ------------------------------
(***************************************************************************)
(* The contents of inodes in fs.c: the free bitmap, balloc and bfree, bmap *)
(* with its indirect block, itrunc, and the block step of readi's and      *)
(* writei's loops, as functions of the file system's state                 *)
(*   [bitmap, blk, addrs, size].                                           *)
(* A block is BSIZE cells of the size of a block number, so an indirect    *)
(* block holds BSIZE of them. Each function also gives the blocks it hands *)
(* to log_write.                                                           *)
(***************************************************************************)
EXTENDS Integers, FiniteSets

CONSTANTS
    Inodes,
    NBLOCKS,    \* data blocks are 1 .. NBLOCKS
    BSIZE, NDIRECT,
    BPB,        \* blocks per bitmap block
    Values      \* what is written to files

ASSUME FileDataAssumption ==
    /\ \A n \in {NBLOCKS, BSIZE, NDIRECT, BPB} : n \in Nat \ {0}
    /\ Values \subseteq Nat \ {0}

Blocks == 1 .. NBLOCKS
NINDIRECT == BSIZE
MAXFILE == NDIRECT + NINDIRECT
Zeroed == [k \in 0 .. (BSIZE - 1) |-> 0]

(* The blocks of the disk that log_write may be given.                      *)
DataBlock(b) == <<"data", b>>
BitmapBlock(b) == <<"bitmap", b \div BPB>>
InodeBlock(i) == <<"inode", i>>

EmptyFs ==
    [bitmap |-> {}, blk |-> [b \in Blocks |-> Zeroed],
     addrs |-> [i \in Inodes |-> [k \in 0 .. NDIRECT |-> 0]],
     size |-> [i \in Inodes |-> 0]]

(* Faulty variant: the block keeps what its last owner wrote.               *)
BallocDirty(fs) ==
    LET b == CHOOSE x \in Blocks \ fs.bitmap : \A y \in Blocks \ fs.bitmap : x <= y
    IN  [addr |-> b, log |-> {BitmapBlock(b), DataBlock(b)},
         fs |-> [fs EXCEPT !.bitmap = @ \cup {b}]]

(* balloc: the first block whose bit is clear, marked and zeroed.           *)
Balloc(fs) ==
    LET b == CHOOSE x \in Blocks \ fs.bitmap : \A y \in Blocks \ fs.bitmap : x <= y
    IN  [addr |-> b, log |-> {BitmapBlock(b), DataBlock(b)},
         fs |-> [fs EXCEPT !.bitmap = @ \cup {b}, !.blk[b] = Zeroed]]

(* bfree of a set of blocks.                                                *)
Bfree(fs, bs) == [fs EXCEPT !.bitmap = @ \ bs]

(* The block number in ip->addrs[k], allocated if it is not there.          *)
Addr(fs, i, k) ==
    LET a == Balloc(fs)
    IN  IF fs.addrs[i][k] # 0 THEN [addr |-> fs.addrs[i][k], log |-> {}, fs |-> fs]
        ELSE [a EXCEPT !.fs.addrs[i][k] = a.addr]

(* bmap, behind the test for bn out of range.                               *)
Bmap(fs, i, bn) ==
    LET ind == Addr(fs, i, NDIRECT)
        k == bn - NDIRECT
        a == Balloc(ind.fs)
    IN  IF bn < NDIRECT THEN Addr(fs, i, bn)
        ELSE IF ind.fs.blk[ind.addr][k] # 0
             THEN [ind EXCEPT !.addr = ind.fs.blk[ind.addr][k]]
             ELSE [a EXCEPT !.fs.blk[ind.addr][k] = a.addr,
                            !.log = @ \cup ind.log \cup {DataBlock(ind.addr)}]

(* bmap finds every block of inode i it needs without allocating one.       *)
Mapped(fs, i, bn) ==
    IF bn < NDIRECT THEN fs.addrs[i][bn] # 0
    ELSE fs.addrs[i][NDIRECT] # 0 /\ fs.blk[fs.addrs[i][NDIRECT]][bn - NDIRECT] # 0

(* The blocks bmap may need; balloc panics when they are not there.         *)
Room(fs, i, bn) ==
    Mapped(fs, i, bn) \/ Cardinality(Blocks \ fs.bitmap) >=
                           (IF bn >= NDIRECT /\ fs.addrs[i][NDIRECT] = 0 THEN 2 ELSE 1)

(* The blocks inode i refers to, as itrunc finds them.                      *)
DirectBlocks(fs, i) == {fs.addrs[i][k] : k \in 0 .. (NDIRECT - 1)} \ {0}
IndirectBlocks(fs, i) ==
    IF fs.addrs[i][NDIRECT] = 0 THEN {}
    ELSE {fs.addrs[i][NDIRECT]} \cup
         ({fs.blk[fs.addrs[i][NDIRECT]][k] : k \in 0 .. (NINDIRECT - 1)} \ {0})
OwnedBlocks(fs, i) == DirectBlocks(fs, i) \cup IndirectBlocks(fs, i)

(* Faulty variant: the blocks of the indirect block are forgotten.          *)
ItruncDirectOnly(fs, i) ==
    [fs |-> [Bfree(fs, DirectBlocks(fs, i))
               EXCEPT !.addrs[i] = [k \in 0 .. NDIRECT |-> 0], !.size[i] = 0],
     log |-> {BitmapBlock(b) : b \in DirectBlocks(fs, i)} \cup {InodeBlock(i)}]

(* itrunc: every block is freed, the addresses and the size are zero.       *)
Itrunc(fs, i) ==
    [fs |-> [Bfree(fs, OwnedBlocks(fs, i))
               EXCEPT !.addrs[i] = [k \in 0 .. NDIRECT |-> 0], !.size[i] = 0],
     log |-> {BitmapBlock(b) : b \in OwnedBlocks(fs, i)} \cup {InodeBlock(i)}]

(* readi refuses to start past the end, and stops there. Its n is unsigned: *)
(* a negative one is refused if off + n wraps around, and is otherwise past *)
(* the end.                                                                 *)
ReadCount(fs, i, off, n) ==
    IF off > fs.size[i] \/ (n < 0 /\ off + n >= 0) THEN -1
    ELSE IF n < 0 \/ off + n > fs.size[i] THEN fs.size[i] - off ELSE n

(* The tests of writei, of which filewrite asks a chunk, too short to wrap. *)
WriteOk(fs, i, off, n) == off <= fs.size[i] /\ off + n <= MAXFILE * BSIZE

(* How many cells an iteration of readi's or writei's loop moves.           *)
BlockPart(off, left) ==
    IF left < BSIZE - (off % BSIZE) THEN left ELSE BSIZE - (off % BSIZE)

(* An iteration of writei's loop at off: bmap, then either_copyin of m      *)
(* cells of v, of which the first c arrive; the block is logged when all    *)
(* have. Cells that arrive and are not logged last as long as the buffer    *)
(* does: here they stay, or, with c = 0, are gone before anybody reads them.*)
WriteBlock(fs, i, off, m, c, v) ==
    LET at == Bmap(fs, i, off \div BSIZE)
    IN  [fs |-> [at.fs EXCEPT !.blk[at.addr] =
                   [k \in 0 .. (BSIZE - 1) |->
                      IF k >= off % BSIZE /\ k < (off % BSIZE) + c THEN v ELSE @[k]]],
         log |-> at.log \cup (IF c = m THEN {DataBlock(at.addr)} ELSE {})]

(* After the loop: the size grows to where it stopped.                      *)
GrowTo(fs, i, off) == [fs EXCEPT !.size[i] = IF off > @ THEN off ELSE @]

(* The cells of inode i up to its size, found the way readi finds them.     *)
Contents(fs, i) ==
    [k \in 1 .. fs.size[i] |->
        fs.blk[Bmap(fs, i, (k - 1) \div BSIZE).addr][(k - 1) % BSIZE]]
=============================================================================
