-------------------------- MODULE InodesStepProofs --------------------------
(***************************************************************************)
(* What the steps of the file system calls do to the inode cache, the      *)
(* locks and the directories, and the lemmas of InodesProofs that need no  *)
(* counting.                                                               *)
(***************************************************************************)
EXTENDS Inodes, TLAPS, WellFoundedInduction

\* The provers a leaf is tried with unless it names its own.
USE ZenonT(4), SMT, Z3T(20), ZenonT(40), SMTT(10), Z3T(40)

\* For the leaves that are not Zenon's: those with arithmetic or records.
Smts == TRUE (*{
    by (prover:"smt3")
    by (prover:"z33"; timeout:20)
    by (prover:"smt3"; timeout:10)
    by (prover:"z33"; timeout:30)
    by (prover:"zenon"; timeout:40)
  }*)

Types == {"free", "file", "dir", "dev"}
Cached == [inum : Inums, ref : Nat, valid : BOOLEAN, type : Types, nlink : Int,
           lock : Procs \cup {NoProc}]
Dinode == [type : Types, nlink : Int, ents : [Entries -> Inums \cup {0}]]

\* Where a process is, by the pointers it has there; Puts is inside iput.
Puts == {"iput", "itrunc", "ifreed", "idrop"}
Frees == {"itrunc", "ifreed"}
Makes == {"create", "mkdir", "mknod"}
WithIp == {"walk", "open", "chdir", "link", "cinit", "exists", "made", "mkend", "unlink2",
           "unlink3"}
WithDp == Makes \cup {"unlink", "link2", "made", "unlink2", "unlinkbad", "link2bad"}
WithOld == {"link2", "link2bad", "linkbad", "linkend"}
Places == WithIp \cup WithDp \cup WithOld \cup {"idle", "nocinit"}

\* Where a process is, or goes when the iput it is in returns.
At(p) == IF pc[p] \in Puts THEN cont[p] ELSE pc[p]

Frames == {NoCall} \cup PathCalls \cup LinkCalls
            \cup [op : {"link2"}, abs : BOOLEAN, path : Paths]
SlotOrNone == Slots \cup {NoSlot}

TypeOK ==
  /\ disk \in [Inums -> Dinode]
  /\ ic \in [Slots -> Cached]
  /\ cwd \in [Procs -> Slots] /\ file \in [Procs -> SlotOrNone]
  /\ croot = [p \in Procs |-> NoSlot]
  /\ ip \in [Procs -> SlotOrNone] /\ dp \in [Procs -> SlotOrNone]
  /\ old \in [Procs -> SlotOrNone] /\ rel \in [Procs -> SlotOrNone]
  /\ pc \in [Procs -> Places \cup Puts] /\ cont \in [Procs -> Places]
  /\ call \in [Procs -> Frames]

\* The call a process is in, and the pointers it has, where it is.
Local(p) ==
  /\ At(p) = "walk" => call[p].op \in Parental \cup {"open", "chdir", "link", "cinit"}
  /\ At(p) = "link" => call[p].op = "link"
  /\ At(p) \in WithDp => call[p].op \in Parental /\ call[p].path # <<>>
  /\ At(p) \in Makes \cup {"made"} => call[p].op \in Makes
  /\ rel[p] # NoSlot <=> pc[p] \in Puts
  /\ ip[p] # NoSlot <=> At(p) \in WithIp
  /\ dp[p] # NoSlot <=> At(p) \in WithDp
  /\ old[p] # NoSlot <=> At(p) \in WithOld \/ (At(p) = "walk" /\ call[p].op = "link2")

\* Who holds an inode's sleep-lock between two steps.
Holder(p, s) ==
  \/ pc[p] \in Frees /\ rel[p] = s
  \/ At(p) \in {"mkend", "unlink3"} /\ ip[p] = s
  \/ At(p) \in {"made", "unlink2", "unlinkbad", "link2bad"} /\ dp[p] = s

Locked == \A p \in Procs, s \in Slots : ic[s].lock = p <=> Holder(p, s)

\* While iput frees an inode, nobody works in it or links it: to get there a
\* process must lock it. Nor has the call that frees it another pointer to it.
Freeing ==
  \A r, p \in Procs : pc[r] \in Frees =>
    dp[p] # rel[r] /\ old[p] # rel[r] /\ ip[r] # rel[r]

\* A valid copy of an inode agrees with the disk that the inode is allocated,
\* and as what, except between the two writes with which iput frees it.
Coherent ==
  \A s \in Slots :
    ic[s].valid /\ ic[s].ref > 0 =>
      \/ ic[s].type = disk[ic[s].inum].type /\ ic[s].type # "free"
      \/ \E r \in Procs : pc[r] = "ifreed" /\ rel[r] = s

\* A call works in a directory, and links what is not one.
Kinds ==
  \A p \in Procs :
    /\ dp[p] # NoSlot => disk[ic[dp[p]].inum].type = "dir"
    /\ old[p] # NoSlot => disk[ic[old[p]].inum].type \notin {"dir", "free"}

\* The number of pointers to entry s that process p holds.
Bit(b) == IF b THEN 1 ELSE 0
Own(p, s) == Bit(cwd[p] = s) + Bit(file[p] = s) + Bit(ip[p] = s) + Bit(dp[p] = s)
               + Bit(old[p] = s) + Bit(rel[p] = s)

\* What a process points to is counted.
Referenced == \A p \in Procs, s \in Slots : ic[s].ref >= Own(p, s)

IInv ==
  /\ TypeOK /\ (\A p \in Procs : Local(p))
  /\ RefCounted /\ Referenced /\ Locked /\ Freeing /\ Coherent /\ Kinds

\* A set of naturals that is not empty has a least member.
LEMMA Least ==
  ASSUME NEW T \in SUBSET Nat, T # {}
  PROVE  \E x \in T : \A y \in T : x <= y
<1>1. \E x \in T : \A y \in T : ~ (<<y, x>> \in OpToRel(<, Nat))
  BY NatLessThanWellFounded, WFMin
<1>2. ASSUME NEW x \in Nat, NEW y \in Nat, y < x
      PROVE  <<y, x>> \in OpToRel(<, Nat)
  <2>1. <<y, x>> \in Nat \X Nat /\ <<y, x>>[1] < <<y, x>>[2]
    BY <1>2
  <2> QED  BY <2>1 DEF OpToRel
<1>3. \E x \in T : \A y \in T : ~ (y < x)
  <2>1. PICK x \in T : \A y \in T : ~ (<<y, x>> \in OpToRel(<, Nat))
    BY <1>1
  <2>2. \A y \in T : ~ (y < x)
    BY <1>2, <2>1
  <2> QED  BY <2>2
<1> QED  BY Smts, <1>3

-----------------------------------------------------------------------------
\* Numbers of slots and inodes.
LEMMA Sizes ==
  /\ NoSlot \notin Slots /\ Slots \subseteq Nat /\ 1 \in Slots
  /\ 0 \notin Inums /\ Inums \subseteq Nat /\ ROOT \in Inums
BY Smts, InodesAssumption DEF NoSlot, Slots, Inums, ROOT

-----------------------------------------------------------------------------
\* A step of p leaves everything alone that belongs to another process.
Quiet(p) ==
  \A q \in Procs \ {p} :
    /\ pc'[q] = pc[q] /\ cont'[q] = cont[q] /\ call'[q] = call[q]
    /\ cwd'[q] = cwd[q] /\ file'[q] = file[q] /\ ip'[q] = ip[q] /\ dp'[q] = dp[q]
    /\ old'[q] = old[q] /\ rel'[q] = rel[q]

\* From the cache as it is to cache e: one more reference to entry g, or
\* none; an entry in use stays the inode's it is, and a free one is taken only
\* for an inode that has none.
Gains(e, g) ==
  /\ e \in [Slots -> Cached] /\ g \in SlotOrNone
  /\ \A t \in Slots : e[t].ref = ic[t].ref + Bit(t = g)
  /\ \A t \in Slots : ic[t].ref > 0 => e[t].inum = ic[t].inum
  /\ \A t \in Slots : g \in Slots /\ ic[g].ref = 0 /\ ic[t].ref > 0 =>
       ic[t].inum # e[g].inum

\* A copy that is valid in e was so before, or was read from the disk.
Copies(e) ==
  \A t \in Slots : e[t].ref > 0 /\ e[t].valid =>
    \/ e[t].type = disk[e[t].inum].type /\ e[t].type # "free"
    \/ ic[t].ref > 0 /\ ic[t].valid /\ e[t].type = ic[t].type

\* The locks that p holds are those the next state says, and nobody else's
\* lock is touched.
Relocks(p) ==
  \A t \in Slots :
    /\ ic'[t].lock = p <=> Holder(p, t)'
    /\ ic'[t].lock = ic[t].lock \/ (ic'[t].lock \in {p, NoProc} /\ ic[t].lock \in {p, NoProc})

\* The directory and the link target of p are those of before, or have just
\* been locked and found to be of the right kind.
Aims(p) ==
  /\ \/ dp'[p] \in {NoSlot, dp[p]}
     \/ /\ ic[dp'[p]].lock = NoProc /\ ic[dp'[p]].ref > 0
        /\ disk[ic[dp'[p]].inum].type = "dir"
  /\ \/ old'[p] \in {NoSlot, old[p]}
     \/ /\ ic[old'[p]].lock = NoProc /\ ic[old'[p]].ref > 0
        /\ disk[ic[old'[p]].inum].type \notin {"dir", "free"}

\* A step of p outside iput, in which it gains a pointer to entry g.
Step(p, g) ==
  /\ TypeOK' /\ Quiet(p) /\ Local(p)'
  /\ \A s \in Slots : Own(p, s)' = Own(p, s) + Bit(s = g)
  /\ Gains(ic', g) /\ Copies(ic') /\ Relocks(p) /\ Aims(p)
  /\ pc[p] \notin Frees /\ pc'[p] \notin Frees
  /\ \A i \in Inums : disk'[i].type = disk[i].type \/ disk[i].type = "free"

-----------------------------------------------------------------------------
\* What the operations do to a cache that differs from ic as a step's may.
LEMMA GainsNone ==
  ASSUME TypeOK
  PROVE  Gains(ic, NoSlot) /\ Copies(ic)
BY Smts, Sizes DEF TypeOK, Gains, Copies, SlotOrNone, Bit, Cached

\* releasesleep in iunlock changes no count and no number.
LEMMA GainsUnlock ==
  ASSUME NEW c, NEW g, Gains(c, g), Copies(c), NEW s \in Slots
  PROVE  /\ Gains(Iunlock(c, s), g) /\ Copies(Iunlock(c, s))
         /\ \A t \in Slots : Iunlock(c, s)[t].lock = IF t = s THEN NoProc ELSE c[t].lock
<1> DEFINE e == Iunlock(c, s)
<1>1. /\ e \in [Slots -> Cached]
      /\ \A t \in Slots : /\ e[t].ref = c[t].ref /\ e[t].inum = c[t].inum
                          /\ e[t].valid = c[t].valid /\ e[t].type = c[t].type
                          /\ e[t].lock = IF t = s THEN NoProc ELSE c[t].lock
  <2>1. c \in [Slots -> Cached]
    BY DEF Gains
  <2> QED  BY Smts, <2>1 DEF Iunlock, Cached
<1> HIDE DEF e
<1>2. Gains(e, g) /\ Copies(e)
  BY Smts, <1>1 DEF Gains, Copies, SlotOrNone
<1> QED  BY <1>1, <1>2 DEF e

\* A write of the copy of nlink changes no count and no number.
LEMMA GainsNlink ==
  ASSUME NEW c, NEW g, Gains(c, g), Copies(c), NEW s \in Slots, NEW n \in Int
  PROVE  /\ Gains(SetNlink(c, s, n), g) /\ Copies(SetNlink(c, s, n))
         /\ \A t \in Slots : SetNlink(c, s, n)[t].lock = c[t].lock
<1> DEFINE e == SetNlink(c, s, n)
<1>1. /\ e \in [Slots -> Cached]
      /\ \A t \in Slots : /\ e[t].ref = c[t].ref /\ e[t].inum = c[t].inum
                          /\ e[t].valid = c[t].valid /\ e[t].type = c[t].type
                          /\ e[t].lock = c[t].lock
  <2>1. c \in [Slots -> Cached]
    BY DEF Gains
  <2> QED  BY Smts, <2>1 DEF SetNlink, Cached
<1> HIDE DEF e
<1>2. Gains(e, g) /\ Copies(e)
  BY Smts, <1>1 DEF Gains, Copies, SlotOrNone
<1> QED  BY <1>1, <1>2 DEF e

\* idup gives an entry in use one pointer more.
LEMMA GainsDup ==
  ASSUME TypeOK, NEW c, Gains(c, NoSlot), Copies(c), NEW s \in Slots, ic[s].ref > 0
  PROVE  /\ Gains(Idup(c, s), s) /\ Copies(Idup(c, s))
         /\ \A t \in Slots : Idup(c, s)[t].lock = c[t].lock
<1> DEFINE e == Idup(c, s)
<1>1. /\ e \in [Slots -> Cached]
      /\ \A t \in Slots : /\ e[t].ref = c[t].ref + Bit(t = s) /\ e[t].inum = c[t].inum
                          /\ e[t].valid = c[t].valid /\ e[t].type = c[t].type
                          /\ e[t].lock = c[t].lock
  <2>1. c \in [Slots -> Cached]
    BY DEF Gains
  <2> QED  BY Smts, <2>1 DEF Idup, Bit, Cached
<1>2. \A t \in Slots : c[t].ref = ic[t].ref /\ ic[t].ref \in Nat
  BY Smts, Sizes DEF Gains, Bit, Cached, TypeOK
<1> HIDE DEF e
<1>3. Gains(e, s)
  BY Smts, <1>1, <1>2 DEF Gains, SlotOrNone
<1>4. Copies(e)
  BY Smts, <1>1, <1>2 DEF Copies, Bit
<1> QED  BY <1>1, <1>3, <1>4 DEF e

\* iget gives the entry it returns one pointer more, and that entry is
\* inode i's.
LEMMA GainsGet ==
  ASSUME TypeOK, NEW c, Gains(c, NoSlot), Copies(c), NEW i \in Inums, ~IgetFull(c, i)
  PROVE  /\ Iget(c, i).slot \in Slots /\ Iget(c, i).cache[Iget(c, i).slot].inum = i
         /\ Gains(Iget(c, i).cache, Iget(c, i).slot) /\ Copies(Iget(c, i).cache)
         /\ \A t \in Slots : Iget(c, i).cache[t].lock = c[t].lock
<1> DEFINE e == Iget(c, i).cache
           s == Iget(c, i).slot
<1>1. c \in [Slots -> Cached]
  BY DEF Gains
<1>2. /\ s \in Slots /\ e \in [Slots -> Cached] /\ e[s].ref = c[s].ref + 1 /\ e[s].inum = i
      /\ \A t \in Slots :
           /\ e[t].lock = c[t].lock /\ e[t].type = c[t].type
           /\ t # s => e[t] = c[t]
           /\ c[t].ref > 0 => e[t].inum = c[t].inum /\ e[t].valid = c[t].valid
      /\ c[s].ref = 0 => ~e[s].valid /\ \A t \in Slots : c[t].ref > 0 => c[t].inum # i
  <2> DEFINE hit == {x \in Slots : c[x].ref > 0 /\ c[x].inum = i}
             new == {x \in Slots : c[x].ref = 0}
  <2>1. CASE hit # {}
    <3> DEFINE h == CHOOSE x \in hit : TRUE
    <3>1. h \in hit
      BY <2>1
    <3>2. Iget(c, i) = [slot |-> h, cache |-> [c EXCEPT ![h].ref = @ + 1]]
      BY <2>1 DEF Iget
    <3> HIDE DEF h
    <3>3. s = h /\ e = [c EXCEPT ![h].ref = @ + 1]
      BY Smts, <3>2
    <3> HIDE DEF e, s
    <3> QED  BY Smts, <1>1, <3>1, <3>3 DEF Cached
  <2>2. CASE hit = {}
    <3> DEFINE n == CHOOSE x \in new : \A y \in new : x <= y
    <3>1. new # {}
      BY <1>1, <2>2 DEF IgetFull, Cached
    <3>2. new \in SUBSET Nat
      BY Sizes
    <3>3. \E x \in new : \A y \in new : x <= y
      <4> HIDE DEF new
      <4> QED  BY <3>1, <3>2, Least
    <3>4. n \in new
      BY <3>3
    <3>5. Iget(c, i) = [slot |-> n, cache |->
             [c EXCEPT ![n].inum = i, ![n].ref = 1, ![n].valid = FALSE]]
      BY <2>2 DEF Iget
    <3> HIDE DEF n
    <3>6. /\ s = n /\ e = [c EXCEPT ![n].inum = i, ![n].ref = 1, ![n].valid = FALSE]
          /\ n \in Slots /\ c[n].ref = 0
      BY Smts, <3>4, <3>5
    <3>7. \A t \in Slots : c[t].ref > 0 => c[t].inum # i
      BY <2>2
    <3> HIDE DEF e, s
    <3> QED  BY Smts, <1>1, <3>6, <3>7 DEF Cached
  <2> QED  BY <2>1, <2>2
<1>3. \A t \in Slots : c[t].ref = ic[t].ref /\ ic[t].ref \in Nat
  BY Smts, Sizes DEF Gains, Bit, Cached, TypeOK
<1> HIDE DEF e, s
<1>4. \A t \in Slots : e[t].ref = ic[t].ref + Bit(t = s)
  BY Smts, <1>2, <1>3 DEF Bit
<1>5. \A t \in Slots : ic[t].ref > 0 => e[t].inum = ic[t].inum /\ c[t].inum = ic[t].inum
  BY Smts, <1>2, <1>3 DEF Gains
<1>6. Gains(e, s)
  BY <1>2, <1>3, <1>4, <1>5 DEF Gains, SlotOrNone
<1>7. ASSUME NEW t \in Slots, e[t].ref > 0, e[t].valid
      PROVE  \/ e[t].type = disk[e[t].inum].type /\ e[t].type # "free"
             \/ ic[t].ref > 0 /\ ic[t].valid /\ e[t].type = ic[t].type
  <2>1. ic[t].ref > 0
    BY Smts, <1>2, <1>3, <1>7
  <2>2. c[t].ref > 0 /\ c[t].valid /\ e[t].type = c[t].type /\ e[t].inum = c[t].inum
    BY <1>2, <1>3, <1>7, <2>1
  <2> QED  BY <2>2 DEF Copies
<1> QED  BY <1>2, <1>6, <1>7 DEF e, s, Copies

\* An inode that is not locked has on the disk the type that ilock will find.
LEMMA TypeOnDisk ==
  ASSUME IInv, NEW s \in Slots, ic[s].lock = NoProc, ic[s].ref >= 1
  PROVE  Type(s) = disk[ic[s].inum].type
<1>1. CASE ~ic[s].valid
  BY <1>1 DEF Type
<1>2. CASE ic[s].valid
  <2>1. ASSUME NEW r \in Procs, pc[r] = "ifreed", rel[r] = s PROVE FALSE
    <3>1. Holder(r, s)
      BY <2>1 DEF Holder, Frees
    <3> QED  BY <3>1, InodesAssumption DEF IInv, Locked
  <2>2. ic[s].ref > 0
    BY Smts DEF IInv, TypeOK, Cached
  <2> QED  BY <1>2, <2>1, <2>2 DEF IInv, Coherent, Type
<1> QED  BY <1>1, <1>2

\* ilock of an entry that p can lock.
LEMMA GainsLock ==
  ASSUME IInv, NEW p \in Procs, NEW s \in Slots, ic[s].lock = NoProc, ic[s].ref >= 1,
         Type(s) # "free"
  PROVE  /\ Gains(Ilock(ic, s, p), NoSlot) /\ Copies(Ilock(ic, s, p))
         /\ \A t \in Slots : Ilock(ic, s, p)[t].lock = IF t = s THEN p ELSE ic[t].lock
<1> DEFINE e == Ilock(ic, s, p)
<1>1. disk \in [Inums -> Dinode] /\ ic \in [Slots -> Cached]
  BY DEF IInv, TypeOK
<1>2. /\ e \in [Slots -> Cached]
      /\ \A t \in Slots : /\ e[t].ref = ic[t].ref /\ e[t].inum = ic[t].inum
                          /\ e[t].lock = IF t = s THEN p ELSE ic[t].lock
                          /\ t # s => e[t].valid = ic[t].valid /\ e[t].type = ic[t].type
      /\ e[s].type = IF ic[s].valid THEN ic[s].type ELSE disk[ic[s].inum].type
  <2>1. disk[ic[s].inum].type \in Types /\ disk[ic[s].inum].nlink \in Int
    BY <1>1 DEF Cached, Dinode
  <2>2. CASE ic[s].valid
    BY Smts, <1>1, <2>2 DEF Ilock, Cached
  <2>3. CASE ~ic[s].valid
    BY Smts, <1>1, <2>1, <2>3 DEF Ilock, Cached
  <2> QED  BY <2>2, <2>3
<1>3. e[s].type = disk[ic[s].inum].type /\ e[s].type # "free"
  BY <1>2, TypeOnDisk DEF Type
<1> HIDE DEF e
<1>4. Gains(e, NoSlot)
  BY Smts, <1>1, <1>2, Sizes DEF Gains, Bit, SlotOrNone, Cached
<1>5. Copies(e)
  BY <1>2, <1>3 DEF Copies
<1> QED  BY <1>2, <1>4, <1>5 DEF e

-----------------------------------------------------------------------------
\* The steps, one by one.
LEMMA OpenInodeStep ==
  ASSUME IInv, NEW p \in Procs, NEW c, pc[p] \in {"open", "exists", "mkend"},
         Gains(c, NoSlot), Copies(c), ip[p] \in Slots,
         \A t \in Slots : t # ip[p] => c[t].lock = ic[t].lock,
         ic[ip[p]].lock \in {p, NoProc},
         OpenInode(p, ip[p], c), UNCHANGED disk
  PROVE  Step(p, NoSlot)
<1> DEFINE s == ip[p]
<1>1. /\ Gains(ic', NoSlot) /\ Copies(ic')
      /\ \A t \in Slots : ic'[t].lock = IF t = s THEN NoProc ELSE ic[t].lock
  BY Smts, GainsUnlock DEF OpenInode
<1>2. TypeOK /\ Local(p)
  BY DEF IInv
<1>3. TypeOK'
  BY Smts, <1>1, <1>2, Sizes
     DEF TypeOK, OpenInode, Goto, Returned, PutThen, Gains, Places, Puts, SlotOrNone,
         Frames, WithIp
<1>4. Quiet(p)
  BY Smts, <1>2
     DEF TypeOK, OpenInode, Goto, Returned, PutThen, Quiet
<1>5. Local(p)'
  BY Smts, <1>2
     DEF TypeOK, OpenInode, Goto, Returned, PutThen, Local, At, Puts,
         WithIp, WithDp, WithOld, Makes, Places
<1>6. \A t \in Slots : Own(p, t)' = Own(p, t) + Bit(t = NoSlot)
  BY Smts, <1>2, Sizes
     DEF TypeOK, OpenInode, Goto, Returned, PutThen, Own, Bit, Local, Puts
<1>7. Relocks(p)
  <2>1. \A t \in Slots : Holder(p, t) => t = s
    BY <1>2 DEF Holder, At, Puts, Frees
  <2>2. \A t \in Slots : ~Holder(p, t)'
    BY <1>2 DEF Holder, OpenInode, Goto, PutThen, At, TypeOK, Puts, Frees
  <2> QED  BY Smts, <1>1, <2>1, <2>2, InodesAssumption
              DEF IInv, Locked, Relocks
<1>8. Aims(p)
  BY DEF OpenInode, Aims
<1> QED  BY Smts, <1>1, <1>3, <1>4, <1>5, <1>6, <1>7, <1>8
   DEF Step, OpenInode, Goto, PutThen, TypeOK, IInv, Frees

\* p gives back the inode it found: the last of a walk, or of a call.
LEMMA PutIpStep ==
  ASSUME IInv, NEW p \in Procs, pc[p] \in WithIp \ {"made"}, NEW w,
         w \in {"idle", "nocinit", "linkbad", "unlinkbad"},
         w = "unlinkbad" <=> pc[p] = "unlink2", pc[p] = "unlink2" => ip[p] # dp[p],
         w = "linkbad" <=> old[p] # NoSlot,
         Gains(ic', NoSlot), Copies(ic'),
         \A t \in Slots : t # ip[p] => ic'[t].lock = ic[t].lock,
         ic'[ip[p]].lock # p,
         ic'[ip[p]].lock = ic[ip[p]].lock \/ (ic[ip[p]].lock = p /\ ic'[ip[p]].lock = NoProc),
         ip' = [ip EXCEPT ![p] = NoSlot], PutThen(p, ip[p], w),
         UNCHANGED <<cwd, file, croot, call, dp, old>>,
         disk' \in [Inums -> Dinode], \A i \in Inums : disk'[i].type = disk[i].type
  PROVE  Step(p, NoSlot)
<1>1. TypeOK /\ Local(p)
  BY DEF IInv
<1>2. TypeOK'
  BY <1>1, Sizes
     DEF TypeOK, PutThen, Gains, Places, Puts, SlotOrNone, WithIp, WithDp, WithOld
<1>3. Quiet(p)
  BY <1>1 DEF TypeOK, PutThen, Quiet
<1>4. pc[p] \notin Puts
  BY DEF WithIp, Puts
<1>5. Local(p)'
  BY Smts, <1>1, <1>4
     DEF TypeOK, PutThen, Local, At, Puts, WithIp, WithDp, WithOld, Makes
<1>6. \A t \in Slots : Own(p, t)' = Own(p, t) + Bit(t = NoSlot)
  BY Smts, <1>1, <1>4, Sizes DEF TypeOK, PutThen, Own, Bit, Local
<1>7. Relocks(p)
  <2>1. ASSUME NEW t \in Slots PROVE Holder(p, t)' <=> Holder(p, t) /\ pc[p] = "unlink2"
    BY <1>1, <1>4 DEF Holder, At, TypeOK, PutThen, Puts, Frees, WithIp
  <2>2. ASSUME NEW t \in Slots, Holder(p, t) PROVE t = ip[p] <=> pc[p] # "unlink2"
    BY <1>1, <1>4, <2>2 DEF Holder, At, Puts, Frees, WithIp
  <2>3. \A t \in Slots : ic[t].lock = p <=> Holder(p, t)
    BY DEF IInv, Locked
  <2> QED  BY <2>1, <2>2, <2>3, InodesAssumption DEF Relocks
<1>8. Aims(p)
  BY DEF Aims
<1> QED  BY Smts, <1>1, <1>2, <1>3, <1>4, <1>5, <1>6, <1>7, <1>8
   DEF Step, PutThen, TypeOK, Frees, Puts

\* ilock and, in the same step, iunlock: no lock changes.
LEMMA LockUnlock ==
  ASSUME IInv, NEW p \in Procs, NEW s \in Slots, NEW w, Locks(p, w, s)
  PROVE  /\ Gains(Iunlock(Ilock(ic, s, p), s), NoSlot) /\ Copies(Iunlock(Ilock(ic, s, p), s))
         /\ \A t \in Slots : Iunlock(Ilock(ic, s, p), s)[t].lock = ic[t].lock
<1>1. /\ Gains(Ilock(ic, s, p), NoSlot) /\ Copies(Ilock(ic, s, p))
      /\ \A t \in Slots : Ilock(ic, s, p)[t].lock = IF t = s THEN p ELSE ic[t].lock
  BY GainsLock DEF Locks
<1>2. /\ Gains(Iunlock(Ilock(ic, s, p), s), NoSlot) /\ Copies(Iunlock(Ilock(ic, s, p), s))
      /\ \A t \in Slots : Iunlock(Ilock(ic, s, p), s)[t].lock =
           IF t = s THEN NoProc ELSE Ilock(ic, s, p)[t].lock
  BY <1>1, GainsUnlock
<1> QED  BY <1>1, <1>2 DEF Locks

\* The inode a process has found is an entry of the cache.
LEMMA HasIp ==
  ASSUME IInv, NEW p \in Procs, pc[p] \in WithIp
  PROVE  ip[p] \in Slots
BY Sizes DEF IInv, TypeOK, Local, At, WithIp, Puts, SlotOrNone

\* A call past nameiparent has a pointer to the parent directory.
LEMMA HasDp ==
  ASSUME IInv, NEW p \in Procs, pc[p] \in WithDp
  PROVE  dp[p] \in Slots
BY Sizes DEF IInv, TypeOK, Local, At, WithDp, Makes, Puts, SlotOrNone

\* link has a pointer to the inode it gives a new name.
LEMMA HasOld ==
  ASSUME IInv, NEW p \in Procs, pc[p] \in WithOld
  PROVE  old[p] \in Slots
BY Sizes DEF IInv, TypeOK, Local, At, WithOld, Puts, SlotOrNone

\* What p holds the lock of.
LEMMA HoldsIp ==
  ASSUME IInv, NEW p \in Procs, pc[p] \in {"mkend", "unlink3"}
  PROVE  ip[p] \in Slots /\ ic[ip[p]].lock = p
<1>1. ip[p] \in Slots
  BY HasIp DEF WithIp
<1>2. Holder(p, ip[p])
  BY DEF Holder, At, Puts
<1> QED  BY <1>1, <1>2 DEF IInv, Locked

\* A call that goes on with its parent has it locked.
LEMMA HoldsDp ==
  ASSUME IInv, NEW p \in Procs, pc[p] \in {"made", "unlink2", "unlinkbad", "link2bad"}
  PROVE  dp[p] \in Slots /\ ic[dp[p]].lock = p
<1>1. dp[p] \in Slots
  BY HasDp DEF WithDp
<1>2. Holder(p, dp[p])
  BY DEF Holder, At, Puts
<1> QED  BY <1>1, <1>2 DEF IInv, Locked

\* iupdate of an inode's link count changes no inode's type.
LEMMA IupdateFacts ==
  ASSUME NEW d \in [Inums -> Dinode], NEW i \in Inums, NEW n \in Int
  PROVE  /\ Iupdate(d, i, n) \in [Inums -> Dinode]
         /\ \A j \in Inums : /\ Iupdate(d, i, n)[j].type = d[j].type
                             /\ Iupdate(d, i, n)[j].ents = d[j].ents
BY DEF Iupdate, Dinode

\* dirlink changes one entry of one directory.
LEMMA DirlinkFacts ==
  ASSUME NEW d \in [Inums -> Dinode], NEW i \in Inums, NEW n \in Entries,
         NEW j \in Inums \cup {0}
  PROVE  /\ Dirlink(d, i, n, j) \in [Inums -> Dinode]
         /\ \A x \in Inums : /\ Dirlink(d, i, n, j)[x].type = d[x].type
                             /\ \A m \in Entries : Dirlink(d, i, n, j)[x].ents[m] =
                                  IF x = i /\ m = n THEN j ELSE d[x].ents[m]
                             /\ x # i => Dirlink(d, i, n, j)[x] = d[x]
BY DEF Dirlink, Dinode

\* The second half of sys_open.
LEMMA OpenStep ==
  ASSUME IInv, NEW p \in Procs, Open(p)
  PROVE  Step(p, NoSlot)
<1>1. pc[p] = "open" /\ ip[p] \in Slots /\ Locks(p, "open", ip[p])
  BY HasIp DEF Open, Locks, Running, WithIp
<1>2. /\ Gains(Ilock(ic, ip[p], p), NoSlot) /\ Copies(Ilock(ic, ip[p], p))
      /\ \A t \in Slots : t # ip[p] => Ilock(ic, ip[p], p)[t].lock = ic[t].lock
  BY Smts, <1>1, GainsLock DEF Locks
<1> QED  BY Smts, <1>1, <1>2, OpenInodeStep DEF Open, Locks

\* create finds the name taken.
LEMMA CreateExistsStep ==
  ASSUME IInv, NEW p \in Procs, CreateExists(p)
  PROVE  Step(p, NoSlot)
<1>1. pc[p] = "exists" /\ ip[p] \in Slots /\ Locks(p, "exists", ip[p])
  BY HasIp DEF CreateExists, Locks, Running, WithIp
<1>2. CASE OpenInode(p, ip[p], Ilock(ic, ip[p], p))
  <2>1. /\ Gains(Ilock(ic, ip[p], p), NoSlot) /\ Copies(Ilock(ic, ip[p], p))
        /\ \A t \in Slots : t # ip[p] => Ilock(ic, ip[p], p)[t].lock = ic[t].lock
    BY Smts, <1>1, GainsLock DEF Locks
  <2> QED  BY Smts, <1>1, <1>2, <2>1, OpenInodeStep
              DEF CreateExists, Locks
<1>3. CASE ~OpenInode(p, ip[p], Ilock(ic, ip[p], p))
  <2>1. /\ Gains(ic', NoSlot) /\ Copies(ic')
        /\ \A t \in Slots : ic'[t].lock = ic[t].lock
    BY Smts, <1>1, <1>3, LockUnlock DEF CreateExists
  <2>2. ic[ip[p]].lock # p
    BY <1>1, InodesAssumption DEF Locks
  <2>3. old[p] = NoSlot /\ disk' = disk /\ disk \in [Inums -> Dinode]
    BY <1>1 DEF IInv, Local, At, Puts, WithOld, CreateExists, TypeOK
  <2> QED  BY <1>1, <1>3, <2>1, <2>2, <2>3, PutIpStep DEF CreateExists, WithIp
<1> QED  BY <1>2, <1>3

\* create is back in its caller with the new inode.
LEMMA CreateEndStep ==
  ASSUME IInv, NEW p \in Procs, CreateEnd(p)
  PROVE  Step(p, NoSlot)
<1>1. pc[p] = "mkend" /\ ip[p] \in Slots /\ ic[ip[p]].lock = p
  BY HoldsIp DEF CreateEnd, Running
<1>2. Gains(ic, NoSlot) /\ Copies(ic)
  BY GainsNone DEF IInv
<1>3. CASE OpenInode(p, ip[p], ic)
  BY Smts, <1>1, <1>2, <1>3, OpenInodeStep DEF CreateEnd
<1>4. CASE ~OpenInode(p, ip[p], ic)
  <2>1. /\ Gains(ic', NoSlot) /\ Copies(ic')
        /\ \A t \in Slots : ic'[t].lock = IF t = ip[p] THEN NoProc ELSE ic[t].lock
    BY Smts, <1>1, <1>2, <1>4, GainsUnlock DEF CreateEnd
  <2>2. NoProc # p
    BY InodesAssumption
  <2>3. old[p] = NoSlot /\ disk' = disk /\ disk \in [Inums -> Dinode]
    BY <1>1 DEF IInv, Local, At, Puts, WithOld, CreateEnd, TypeOK
  <2> QED  BY <1>1, <1>4, <2>1, <2>2, <2>3, PutIpStep DEF CreateEnd, WithIp
<1> QED  BY <1>3, <1>4

\* link refuses a directory.
LEMMA LinkDirStep ==
  ASSUME IInv, NEW p \in Procs, LinkDir(p)
  PROVE  Step(p, NoSlot)
<1>1. pc[p] = "link" /\ ip[p] \in Slots /\ Locks(p, "link", ip[p])
  BY HasIp DEF LinkDir, Locks, Running, WithIp
<1>2. /\ Gains(ic', NoSlot) /\ Copies(ic')
      /\ \A t \in Slots : ic'[t].lock = ic[t].lock
  BY <1>1, LockUnlock DEF LinkDir
<1>3. ic[ip[p]].lock # p
  BY <1>1, InodesAssumption DEF Locks
<1>4. old[p] = NoSlot /\ disk' = disk /\ disk \in [Inums -> Dinode]
  BY <1>1 DEF IInv, Local, At, Puts, WithOld, LinkDir, TypeOK
<1> QED  BY <1>1, <1>2, <1>3, <1>4, PutIpStep DEF LinkDir, WithIp

\* unlink refuses a directory that is not empty.
LEMMA UnlinkNotEmptyStep ==
  ASSUME IInv, NEW p \in Procs, UnlinkNotEmpty(p)
  PROVE  Step(p, NoSlot)
<1>1. pc[p] = "unlink2" /\ ip[p] \in Slots /\ Locks(p, "unlink2", ip[p])
  BY HasIp DEF UnlinkNotEmpty, Locks, Running, WithIp
<1>2. /\ Gains(ic', NoSlot) /\ Copies(ic')
      /\ \A t \in Slots : ic'[t].lock = ic[t].lock
  BY <1>1, LockUnlock DEF UnlinkNotEmpty
<1>3. ic[ip[p]].lock # p /\ ip[p] # dp[p]
  BY <1>1, HoldsDp, InodesAssumption DEF Locks
<1>4. old[p] = NoSlot /\ disk' = disk /\ disk \in [Inums -> Dinode]
  BY <1>1 DEF IInv, Local, At, Puts, WithOld, UnlinkNotEmpty, TypeOK
<1> QED  BY <1>1, <1>2, <1>3, <1>4, PutIpStep DEF UnlinkNotEmpty, WithIp

\* unlink has taken the entry out and drops the inode's link.
LEMMA UnlinkEndStep ==
  ASSUME IInv, NEW p \in Procs, UnlinkEnd(p)
  PROVE  Step(p, NoSlot)
<1>1. pc[p] = "unlink3" /\ ip[p] \in Slots /\ ic[ip[p]].lock = p
  BY HoldsIp DEF UnlinkEnd, Running
<1>2. Gains(ic, NoSlot) /\ Copies(ic)
  BY GainsNone DEF IInv
<1>3. disk \in [Inums -> Dinode] /\ ic[ip[p]].inum \in Inums /\ ic[ip[p]].nlink - 1 \in Int
  BY Smts, <1>1 DEF IInv, TypeOK, Cached
<1>4. LET c == SetNlink(ic, ip[p], ic[ip[p]].nlink - 1) IN
        Gains(c, NoSlot) /\ Copies(c) /\ \A t \in Slots : c[t].lock = ic[t].lock
  BY <1>1, <1>2, <1>3, GainsNlink
<1>5. /\ Gains(ic', NoSlot) /\ Copies(ic')
      /\ \A t \in Slots : ic'[t].lock = IF t = ip[p] THEN NoProc ELSE ic[t].lock
  BY Smts, <1>1, <1>4, GainsUnlock DEF UnlinkEnd
<1>6. NoProc # p
  BY InodesAssumption
<1>7. old[p] = NoSlot
  BY <1>1 DEF IInv, Local, At, Puts, WithOld, TypeOK
<1>8. disk' \in [Inums -> Dinode] /\ \A i \in Inums : disk'[i].type = disk[i].type
  BY <1>3, IupdateFacts DEF UnlinkEnd
<1> QED  BY <1>1, <1>5, <1>6, <1>7, <1>8, PutIpStep DEF UnlinkEnd, WithIp

\* p holds no lock, takes none, and drops the last inode of its call.
LEMMA PutLastStep ==
  ASSUME IInv, NEW p \in Procs, pc[p] \in {"idle", "chdir", "linkend", "linkbad"},
         Gains(ic', NoSlot), Copies(ic'), \A t \in Slots : ic'[t].lock = ic[t].lock,
         cwd' \in [Procs -> Slots], file' \in [Procs -> SlotOrNone],
         \A q \in Procs \ {p} : cwd'[q] = cwd[q] /\ file'[q] = file[q],
         \A t \in Slots : Own(p, t)' = Own(p, t),
         ip' = [ip EXCEPT ![p] = NoSlot], dp' = dp, old' = [old EXCEPT ![p] = NoSlot],
         rel'[p] \in Slots, PutThen(p, rel'[p], "idle"), UNCHANGED <<croot, call>>,
         disk' \in [Inums -> Dinode], \A i \in Inums : disk'[i].type = disk[i].type
  PROVE  Step(p, NoSlot)
<1>1. TypeOK /\ Local(p)
  BY DEF IInv
<1>2. TypeOK'
  BY <1>1, Sizes DEF TypeOK, PutThen, Gains, Places, Puts, SlotOrNone
<1>3. Quiet(p)
  BY <1>1 DEF TypeOK, PutThen, Quiet
<1>4. pc[p] \notin Puts /\ dp[p] = NoSlot
  BY <1>1 DEF Puts, Local, At, WithDp, Makes
<1>5. Local(p)'
  BY <1>1, <1>4, Sizes
     DEF TypeOK, PutThen, Local, At, Puts, WithIp, WithDp, WithOld, Makes
<1>6. \A t \in Slots : Own(p, t)' = Own(p, t) + Bit(t = NoSlot)
  BY Smts, Sizes DEF Own, Bit
<1>7. Relocks(p)
  <2>1. \A t \in Slots : ~Holder(p, t) /\ ~Holder(p, t)'
    BY <1>1, <1>4 DEF Holder, At, TypeOK, PutThen, Puts, Frees
  <2>2. \A t \in Slots : ic[t].lock = p <=> Holder(p, t)
    BY DEF IInv, Locked
  <2> QED  BY <2>1, <2>2 DEF Relocks
<1>8. Aims(p)
  BY <1>1 DEF Aims, TypeOK
<1> QED  BY Smts, <1>1, <1>2, <1>3, <1>4, <1>5, <1>6, <1>7, <1>8
   DEF Step, PutThen, TypeOK, Frees, Puts

\* fileclose of an inode's last descriptor.
LEMMA CloseStep ==
  ASSUME IInv, NEW p \in Procs, Close(p)
  PROVE  Step(p, NoSlot)
<1>1. pc[p] = "idle" /\ file[p] \in Slots /\ TypeOK
  BY DEF IInv, TypeOK, SlotOrNone, Close, Running
<1>2. ip[p] = NoSlot /\ dp[p] = NoSlot /\ old[p] = NoSlot /\ rel[p] = NoSlot
  BY <1>1 DEF IInv, Local, At, Puts, WithIp, WithDp, WithOld, Makes
<1>3. /\ ip' = [ip EXCEPT ![p] = NoSlot] /\ old' = [old EXCEPT ![p] = NoSlot]
      /\ rel'[p] = file[p] /\ file'[p] = NoSlot
  BY <1>1, <1>2 DEF TypeOK, Close, PutThen
<1>4. \A t \in Slots : Own(p, t)' = Own(p, t)
  BY Smts, <1>1, <1>2, <1>3 DEF Own, Bit, Close, TypeOK
<1>5. Gains(ic', NoSlot) /\ Copies(ic')
  BY <1>1, GainsNone DEF Close
<1>6. /\ cwd' \in [Procs -> Slots] /\ file' \in [Procs -> SlotOrNone]
      /\ \A q \in Procs \ {p} : cwd'[q] = cwd[q] /\ file'[q] = file[q]
      /\ disk' \in [Inums -> Dinode]
  BY <1>1 DEF Close, TypeOK, SlotOrNone
<1> QED  BY <1>1, <1>3, <1>4, <1>5, <1>6, PutLastStep DEF Close

\* sys_chdir gives up the old directory, or the new one that is none.
LEMMA ChdirStep ==
  ASSUME IInv, NEW p \in Procs, Chdir(p)
  PROVE  Step(p, NoSlot)
<1>1. pc[p] = "chdir" /\ ip[p] \in Slots /\ Locks(p, "chdir", ip[p]) /\ TypeOK
  BY HasIp DEF Chdir, Locks, Running, WithIp, IInv
<1>2. /\ Gains(ic', NoSlot) /\ Copies(ic')
      /\ \A t \in Slots : ic'[t].lock = ic[t].lock
  BY <1>1, LockUnlock DEF Chdir
<1>3. dp[p] = NoSlot /\ old[p] = NoSlot /\ rel[p] = NoSlot
  BY <1>1 DEF IInv, Local, At, Puts, WithDp, WithOld, Makes
<1>4. /\ file' \in [Procs -> SlotOrNone] /\ old' = [old EXCEPT ![p] = NoSlot]
      /\ cwd' \in [Procs -> Slots] /\ disk' \in [Inums -> Dinode] /\ rel'[p] \in Slots
      /\ \A q \in Procs \ {p} : cwd'[q] = cwd[q] /\ file'[q] = file[q]
  BY <1>1, <1>3 DEF TypeOK, Chdir, PutThen
<1>5. /\ ip'[p] = NoSlot /\ file'[p] = file[p]
      /\ <<cwd'[p], rel'[p]>> \in {<<ip[p], cwd[p]>>, <<cwd[p], ip[p]>>}
  BY <1>1 DEF TypeOK, Chdir, PutThen
<1>6. \A t \in Slots : Own(p, t)' = Own(p, t)
  BY Smts, <1>3, <1>5, Sizes DEF Own, Bit, Chdir
<1>7. PutThen(p, rel'[p], "idle")
  BY <1>1 DEF Chdir, PutThen, TypeOK
<1> QED  BY <1>1, <1>2, <1>4, <1>6, <1>7, PutLastStep DEF Chdir

\* link is done and drops the inode it gave a name.
LEMMA LinkEndStep ==
  ASSUME IInv, NEW p \in Procs, LinkEnd(p)
  PROVE  Step(p, NoSlot)
<1>1. pc[p] = "linkend" /\ old[p] \in Slots /\ TypeOK
  BY HasOld DEF LinkEnd, Running, WithOld, IInv
<1>2. ip[p] = NoSlot /\ dp[p] = NoSlot /\ rel[p] = NoSlot
  BY <1>1 DEF IInv, Local, At, Puts, WithIp, WithDp, Makes
<1>3. /\ ip' = [ip EXCEPT ![p] = NoSlot] /\ rel'[p] = old[p] /\ old'[p] = NoSlot
      /\ cwd' \in [Procs -> Slots] /\ file' \in [Procs -> SlotOrNone]
      /\ disk' \in [Inums -> Dinode]
  BY <1>1, <1>2 DEF TypeOK, LinkEnd, PutThen
<1>4. \A t \in Slots : Own(p, t)' = Own(p, t)
  BY Smts, <1>1, <1>2, <1>3 DEF Own, Bit, LinkEnd
<1>5. Gains(ic', NoSlot) /\ Copies(ic')
  BY <1>1, GainsNone DEF LinkEnd
<1> QED  BY <1>1, <1>3, <1>4, <1>5, PutLastStep DEF LinkEnd

\* The link counts that a call computes are integers.
LEMMA NlinkType ==
  ASSUME TypeOK, NEW s \in Slots
  PROVE  Nlink(s) \in Int /\ ic[s].inum \in Inums
BY DEF TypeOK, Cached, Dinode, Nlink

\* link failed after its nlink++ and takes it back.
LEMMA LinkBadStep ==
  ASSUME IInv, NEW p \in Procs, LinkBad(p)
  PROVE  Step(p, NoSlot)
<1>1. pc[p] = "linkbad" /\ old[p] \in Slots /\ Locks(p, "linkbad", old[p]) /\ TypeOK
  BY HasOld DEF LinkBad, Locks, Running, WithOld, IInv
<1>2. ip[p] = NoSlot /\ dp[p] = NoSlot /\ rel[p] = NoSlot
  BY <1>1 DEF IInv, Local, At, Puts, WithIp, WithDp, Makes
<1>3. /\ ip' = [ip EXCEPT ![p] = NoSlot] /\ rel'[p] = old[p] /\ old'[p] = NoSlot
      /\ cwd' \in [Procs -> Slots] /\ file' \in [Procs -> SlotOrNone]
  BY <1>1, <1>2 DEF TypeOK, LinkBad, PutThen
<1>4. \A t \in Slots : Own(p, t)' = Own(p, t)
  BY Smts, <1>1, <1>2, <1>3 DEF Own, Bit, LinkBad
<1> DEFINE n == Nlink(old[p]) - 1
<1>5. n \in Int /\ ic[old[p]].inum \in Inums
  BY Smts, <1>1, NlinkType DEF IInv
<1> HIDE DEF n
<1>6. LET c == Ilock(ic, old[p], p) IN
        /\ Gains(c, NoSlot) /\ Copies(c)
        /\ \A t \in Slots : c[t].lock = IF t = old[p] THEN p ELSE ic[t].lock
  BY <1>1, GainsLock DEF Locks
<1>7. LET c == SetNlink(Ilock(ic, old[p], p), old[p], n) IN
        /\ Gains(c, NoSlot) /\ Copies(c)
        /\ \A t \in Slots : c[t].lock = IF t = old[p] THEN p ELSE ic[t].lock
  BY <1>1, <1>5, <1>6, GainsNlink
<1>8. /\ Gains(ic', NoSlot) /\ Copies(ic')
      /\ \A t \in Slots : ic'[t].lock = ic[t].lock
  BY Smts, <1>1, <1>7, GainsUnlock DEF LinkBad, Locks, n
<1>9. disk' \in [Inums -> Dinode] /\ \A i \in Inums : disk'[i].type = disk[i].type
  BY <1>1, <1>5, IupdateFacts DEF LinkBad, TypeOK, n
<1> QED  BY <1>1, <1>3, <1>4, <1>8, <1>9, PutLastStep DEF LinkBad

\* namex starts from an entry that it has counted.
LEMMA StartFacts ==
  ASSUME IInv, NEW p \in Procs, NEW c, Gains(c, NoSlot), Copies(c), NEW abs \in BOOLEAN,
         abs => ~IgetFull(c, ROOT)
  PROVE  /\ WalkStart(p, c, abs).slot \in Slots
         /\ Gains(WalkStart(p, c, abs).cache, WalkStart(p, c, abs).slot)
         /\ Copies(WalkStart(p, c, abs).cache)
         /\ \A t \in Slots : WalkStart(p, c, abs).cache[t].lock = c[t].lock
<1>1. TypeOK /\ RefCounted /\ croot[p] = NoSlot /\ cwd[p] \in Slots
  BY DEF IInv, TypeOK
<1>2. CASE abs
  <2>1. WalkStart(p, c, abs) = Iget(c, ROOT)
    BY <1>1, <1>2 DEF WalkStart
  <2>2. ROOT \in Inums /\ ~IgetFull(c, ROOT)
    BY <1>2, Sizes
  <2>3. /\ Iget(c, ROOT).slot \in Slots
        /\ Gains(Iget(c, ROOT).cache, Iget(c, ROOT).slot) /\ Copies(Iget(c, ROOT).cache)
        /\ \A t \in Slots : Iget(c, ROOT).cache[t].lock = c[t].lock
    BY <1>1, <2>2, GainsGet
  <2> QED  BY <2>1, <2>3
<1>3. CASE ~abs
  <2>1. WalkStart(p, c, abs) = [slot |-> cwd[p], cache |-> Idup(c, cwd[p])]
    BY <1>3 DEF WalkStart
  <2>2. ic[cwd[p]].ref >= Own(p, cwd[p]) /\ ic[cwd[p]].ref \in Nat
    BY <1>1 DEF IInv, Referenced, TypeOK, Cached
  <2>3. ic[cwd[p]].ref > 0
    BY Smts, <2>2 DEF Own, Bit
  <2> QED  BY Smts, <1>1, <2>1, <2>3, GainsDup
<1> QED  BY <1>2, <1>3

\* The frames of the calls.
LEMMA CallTypes ==
  ASSUME NEW p \in Procs, NEW k \in Calls[p]
  PROVE  /\ k \in Frames /\ k.abs \in BOOLEAN /\ k.op # "link2"
         /\ k.op \in Parental \cup {"open", "chdir", "link", "cinit"}
<1>1. k \in PathCalls \cup LinkCalls
  BY InodesAssumption
<1> QED  BY <1>1 DEF Frames, PathCalls, LinkCalls, Parental

\* A system call starts its walk at the root, at the container's root or
\* at the current directory.
LEMMA SyscallStep ==
  ASSUME IInv, NEW p \in Procs, Syscall(p)
  PROVE  Step(p, ip'[p])
<1>1. PICK k \in Calls[p] : Start(p, ic, k)
  BY DEF Syscall
<1>2. /\ k \in Frames /\ k.abs \in BOOLEAN /\ k.op # "link2"
      /\ k.op \in Parental \cup {"open", "chdir", "link", "cinit"}
  BY CallTypes
<1>3. pc[p] = "idle" /\ TypeOK /\ Local(p)
  BY DEF Syscall, Running, IInv
<1> DEFINE w == WalkStart(p, ic, k.abs)
<1>4. /\ w.slot \in Slots /\ Gains(w.cache, w.slot) /\ Copies(w.cache)
      /\ \A t \in Slots : w.cache[t].lock = ic[t].lock
  <2>1. Gains(ic, NoSlot) /\ Copies(ic)
    BY <1>3, GainsNone
  <2>2. k.abs => ~IgetFull(ic, ROOT)
    BY <1>1, <1>3 DEF Start, TypeOK
  <2> QED  BY <1>2, <2>1, <2>2, StartFacts
<1>5. /\ ip' = [ip EXCEPT ![p] = w.slot] /\ ic' = w.cache
      /\ pc' = [pc EXCEPT ![p] = "walk"] /\ call' = [call EXCEPT ![p] = k]
      /\ UNCHANGED <<disk, cwd, file, croot, dp, old, rel, cont>>
  BY <1>1 DEF Start, Goto, Syscall
<1> HIDE DEF w
<1>6. ip'[p] = w.slot /\ ip[p] = NoSlot /\ dp[p] = NoSlot /\ old[p] = NoSlot
  BY <1>3, <1>5 DEF TypeOK, Local, At, Puts, WithIp, WithDp, WithOld, Makes
<1>7. TypeOK'
  BY <1>2, <1>3, <1>4, <1>5, Sizes DEF TypeOK, Gains, Places, WithIp, SlotOrNone
<1>8. Quiet(p)
  BY <1>3, <1>5 DEF TypeOK, Quiet
<1>9. Local(p)'
  BY <1>2, <1>3, <1>4, <1>5, <1>6, Sizes
     DEF TypeOK, Local, At, Puts, WithIp, WithDp, WithOld, Makes
<1>10. \A t \in Slots : Own(p, t)' = Own(p, t) + Bit(t = ip'[p])
  BY Smts, <1>4, <1>5, <1>6, Sizes DEF Own, Bit
<1>11. Relocks(p)
  <2>1. \A t \in Slots : ~Holder(p, t) /\ ~Holder(p, t)'
    BY <1>3, <1>5 DEF Holder, At, TypeOK, Puts, Frees
  <2>2. \A t \in Slots : ic[t].lock = p <=> Holder(p, t)
    BY DEF IInv, Locked
  <2> QED  BY <1>4, <1>5, <2>1, <2>2 DEF Relocks
<1>12. Aims(p)
  BY <1>5 DEF Aims
<1> QED  BY <1>3, <1>4, <1>5, <1>6, <1>7, <1>8, <1>9, <1>10, <1>11, <1>12
         DEF Step, TypeOK, Frees

\* link counts the new name and starts the walk to its parent.
LEMMA LinkOldStep ==
  ASSUME IInv, NEW p \in Procs, LinkOld(p)
  PROVE  Step(p, ip'[p])
<1> DEFINE s == ip[p]
           n == Nlink(s) + 1
           c == Iunlock(SetNlink(Ilock(ic, s, p), s, n), s)
           k == [op |-> "link2", abs |-> call[p].new.abs, path |-> call[p].new.path]
           w == WalkStart(p, c, k.abs)
<1>1. pc[p] = "link" /\ s \in Slots /\ Locks(p, "link", s) /\ TypeOK /\ Local(p)
  BY HasIp DEF LinkOld, Locks, Running, WithIp, IInv
<1>2. call[p].op = "link" /\ dp[p] = NoSlot /\ old[p] = NoSlot
  BY <1>1 DEF Local, At, Puts, WithDp, WithOld, Makes
<1>3. k \in Frames /\ k.abs \in BOOLEAN /\ k.op = "link2"
  <2>1. call[p] \in Frames
    BY <1>1 DEF TypeOK
  <2>2. call[p] \in LinkCalls
    BY Smts, <1>2, <2>1 DEF Frames, PathCalls, NoCall
  <2> QED  BY <2>2 DEF Frames, LinkCalls
<1>4. n \in Int /\ ic[s].inum \in Inums
  BY Smts, <1>1, NlinkType
<1>5. /\ disk' = Iupdate(disk, ic[s].inum, n) /\ Start(p, c, k)
      /\ old' = [old EXCEPT ![p] = s] /\ Type(s) # "dir"
      /\ UNCHANGED <<cwd, file, croot, dp>>
  BY DEF LinkOld
<1> HIDE DEF n
<1>6. LET e == Ilock(ic, s, p) IN
        /\ Gains(e, NoSlot) /\ Copies(e)
        /\ \A t \in Slots : e[t].lock = IF t = s THEN p ELSE ic[t].lock
  BY <1>1, GainsLock DEF Locks
<1>7. LET e == SetNlink(Ilock(ic, s, p), s, n) IN
        /\ Gains(e, NoSlot) /\ Copies(e)
        /\ \A t \in Slots : e[t].lock = IF t = s THEN p ELSE ic[t].lock
  BY <1>1, <1>4, <1>6, GainsNlink
<1>8. Gains(c, NoSlot) /\ Copies(c) /\ \A t \in Slots : c[t].lock = ic[t].lock
  BY Smts, <1>1, <1>7, GainsUnlock DEF Locks
<1> HIDE DEF c, k
<1>9. /\ w.slot \in Slots /\ Gains(w.cache, w.slot) /\ Copies(w.cache)
      /\ \A t \in Slots : w.cache[t].lock = ic[t].lock
  <2>1. k.abs => ~IgetFull(c, ROOT)
    BY <1>1, <1>5 DEF Start, TypeOK
  <2> QED  BY Smts, <1>3, <1>8, <2>1, StartFacts
<1>10. /\ ip' = [ip EXCEPT ![p] = w.slot] /\ ic' = w.cache
       /\ pc' = [pc EXCEPT ![p] = "walk"] /\ call' = [call EXCEPT ![p] = k]
       /\ UNCHANGED <<rel, cont>>
  BY <1>5 DEF Start, Goto
<1> HIDE DEF w
<1>11. ip'[p] = w.slot /\ old'[p] = s /\ dp'[p] = NoSlot
  BY <1>1, <1>2, <1>5, <1>10 DEF TypeOK
<1>12. disk' \in [Inums -> Dinode] /\ \A i \in Inums : disk'[i].type = disk[i].type
  BY <1>1, <1>4, <1>5, IupdateFacts DEF TypeOK
<1>13. TypeOK'
  BY <1>1, <1>3, <1>5, <1>9, <1>10, <1>12, Sizes
     DEF TypeOK, Gains, Places, WithIp, SlotOrNone
<1>14. Quiet(p)
  BY <1>1, <1>5, <1>10 DEF TypeOK, Quiet
<1>15. Local(p)'
  BY <1>1, <1>3, <1>9, <1>10, <1>11, Sizes
     DEF TypeOK, Local, At, Puts, WithIp, WithDp, WithOld, Makes, Parental
<1>16. \A t \in Slots : Own(p, t)' = Own(p, t) + Bit(t = ip'[p])
  BY Smts, <1>1, <1>2, <1>5, <1>10, <1>11, Sizes DEF Own, Bit
<1>17. Relocks(p)
  <2>1. \A t \in Slots : ~Holder(p, t) /\ ~Holder(p, t)'
    BY <1>1, <1>10 DEF Holder, At, TypeOK, Puts, Frees
  <2>2. \A t \in Slots : ic[t].lock = p <=> Holder(p, t)
    BY DEF IInv, Locked
  <2> QED  BY <1>9, <1>10, <2>1, <2>2 DEF Relocks
<1>18. Aims(p)
  <2>1. disk[ic[s].inum].type \notin {"dir", "free"}
    BY <1>1, <1>5, TypeOnDisk DEF Locks
  <2>2. ic[s].lock = NoProc /\ ic[s].ref > 0
    BY Smts, <1>1 DEF Locks, TypeOK, Cached
  <2> QED  BY <1>5, <1>11, <2>1, <2>2 DEF Aims
<1> QED  BY <1>1, <1>9, <1>10, <1>11, <1>12, <1>13, <1>14, <1>15, <1>16, <1>17, <1>18
         DEF Step, TypeOK, Frees

\* The rest of a path.
LEMMA FrameTail ==
  ASSUME NEW f \in Frames, f.path # <<>>
  PROVE  /\ Head(f.path) \in Entries
         /\ [f EXCEPT !.path = Tail(f.path)] \in Frames
         /\ [f EXCEPT !.path = Tail(f.path)].op = f.op
<1>1. f.path \in Paths
  BY Smts DEF Frames, NoCall, PathCalls, LinkCalls
<1>2. Head(f.path) \in Entries /\ Tail(f.path) \in Paths
  BY Smts, <1>1 DEF Paths, Entries
<1>3. CASE f \in PathCalls
  BY <1>2, <1>3 DEF Frames, PathCalls
<1>4. CASE f \in LinkCalls
  BY <1>2, <1>4 DEF Frames, LinkCalls
<1>5. CASE f \in [op : {"link2"}, abs : BOOLEAN, path : Paths]
  BY <1>2, <1>5 DEF Frames
<1>6. f # NoCall
  BY Smts DEF NoCall
<1> QED  BY <1>2, <1>3, <1>4, <1>5, <1>6 DEF Frames

\* dirlookup returns the number of an inode, or 0.
LEMMA LookupType ==
  ASSUME TypeOK, NEW p \in Procs, NEW s \in Slots, call[p].path # <<>>
  PROVE  /\ Lookup(p, s, Head(call[p].path)) = disk[ic[s].inum].ents[Head(call[p].path)]
         /\ Lookup(p, s, Head(call[p].path)) \in Inums \cup {0}
         /\ Head(call[p].path) \in Entries /\ ic[s].inum \in Inums
<1>1. call[p] \in Frames /\ croot[p] = NoSlot /\ ic[s].inum \in Inums
  BY DEF TypeOK, Cached
<1>2. Head(call[p].path) \in Entries
  BY <1>1, FrameTail
<1>3. disk[ic[s].inum].ents \in [Entries -> Inums \cup {0}]
  BY <1>1 DEF TypeOK, Dinode
<1>4. croot[p] # s
  BY <1>1, Sizes
<1> QED  BY <1>1, <1>2, <1>3, <1>4 DEF Lookup

\* Where a walk stands.
LEMMA WalkFacts ==
  ASSUME IInv, NEW p \in Procs, pc[p] = "walk"
  PROVE  /\ ip[p] \in Slots /\ dp[p] = NoSlot /\ rel[p] = NoSlot
         /\ call[p].op \in Parental \cup {"open", "chdir", "link", "cinit"}
         /\ old[p] # NoSlot <=> call[p].op = "link2"
         /\ \A t \in Slots : ic[t].lock # p
<1>1. Local(p) /\ At(p) = "walk" /\ TypeOK
  BY DEF IInv, At, Puts
<1>2. \A t \in Slots : ~Holder(p, t)
  BY <1>1 DEF Holder, Frees
<1> QED  BY Smts, <1>1, <1>2, Sizes
            DEF IInv, Locked, Local, TypeOK, SlotOrNone, Puts,
         WithIp, WithDp, WithOld, Makes

\* A step that changes no entry and no type, and does not get p to its second
\* lock.
Plain(p) ==
  /\ \A i \in Inums : disk'[i].type = disk[i].type /\ disk'[i].ents = disk[i].ents
  /\ \/ At(p)' \notin {"made", "unlink2"}
     \/ At(p)' = At(p) /\ ip'[p] = ip[p] /\ dp'[p] = dp[p] /\ call'[p] = call[p]

\* The steps that leave the tree alone.
LEMMA PlainSteps ==
  ASSUME IInv, NEW p \in Procs,
         \/ Syscall(p) \/ WalkElem(p) \/ WalkEnd(p)
         \/ Iput(p) \/ IputInvalidate(p) \/ IputDrop(p)
         \/ Open(p) \/ Close(p) \/ Chdir(p)
         \/ CreateExists(p) \/ CreateEnd(p)
         \/ UnlinkNotEmpty(p) \/ UnlinkEnd(p) \/ DropParent(p)
         \/ LinkOld(p) \/ LinkDir(p) \/ LinkEnd(p) \/ LinkBad(p)
  PROVE  Plain(p)
<1>1. TypeOK /\ Local(p) /\ pc \in [Procs -> Places \cup Puts] /\ cont \in [Procs -> Places]
  BY DEF IInv, TypeOK
<1>2. ASSUME UNCHANGED disk, NEW w, Goto(p, w), w \notin Puts \cup {"made", "unlink2"}
      PROVE  Plain(p)
  BY <1>1, <1>2 DEF Plain, Goto, At
<1>3. ASSUME NEW s, NEW w, PutThen(p, s, w), w \notin {"made", "unlink2"},
             \A i \in Inums : disk'[i].type = disk[i].type /\ disk'[i].ents = disk[i].ents
      PROVE  Plain(p)
  BY <1>1, <1>3 DEF Plain, PutThen, At, Puts
<1>4. CASE Syscall(p)
  BY <1>2, <1>4 DEF Syscall, Start, Puts
<1>5. CASE WalkElem(p)
  <2>1. NotFound(p) \notin {"made", "unlink2"}
    BY DEF NotFound
  <2>2. CASE Goto(p, call[p].op) /\ call[p].op \in Parental
    BY <1>2, <1>5, <2>2 DEF WalkElem, Parental, Puts
  <2>3. CASE ~(Goto(p, call[p].op) /\ call[p].op \in Parental)
    BY Smts, <1>3, <1>5, <2>1, <2>3 DEF WalkElem
  <2> QED  BY <2>2, <2>3
<1>6. CASE WalkEnd(p)
  <2>1. NotFound(p) \notin {"made", "unlink2"}
    BY DEF NotFound
  <2>2. call[p].op \in Parental \cup {"open", "chdir", "link", "cinit"}
    BY <1>6, WalkFacts DEF WalkEnd, Running
  <2>3. CASE call[p].op \in Parental
    BY <1>3, <1>6, <2>1, <2>3 DEF WalkEnd
  <2>4. CASE call[p].op \notin Parental
    BY <1>2, <1>6, <2>2, <2>4 DEF WalkEnd, Puts
  <2> QED  BY <2>3, <2>4
<1>7. CASE Iput(p) \/ IputInvalidate(p) \/ IputDrop(p)
  <2>1. /\ pc[p] \in Puts /\ ((pc'[p] \in Puts /\ cont'[p] = cont[p]) \/ pc'[p] = cont[p])
        /\ UNCHANGED <<disk, ip, dp>> /\ (cont[p] # "idle" => call' = call)
    BY <1>1, <1>7 DEF Iput, IputInvalidate, IputDrop, Running, Returned, Goto, Puts
  <2>2. cont[p] \notin Puts
    BY <1>1 DEF Places, Puts, WithIp, WithDp, WithOld, Makes
  <2> QED  BY <2>1, <2>2 DEF Plain, At
<1>8. ASSUME NEW c, OpenInode(p, ip[p], c), UNCHANGED disk PROVE Plain(p)
  BY Smts, <1>2, <1>3, <1>8 DEF OpenInode, Puts
<1>9. CASE Open(p)
  BY <1>8, <1>9 DEF Open
<1>10. CASE Close(p) \/ Chdir(p)
  BY Smts, <1>3, <1>10 DEF Close, Chdir
<1>11. CASE CreateExists(p) \/ CreateEnd(p)
  <2>1. CASE CreateExists(p)
    <3>1. /\ UNCHANGED disk
          /\ OpenInode(p, ip[p], Ilock(ic, ip[p], p)) \/ PutThen(p, ip[p], "idle")
      BY <2>1 DEF CreateExists
    <3>2. CASE OpenInode(p, ip[p], Ilock(ic, ip[p], p))
      BY <1>8, <3>1, <3>2
    <3>3. CASE PutThen(p, ip[p], "idle")
      BY Smts, <1>3, <3>1, <3>3
    <3> QED  BY <3>1, <3>2, <3>3
  <2>2. CASE CreateEnd(p)
    <3>1. UNCHANGED disk /\ (OpenInode(p, ip[p], ic) \/ PutThen(p, ip[p], "idle"))
      BY <2>2 DEF CreateEnd
    <3>2. CASE OpenInode(p, ip[p], ic)
      BY <1>8, <3>1, <3>2
    <3>3. CASE PutThen(p, ip[p], "idle")
      BY Smts, <1>3, <3>1, <3>3
    <3> QED  BY <3>1, <3>2, <3>3
  <2> QED  BY <1>11, <2>1, <2>2
<1>12. CASE UnlinkNotEmpty(p) \/ DropParent(p) \/ LinkDir(p) \/ LinkEnd(p)
  BY Smts, <1>3, <1>12
     DEF UnlinkNotEmpty, DropParent, LinkDir, LinkEnd
<1>13. ASSUME NEW s \in Slots, NEW n \in Int, disk' = Iupdate(disk, ic[s].inum, n)
       PROVE  \A i \in Inums : disk'[i].type = disk[i].type /\ disk'[i].ents = disk[i].ents
  BY <1>1, <1>13, IupdateFacts, NlinkType DEF TypeOK
<1>14. CASE UnlinkEnd(p)
  <2>0. pc[p] = "unlink3"
    BY <1>14 DEF UnlinkEnd, Running
  <2>1. ip[p] \in Slots /\ ic[ip[p]].nlink - 1 \in Int
    <3>1. ip[p] \in Slots
      BY <2>0, HoldsIp
    <3>2. ic[ip[p]].nlink \in Int
      BY <1>1, <3>1 DEF TypeOK, Cached
    <3> QED  BY Smts, <3>1, <3>2
  <2>2. disk' = Iupdate(disk, ic[ip[p]].inum, ic[ip[p]].nlink - 1)
    BY <1>14 DEF UnlinkEnd
  <2>4. PutThen(p, ip[p], "idle")
    BY <1>14 DEF UnlinkEnd
  <2>3. \A i \in Inums : disk'[i].type = disk[i].type /\ disk'[i].ents = disk[i].ents
    BY <1>13, <2>1, <2>2
  <2> QED  BY Smts, <1>3, <2>3, <2>4
<1>15. CASE LinkOld(p)
  <2>0. pc[p] \in WithIp
    BY <1>15 DEF LinkOld, Locks, Running, WithIp
  <2>1. ip[p] \in Slots /\ Nlink(ip[p]) + 1 \in Int
    BY Smts, <1>1, <2>0, HasIp, NlinkType
  <2>2. disk' = Iupdate(disk, ic[ip[p]].inum, Nlink(ip[p]) + 1) /\ Goto(p, "walk")
    BY <1>15 DEF LinkOld, Start
  <2>3. \A i \in Inums : disk'[i].type = disk[i].type /\ disk'[i].ents = disk[i].ents
    BY <1>13, <2>1, <2>2
  <2> QED  BY <1>1, <2>2, <2>3 DEF Plain, Goto, At, Puts
<1>16. CASE LinkBad(p)
  <2>0. pc[p] \in WithOld
    BY <1>16 DEF LinkBad, Locks, Running, WithOld
  <2>1. old[p] \in Slots /\ Nlink(old[p]) - 1 \in Int
    BY Smts, <1>1, <2>0, HasOld, NlinkType
  <2>2. disk' = Iupdate(disk, ic[old[p]].inum, Nlink(old[p]) - 1)
    BY <1>16 DEF LinkBad
  <2>4. PutThen(p, old[p], "idle")
    BY <1>16 DEF LinkBad
  <2>3. \A i \in Inums : disk'[i].type = disk[i].type /\ disk'[i].ents = disk[i].ents
    BY <1>13, <2>1, <2>2
  <2> QED  BY Smts, <1>3, <2>3, <2>4
<1> QED  BY <1>4, <1>5, <1>6, <1>7, <1>9, <1>10, <1>11, <1>12, <1>14, <1>15, <1>16

\* namex is at the end of the path.
LEMMA WalkEndStep ==
  ASSUME IInv, NEW p \in Procs, WalkEnd(p)
  PROVE  Step(p, NoSlot)
<1>1. pc[p] = "walk" /\ TypeOK /\ Local(p) /\ disk' = disk /\ ic' = ic
  BY DEF WalkEnd, Running, IInv
<1>2. /\ ip[p] \in Slots /\ dp[p] = NoSlot /\ rel[p] = NoSlot
      /\ call[p].op \in Parental \cup {"open", "chdir", "link", "cinit"}
      /\ old[p] # NoSlot <=> call[p].op = "link2"
      /\ \A t \in Slots : ic[t].lock # p
  BY <1>1, WalkFacts
<1>3. Gains(ic', NoSlot) /\ Copies(ic') /\ disk' \in [Inums -> Dinode]
  BY <1>1, GainsNone DEF TypeOK
<1>4. CASE call[p].op \in Parental
  <2> DEFINE w == NotFound(p)
  <2>1. w \in {"idle", "linkbad"} /\ (w = "linkbad" <=> old[p] # NoSlot)
    BY <1>2, <1>4 DEF NotFound, Parental
  <2>2. /\ PutThen(p, ip[p], w) /\ ip' = [ip EXCEPT ![p] = NoSlot]
        /\ UNCHANGED <<cwd, file, croot, call, dp, old>>
    BY <1>4 DEF WalkEnd
  <2> HIDE DEF w
  <2> QED  BY <1>1, <1>2, <1>3, <2>1, <2>2, PutIpStep DEF WithIp
<1>5. CASE call[p].op \notin Parental
  <2>1. /\ pc' = [pc EXCEPT ![p] = call[p].op]
        /\ UNCHANGED <<cwd, file, croot, call, ip, dp, old, rel, cont>>
    BY <1>5 DEF WalkEnd, Goto
  <2>2. call[p].op \in {"open", "chdir", "link", "cinit"} /\ old[p] = NoSlot
    BY <1>2, <1>5 DEF Parental
  <2>3. TypeOK'
    BY <1>1, <2>1, <2>2 DEF TypeOK, Places, WithIp
  <2>4. Quiet(p)
    BY <1>1, <2>1 DEF TypeOK, Quiet
  <2>5. Local(p)'
    BY <1>1, <1>2, <2>1, <2>2, Sizes
       DEF TypeOK, Local, At, Puts, WithIp, WithDp, WithOld, Makes
  <2>6. \A t \in Slots : Own(p, t)' = Own(p, t) + Bit(t = NoSlot)
    BY Smts, <2>1, Sizes DEF Own, Bit
  <2>7. Relocks(p)
    <3>1. \A t \in Slots : ~Holder(p, t)'
      BY <1>1, <2>1, <2>2 DEF Holder, At, TypeOK, Puts, Frees
    <3> QED  BY <1>1, <1>2, <3>1 DEF Relocks
  <2>8. Aims(p)
    BY <2>1 DEF Aims
  <2> QED  BY <1>1, <1>3, <2>1, <2>2, <2>3, <2>4, <2>5, <2>6, <2>7, <2>8
           DEF Step, TypeOK, Frees
<1> QED  BY <1>4, <1>5

\* namex goes through one directory, or fails in it.
LEMMA WalkElemStep ==
  ASSUME IInv, NEW p \in Procs, WalkElem(p)
  PROVE  \E g : Step(p, g)
<1> DEFINE s == ip[p]
           n == Head(call[p].path)
           locked == Ilock(ic, s, p)
           next == Lookup(p, s, n)
           got == Iget(locked, next)
           last == call[p].op \in Parental /\ Len(call[p].path) = 1
<1>1. /\ pc[p] = "walk" /\ TypeOK /\ Local(p) /\ disk' = disk /\ call[p].path # <<>>
      /\ Locks(p, "walk", s) /\ UNCHANGED <<cwd, file, croot, old>>
  BY DEF WalkElem, Locks, Running, IInv
<1>2. /\ s \in Slots /\ dp[p] = NoSlot /\ rel[p] = NoSlot
      /\ call[p].op \in Parental \cup {"open", "chdir", "link", "cinit"}
      /\ old[p] # NoSlot <=> call[p].op = "link2"
      /\ \A t \in Slots : ic[t].lock # p
  BY <1>1, WalkFacts
<1>3. /\ next \in Inums \cup {0} /\ n \in Entries
      /\ call[p] \in Frames /\ disk' \in [Inums -> Dinode]
  BY <1>1, <1>2, LookupType DEF TypeOK
<1>4. LET c == Iunlock(locked, s) IN
        /\ Gains(c, NoSlot) /\ Copies(c)
        /\ \A t \in Slots : c[t].lock = ic[t].lock
  BY <1>1, <1>2, LockUnlock
<1>5. CASE /\ ic' = Iunlock(locked, s) /\ ip' = [ip EXCEPT ![p] = NoSlot]
           /\ PutThen(p, s, NotFound(p))
           /\ UNCHANGED <<dp, call, lost, panicked>>
  <2> DEFINE w == NotFound(p)
  <2>1. w \in {"idle", "linkbad", "nocinit"} /\ (w = "linkbad" <=> old[p] # NoSlot)
    BY <1>2 DEF NotFound
  <2>2. PutThen(p, ip[p], w)
    BY <1>5
  <2>3. /\ Gains(ic', NoSlot) /\ Copies(ic')
        /\ \A t \in Slots : ic'[t].lock = ic[t].lock
    BY <1>4, <1>5
  <2> HIDE DEF w
  <2>4. Step(p, NoSlot)
    BY <1>1, <1>2, <1>3, <1>5, <2>1, <2>2, <2>3, PutIpStep DEF WithIp
  <2> QED  BY <2>4
<1>6. CASE /\ Type(s) = "dir" /\ last
           /\ ic' = Iunlock(locked, s) /\ ip' = [ip EXCEPT ![p] = NoSlot]
           /\ dp' = [dp EXCEPT ![p] = s]
           /\ Goto(p, call[p].op)
           /\ UNCHANGED <<call, lost, panicked>>
  <2>1. /\ pc' = [pc EXCEPT ![p] = call[p].op] /\ UNCHANGED <<rel, cont>>
        /\ call[p].op \in Makes \cup {"unlink", "link2"}
    BY <1>6 DEF Goto, Parental, Makes
  <2>2. ip'[p] = NoSlot /\ dp'[p] = s
    BY <1>1, <1>6 DEF TypeOK
  <2>3. TypeOK'
    BY <1>1, <1>2, <1>4, <1>6, <2>1
       DEF TypeOK, Gains, Places, WithDp, Makes, SlotOrNone
  <2>4. Quiet(p)
    BY <1>1, <1>6, <2>1 DEF TypeOK, Quiet
  <2>5. Local(p)'
    BY <1>1, <1>2, <1>6, <2>1, <2>2, Sizes
       DEF TypeOK, Local, At, Puts, WithIp, WithDp, WithOld, Makes, Parental
  <2>6. \A t \in Slots : Own(p, t)' = Own(p, t) + Bit(t = NoSlot)
    BY Smts, <1>1, <1>2, <2>1, <2>2, Sizes DEF Own, Bit
  <2>7. Relocks(p)
    <3>1. \A t \in Slots : ~Holder(p, t)'
      BY <1>1, <2>1 DEF Holder, At, TypeOK, Puts, Frees, Makes
    <3> QED  BY <1>2, <1>4, <1>6, <3>1 DEF Relocks
  <2>8. Aims(p)
    <3>1. disk[ic[s].inum].type = "dir" /\ ic[s].lock = NoProc /\ ic[s].ref > 0
      BY Smts, <1>1, <1>2, <1>6, TypeOnDisk
         DEF Locks, TypeOK, Cached
    <3> QED  BY <1>1, <2>2, <3>1 DEF Aims
  <2>9. pc'[p] \notin Frees /\ pc[p] \notin Frees
    BY <1>1, <2>1 DEF TypeOK, Frees, Makes
  <2>10. Step(p, NoSlot)
    BY <1>1, <1>4, <1>6, <2>3, <2>4, <2>5, <2>6, <2>7, <2>8, <2>9 DEF Step
  <2> QED  BY <2>10
<1>7. CASE /\ Type(s) = "dir" /\ ~last /\ next # 0 /\ ~IgetFull(locked, next)
           /\ ic' = Iunlock(got.cache, s) /\ ip' = [ip EXCEPT ![p] = got.slot]
           /\ call' = [call EXCEPT ![p].path = Tail(@)]
           /\ lost' = (lost \/ (n = ".." /\ Nlink(s) = 0))
           /\ PutThen(p, s, "walk")
           /\ UNCHANGED <<dp, panicked>>
  <2> DEFINE g == got.slot
  <2>1. /\ pc' = [pc EXCEPT ![p] = "iput"] /\ rel' = [rel EXCEPT ![p] = s]
        /\ cont' = [cont EXCEPT ![p] = "walk"]
        /\ ip' = [ip EXCEPT ![p] = g] /\ UNCHANGED dp
    BY <1>7 DEF PutThen
  <2>2. LET f == [call[p] EXCEPT !.path = Tail(call[p].path)] IN
          f \in Frames /\ f.op = call[p].op /\ call' = [call EXCEPT ![p] = f]
    BY <1>1, <1>3, <1>7, FrameTail DEF TypeOK
  <2>3. /\ Gains(locked, NoSlot) /\ Copies(locked)
        /\ \A t \in Slots : locked[t].lock = IF t = s THEN p ELSE ic[t].lock
    BY <1>1, <1>2, GainsLock DEF Locks
  <2>4. /\ g \in Slots /\ Gains(got.cache, g) /\ Copies(got.cache)
        /\ \A t \in Slots : got.cache[t].lock = IF t = s THEN p ELSE ic[t].lock
    <3>1. next \in Inums /\ ~IgetFull(locked, next)
      BY <1>3, <1>7
    <3> HIDE DEF next, locked
    <3> QED  BY Smts, <1>1, <2>3, <3>1, GainsGet
  <2>5. /\ Gains(ic', g) /\ Copies(ic')
        /\ \A t \in Slots : ic'[t].lock = ic[t].lock
    <3> DEFINE e == got.cache
    <3>1. /\ Gains(e, g) /\ Copies(e) /\ ic' = Iunlock(e, s) /\ ic[s].lock = NoProc
          /\ \A t \in Slots : e[t].lock = IF t = s THEN p ELSE ic[t].lock
      BY <1>1, <1>7, <2>4 DEF Locks
    <3> HIDE DEF e, g
    <3> QED  BY Smts, <1>2, <3>1, GainsUnlock
  <2> HIDE DEF g
  <2>6. TypeOK'
    BY <1>1, <1>2, <2>1, <2>2, <2>4, <2>5, Sizes
       DEF TypeOK, Gains, Places, Puts, WithIp, SlotOrNone
  <2>7. Quiet(p)
    BY <1>1, <2>1, <2>2 DEF TypeOK, Quiet
  <2>8. ip'[p] = g /\ rel'[p] = s /\ call'[p].op = call[p].op
    BY <1>1, <2>1, <2>2 DEF TypeOK
  <2>9. Local(p)'
    BY <1>1, <1>2, <2>1, <2>4, <2>8, Sizes
       DEF TypeOK, Local, At, Puts, WithIp, WithDp, WithOld, Makes
  <2>10. \A t \in Slots : Own(p, t)' = Own(p, t) + Bit(t = g)
    <3> SUFFICES ASSUME NEW t \in Slots PROVE Own(p, t)' = Own(p, t) + Bit(t = g)
      OBVIOUS
    <3>1. /\ cwd'[p] = cwd[p] /\ file'[p] = file[p] /\ dp'[p] = dp[p] /\ old'[p] = old[p]
          /\ rel'[p] = ip[p] /\ ip'[p] = g /\ rel[p] # t
      BY <1>1, <1>2, <2>1, <2>8, Sizes
    <3> QED  BY Smts, <3>1 DEF Own, Bit
  <2>11. Relocks(p)
    <3>1. \A t \in Slots : ~Holder(p, t)'
      BY <1>1, <2>1 DEF Holder, At, TypeOK, Puts, Frees
    <3> QED  BY <1>2, <2>5, <3>1 DEF Relocks
  <2>12. Aims(p)
    BY <1>1, <2>1 DEF Aims
  <2>13. /\ pc[p] \notin Frees /\ pc'[p] \notin Frees
         /\ \A i \in Inums : disk'[i].type = disk[i].type
    BY <1>1, <2>1 DEF TypeOK, Frees
  <2>14. Step(p, g)
    BY <2>5, <2>6, <2>7, <2>9, <2>10, <2>11, <2>12, <2>13 DEF Step
  <2> QED  BY <2>14
<1> QED  BY <1>5, <1>6, <1>7 DEF WalkElem

\* p gives back the directory it works in, and holds no lock then.
LEMMA PutDpStep ==
  ASSUME IInv, NEW p \in Procs, pc[p] \in {"unlink", "link2", "unlinkbad", "link2bad"},
         NEW w, w \in {"idle", "linkend", "linkbad"}, w # "idle" <=> old[p] # NoSlot,
         Gains(ic', NoSlot), Copies(ic'),
         \A t \in Slots : t # dp[p] => ic'[t].lock = ic[t].lock,
         ic'[dp[p]].lock = NoProc, ic[dp[p]].lock \in {p, NoProc},
         dp' = [dp EXCEPT ![p] = NoSlot], PutThen(p, dp[p], w),
         UNCHANGED <<cwd, file, croot, call, ip, old>>,
         disk' \in [Inums -> Dinode], \A i \in Inums : disk'[i].type = disk[i].type
  PROVE  Step(p, NoSlot)
<1>1. TypeOK /\ Local(p) /\ dp[p] \in Slots
  BY HasDp DEF IInv, WithDp
<1>2. TypeOK'
  BY <1>1, Sizes DEF TypeOK, PutThen, Gains, Places, Puts, SlotOrNone, WithOld
<1>3. Quiet(p)
  BY <1>1 DEF TypeOK, PutThen, Quiet
<1>4. pc[p] \notin Puts /\ ip[p] = NoSlot /\ rel[p] = NoSlot
  BY <1>1 DEF Local, At, WithIp, Puts
<1>5. Local(p)'
  BY <1>1, <1>4, Sizes
     DEF TypeOK, PutThen, Local, At, Puts, WithIp, WithDp, WithOld, Makes
<1>6. \A t \in Slots : Own(p, t)' = Own(p, t) + Bit(t = NoSlot)
  BY Smts, <1>1, <1>4, Sizes DEF TypeOK, PutThen, Own, Bit
<1>7. Relocks(p)
  <2>1. \A t \in Slots : ~Holder(p, t)'
    BY <1>1, <1>4 DEF Holder, At, TypeOK, PutThen, Puts, Frees
  <2>2. \A t \in Slots : Holder(p, t) => t = dp[p]
    BY <1>4 DEF Holder, At, Puts, Frees
  <2>3. \A t \in Slots : ic[t].lock = p <=> Holder(p, t)
    BY DEF IInv, Locked
  <2> QED  BY <2>1, <2>2, <2>3, InodesAssumption DEF Relocks
<1>8. Aims(p)
  BY <1>1 DEF Aims, TypeOK
<1>9. pc[p] \notin Frees /\ pc'[p] \notin Frees
  BY <1>1, <1>4 DEF PutThen, TypeOK, Frees, Puts
<1> QED  BY <1>2, <1>3, <1>5, <1>6, <1>7, <1>8, <1>9 DEF Step

\* unlink and link give back a parent they did not change.
LEMMA DropParentStep ==
  ASSUME IInv, NEW p \in Procs, DropParent(p)
  PROVE  Step(p, NoSlot)
<1> DEFINE w == IF pc[p] = "unlinkbad" THEN "idle" ELSE "linkbad"
<1>1. /\ pc[p] \in {"unlinkbad", "link2bad"} /\ dp[p] \in Slots /\ ic[dp[p]].lock = p
      /\ TypeOK /\ Local(p)
  BY HoldsDp DEF DropParent, IInv
<1>2. Gains(ic, NoSlot) /\ Copies(ic)
  BY <1>1, GainsNone
<1>3. /\ Gains(ic', NoSlot) /\ Copies(ic')
      /\ \A t \in Slots : ic'[t].lock = IF t = dp[p] THEN NoProc ELSE ic[t].lock
  BY <1>1, <1>2, GainsUnlock DEF DropParent
<1>4. w \in {"idle", "linkbad"} /\ (w # "idle" <=> old[p] # NoSlot)
  BY <1>1 DEF Local, At, Puts, WithOld
<1>5. PutThen(p, dp[p], w) /\ disk' = disk /\ disk' \in [Inums -> Dinode]
  BY <1>1 DEF DropParent, TypeOK
<1> HIDE DEF w
<1> QED  BY <1>1, <1>3, <1>4, <1>5, PutDpStep DEF DropParent

\* A directory in which a process looks its name up.
LEMMA ParentFacts ==
  ASSUME IInv, NEW p \in Procs, pc[p] \in Makes \cup {"unlink", "link2"}
  PROVE  /\ dp[p] \in Slots /\ ip[p] = NoSlot /\ rel[p] = NoSlot
         /\ old[p] # NoSlot <=> pc[p] = "link2"
         /\ call[p].path # <<>> /\ (pc[p] \in Makes => call[p].op \in Makes)
         /\ \A t \in Slots : ic[t].lock # p
<1>1. Local(p) /\ At(p) = pc[p] /\ TypeOK
  BY DEF IInv, At, Puts, Makes
<1>2. \A t \in Slots : ~Holder(p, t)
  BY <1>1 DEF Holder, Frees, Makes
<1>3. dp[p] \in Slots
  BY HasDp DEF WithDp
<1> QED  BY <1>1, <1>2, <1>3 DEF IInv, Locked, Local, Puts, WithIp, WithDp, WithOld, Makes

\* p holds the lock of the directory only, and has found an inode in it.
FoundIn(p, g) ==
  /\ g \in Slots /\ Gains(ic', g) /\ Copies(ic')
  /\ \A t \in Slots : ic'[t].lock = IF t = dp[p] THEN p ELSE ic[t].lock

\* ilock of the parent, then iget of the inode found in it.
LEMMA Found ==
  ASSUME IInv, NEW p \in Procs, NEW w, Locks(p, w, dp[p]), dp[p] \in Slots,
         NEW i \in Inums, ~IgetFull(Ilock(ic, dp[p], p), i),
         ic' = Iget(Ilock(ic, dp[p], p), i).cache
  PROVE  FoundIn(p, Iget(Ilock(ic, dp[p], p), i).slot)
<1> DEFINE locked == Ilock(ic, dp[p], p)
<1>1. /\ Gains(locked, NoSlot) /\ Copies(locked)
      /\ \A t \in Slots : locked[t].lock = IF t = dp[p] THEN p ELSE ic[t].lock
  BY GainsLock DEF Locks
<1>2. TypeOK
  BY DEF IInv
<1> HIDE DEF locked
<1>3. LET c == Iget(locked, i) IN
        /\ c.slot \in Slots /\ Gains(c.cache, c.slot) /\ Copies(c.cache)
        /\ \A t \in Slots : c.cache[t].lock = locked[t].lock
  BY <1>1, <1>2, GainsGet DEF locked
<1> QED  BY <1>1, <1>3 DEF FoundIn, locked

\* p goes on with the directory locked and the inode it found, or drops that.
LEMMA FoundStep ==
  ASSUME IInv, NEW p \in Procs, NEW g, pc[p] \in Makes \cup {"unlink"}, FoundIn(p, g),
         ip' = [ip EXCEPT ![p] = g], NEW w, Goto(p, w),
         w = IF pc[p] = "unlink" THEN "unlink2" ELSE "made",
         ic[dp[p]].lock = NoProc,
         UNCHANGED <<cwd, file, croot, call, dp, old>>,
         disk' \in [Inums -> Dinode],
         \A i \in Inums : disk'[i].type = disk[i].type \/ disk[i].type = "free"
  PROVE  Step(p, g)
<1>1. TypeOK /\ Local(p) /\ w \in {"made", "unlink2"} /\ pc[p] \notin Puts
  BY DEF IInv, Puts, Makes
<1>2. /\ dp[p] \in Slots /\ ip[p] = NoSlot /\ rel[p] = NoSlot /\ old[p] = NoSlot
      /\ call[p].path # <<>> /\ (pc[p] \in Makes => call[p].op \in Makes)
      /\ \A t \in Slots : ic[t].lock # p
  BY ParentFacts DEF Makes
<1>3. TypeOK'
  BY <1>1 DEF TypeOK, Goto, FoundIn, Gains, Places, SlotOrNone, WithIp
<1>4. Quiet(p)
  BY <1>1 DEF TypeOK, Goto, Quiet
<1>5. ip'[p] = g /\ dp'[p] = dp[p] /\ pc'[p] = w
  BY <1>1 DEF TypeOK, Goto
<1>6. Local(p)'
  BY <1>1, <1>2, <1>5, Sizes
     DEF Goto, FoundIn, Local, At, Puts, WithIp, WithDp, WithOld, Makes
<1>7. \A t \in Slots : Own(p, t)' = Own(p, t) + Bit(t = g)
  BY Smts, <1>2, <1>5, Sizes DEF Goto, FoundIn, Own, Bit
<1>8. Relocks(p)
  <2>1. \A t \in Slots : Holder(p, t)' <=> t = dp[p]
    BY <1>1, <1>5 DEF Holder, At, Puts, Frees
  <2> QED  BY <1>2, <2>1 DEF Relocks, FoundIn
<1>9. Aims(p)
  BY DEF Aims
<1> QED  BY <1>1, <1>3, <1>4, <1>5, <1>6, <1>7, <1>8, <1>9 DEF Step, FoundIn, Frees, Puts

\* unlink locks the parent and looks the name up.
LEMMA UnlinkStep ==
  ASSUME IInv, NEW p \in Procs, Unlink(p)
  PROVE  \E g : Step(p, g)
<1> DEFINE s == dp[p]
           locked == Ilock(ic, s, p)
           next == Lookup(p, s, Name(p))
           got == Iget(locked, next)
<1>1. /\ pc[p] = "unlink" /\ Locks(p, "unlink", s) /\ TypeOK /\ disk' = disk
      /\ UNCHANGED <<cwd, file, croot, call, old>>
  BY DEF Unlink, Locks, Running, IInv
<1>2. s \in Slots /\ old[p] = NoSlot /\ call[p].path # <<>> /\ disk' \in [Inums -> Dinode]
  BY <1>1, ParentFacts DEF Makes, TypeOK
<1>3. CASE /\ ic' = Iunlock(locked, s) /\ dp' = [dp EXCEPT ![p] = NoSlot]
           /\ PutThen(p, s, "idle") /\ UNCHANGED ip
  <2>1. /\ Gains(ic', NoSlot) /\ Copies(ic') /\ ic[s].lock = NoProc
        /\ \A t \in Slots : ic'[t].lock = ic[t].lock
    BY <1>1, <1>2, <1>3, LockUnlock DEF Locks
  <2>2. Step(p, NoSlot)
    BY <1>1, <1>2, <1>3, <2>1, PutDpStep
  <2> QED  BY <2>2
<1>4. CASE /\ next # 0 /\ ~IgetFull(locked, next)
           /\ ic' = got.cache /\ ip' = [ip EXCEPT ![p] = got.slot]
           /\ Goto(p, "unlink2") /\ UNCHANGED dp
  <2>1. next \in Inums
    BY <1>1, <1>2, <1>4, LookupType DEF Name
  <2> DEFINE g == got.slot
  <2>2. FoundIn(p, g)
    <3> HIDE DEF next
    <3> QED  BY <1>1, <1>2, <1>4, <2>1, Found
  <2>3. ic[s].lock = NoProc
    BY <1>1 DEF Locks
  <2>4. ip' = [ip EXCEPT ![p] = g]
    BY <1>4
  <2> HIDE DEF g
  <2>5. Step(p, g)
    BY <1>1, <1>2, <1>4, <2>2, <2>3, <2>4, FoundStep
  <2> QED  BY <2>5
<1> QED  BY <1>3, <1>4 DEF Unlink

\* link enters the new name, or fails, in the parent.
LEMMA LinkNewStep ==
  ASSUME IInv, NEW p \in Procs, LinkNew(p)
  PROVE  \E g : Step(p, g)
<1> DEFINE s == dp[p]
           locked == Ilock(ic, s, p)
           next == Lookup(p, s, Name(p))
           got == Iget(locked, next)
<1>1. /\ pc[p] = "link2" /\ Locks(p, "link2", s) /\ TypeOK /\ Local(p)
      /\ UNCHANGED <<cwd, file, croot, call, ip, old>>
  BY DEF LinkNew, Locks, Running, IInv
<1>2. /\ s \in Slots /\ old[p] # NoSlot /\ call[p].path # <<>> /\ rel[p] = NoSlot
      /\ ip[p] = NoSlot /\ \A t \in Slots : ic[t].lock # p
  BY <1>1, ParentFacts
<1>3. CASE /\ next # 0 /\ ~IgetFull(locked, next)
           /\ ic' = got.cache /\ PutThen(p, got.slot, "link2bad")
           /\ UNCHANGED <<disk, dp, lost>>
  <2>1. next \in Inums
    BY <1>1, <1>2, <1>3, LookupType DEF Name
  <2> DEFINE g == got.slot
  <2>2. FoundIn(p, g)
    <3> HIDE DEF next
    <3> QED  BY <1>1, <1>2, <1>3, <2>1, Found
  <2>3. /\ pc' = [pc EXCEPT ![p] = "iput"] /\ rel' = [rel EXCEPT ![p] = g]
        /\ cont' = [cont EXCEPT ![p] = "link2bad"]
    BY <1>3 DEF PutThen
  <2> HIDE DEF g
  <2>4. TypeOK'
    BY <1>1, <1>3, <2>2, <2>3
       DEF TypeOK, FoundIn, Gains, Places, Puts, SlotOrNone, WithDp
  <2>5. Quiet(p)
    BY <1>1, <1>3, <2>3 DEF TypeOK, Quiet
  <2>6. rel'[p] = g /\ dp'[p] = s /\ pc'[p] = "iput" /\ cont'[p] = "link2bad"
    BY <1>1, <1>3, <2>3 DEF TypeOK
  <2>7. Local(p)'
    BY <1>1, <1>2, <2>2, <2>6, Sizes
       DEF FoundIn, Local, At, Puts, WithIp, WithDp, WithOld, Makes
  <2>8. \A t \in Slots : Own(p, t)' = Own(p, t) + Bit(t = g)
    BY Smts, <1>1, <1>2, <2>2, <2>6, Sizes DEF FoundIn, Own, Bit
  <2>9. Relocks(p)
    <3>1. \A t \in Slots : Holder(p, t)' <=> t = s
      BY <2>6 DEF Holder, At, Puts, Frees
    <3>2. ic[s].lock = NoProc
      BY <1>1 DEF Locks
    <3> QED  BY <1>2, <2>2, <3>1, <3>2 DEF Relocks, FoundIn
  <2>10. Aims(p)
    BY <1>1, <1>3 DEF Aims
  <2>11. Step(p, g)
    BY <1>1, <1>3, <2>2, <2>4, <2>5, <2>6, <2>7, <2>8, <2>9, <2>10
       DEF Step, FoundIn, Frees
  <2> QED  BY <2>11
<1>4. CASE /\ disk' = Dirlink(disk, ic[s].inum, Name(p), ic[old[p]].inum)
           /\ ic' = Iunlock(locked, s) /\ dp' = [dp EXCEPT ![p] = NoSlot]
           /\ PutThen(p, s, "linkend")
  <2>1. /\ Gains(ic', NoSlot) /\ Copies(ic') /\ ic[s].lock = NoProc
        /\ \A t \in Slots : ic'[t].lock = ic[t].lock
    BY <1>1, <1>2, <1>4, LockUnlock DEF Locks
  <2>2. Name(p) \in Entries /\ ic[s].inum \in Inums
    BY <1>1, <1>2, LookupType DEF Name
  <2>3. ic[old[p]].inum \in Inums
    BY <1>1, <1>2 DEF TypeOK, SlotOrNone, Cached
  <2>4. disk' \in [Inums -> Dinode] /\ \A i \in Inums : disk'[i].type = disk[i].type
    <3>1. /\ disk \in [Inums -> Dinode]
          /\ disk' = Dirlink(disk, ic[s].inum, Name(p), ic[old[p]].inum)
      BY <1>1, <1>4 DEF TypeOK
    <3> QED  BY <2>2, <2>3, <3>1, DirlinkFacts
  <2>5. Step(p, NoSlot)
    BY <1>1, <1>2, <1>4, <2>1, <2>4, PutDpStep
  <2> QED  BY <2>5
<1> QED  BY <1>3, <1>4 DEF LinkNew

\* ialloc takes a free inode.
LEMMA IallocFacts ==
  ASSUME TypeOK, \E i \in Inums : disk[i].type = "free", NEW t \in Types
  PROVE  /\ Ialloc(t).inum \in Inums /\ disk[Ialloc(t).inum].type = "free"
         /\ Ialloc(t).disk \in [Inums -> Dinode]
         /\ Ialloc(t).disk = [disk EXCEPT ![Ialloc(t).inum] =
                                [type |-> t, nlink |-> 0, ents |-> NoEntries]]
<1> DEFINE F == {x \in Inums : disk[x].type = "free"}
           P(x) == disk[x].type = "free" /\ \A y \in 1 .. (x - 1) : disk[y].type # "free"
           i == CHOOSE x \in Inums : P(x)
<1>1. \E x \in F : \A y \in F : x <= y
  <2>1. F # {} /\ F \in SUBSET Nat
    BY Sizes
  <2> HIDE DEF F
  <2> QED  BY <2>1, Least
<1>2. \E x \in Inums : P(x)
  <2>1. PICK x \in F : \A y \in F : x <= y
    BY <1>1
  <2>2. ASSUME NEW y \in 1 .. (x - 1) PROVE disk[y].type # "free"
    BY Smts, <2>1, InodesAssumption DEF Inums
  <2> QED  BY <2>1, <2>2
<1>3. i \in Inums /\ disk[i].type = "free"
  BY <1>2
<1>4. Ialloc(t) = [inum |-> i,
         disk |-> [disk EXCEPT ![i] = [type |-> t, nlink |-> 0, ents |-> NoEntries]]]
  BY DEF Ialloc
<1> HIDE DEF i
<1>5. NoEntries \in [Entries -> Inums \cup {0}]
  BY DEF NoEntries
<1> QED  BY Smts, <1>3, <1>4, <1>5 DEF TypeOK, Dinode

\* create locks the parent and finds the name or allocates an inode.
LEMMA CreateStep ==
  ASSUME IInv, NEW p \in Procs, Create(p)
  PROVE  \E g : Step(p, g)
<1> DEFINE s == dp[p]
           locked == Ilock(ic, s, p)
           next == Lookup(p, s, Name(p))
           new == Ialloc(MadeType[call[p].op])
           got == Iget(locked, IF next # 0 THEN next ELSE new.inum)
<1>1. /\ pc[p] \in Makes /\ Locks(p, pc[p], s) /\ TypeOK /\ Local(p)
      /\ UNCHANGED <<cwd, file, croot, call, old>>
  BY DEF Create, IInv, Makes, MadeType
<1>2. /\ s \in Slots /\ old[p] = NoSlot /\ call[p].path # <<>> /\ rel[p] = NoSlot
      /\ ip[p] = NoSlot /\ call[p].op \in Makes /\ \A t \in Slots : ic[t].lock # p
  BY <1>1, ParentFacts DEF Makes
<1>3. next \in Inums \cup {0} /\ 0 \notin Inums
  BY <1>1, <1>2, LookupType, Sizes DEF Name
<1>4. CASE next # 0
  <2> DEFINE e == Iget(locked, next).cache
             g == Iget(locked, next).slot
  <2>1. /\ ~IgetFull(locked, next) /\ ip' = [ip EXCEPT ![p] = g] /\ ic' = Iunlock(e, s)
        /\ dp' = [dp EXCEPT ![p] = NoSlot] /\ PutThen(p, s, "exists") /\ UNCHANGED disk
    BY <1>4 DEF Create
  <2> HIDE DEF e, g
  <2>a. ic[s].lock = NoProc /\ ic[s].ref >= 1 /\ Type(s) # "free"
    BY <1>1 DEF Locks
  <2>2. /\ Gains(locked, NoSlot) /\ Copies(locked)
        /\ \A t \in Slots : locked[t].lock = IF t = s THEN p ELSE ic[t].lock
    BY <1>2, <2>a, GainsLock
  <2>3. /\ g \in Slots /\ Gains(e, g) /\ Copies(e)
        /\ \A t \in Slots : e[t].lock = IF t = s THEN p ELSE ic[t].lock
    <3>1. next \in Inums
      BY <1>3, <1>4
    <3> HIDE DEF next, locked
    <3> QED  BY Smts, <1>1, <2>1, <2>2, <3>1, GainsGet DEF e, g
  <2> HIDE DEF next, locked
  <2>4. /\ Gains(ic', g) /\ Copies(ic')
        /\ \A t \in Slots : ic'[t].lock = ic[t].lock
    <3>1. ic' = Iunlock(e, s) /\ ic[s].lock = NoProc
      BY <2>a, <2>1
    <3>2. /\ Gains(ic', g) /\ Copies(ic')
          /\ \A t \in Slots : ic'[t].lock = IF t = s THEN NoProc ELSE e[t].lock
      BY Smts, <1>2, <2>3, <3>1, GainsUnlock
    <3> QED  BY <2>3, <3>1, <3>2
  <2>5. TypeOK'
    BY <1>1, <1>2, <2>1, <2>3, <2>4
       DEF TypeOK, PutThen, Gains, Places, Puts, SlotOrNone, WithIp
  <2>6. Quiet(p)
    BY <1>1, <2>1 DEF TypeOK, PutThen, Quiet
  <2>7. /\ rel'[p] = s /\ ip'[p] = g /\ dp'[p] = NoSlot /\ pc'[p] = "iput"
        /\ cont'[p] = "exists"
    BY <1>1, <2>1 DEF TypeOK, PutThen
  <2>8. Local(p)'
    BY <1>1, <1>2, <2>3, <2>7, Sizes
       DEF Local, At, Puts, WithIp, WithDp, WithOld, Makes
  <2>9. \A t \in Slots : Own(p, t)' = Own(p, t) + Bit(t = g)
    BY Smts, <1>1, <1>2, <2>3, <2>7, Sizes DEF Own, Bit
  <2>10. Relocks(p)
    <3>1. \A t \in Slots : ~Holder(p, t)'
      BY <2>7 DEF Holder, At, Puts, Frees
    <3> QED  BY <1>2, <2>4, <3>1 DEF Relocks
  <2>11. Aims(p)
    BY <1>1, <2>7 DEF Aims
  <2>12. pc[p] \notin Frees /\ pc'[p] \notin Frees
    BY <1>1, <2>7 DEF Makes, Frees
  <2>13. Step(p, g)
    BY <2>1, <2>4, <2>5, <2>6, <2>8, <2>9, <2>10, <2>11, <2>12 DEF Step
  <2> QED  BY <2>13
<1>5. CASE next = 0
  <2> DEFINE i == new.inum
             g == Iget(locked, i).slot
  <2>1. /\ ~IgetFull(locked, i) /\ ip' = [ip EXCEPT ![p] = g]
        /\ ic' = Iget(locked, i).cache /\ disk' = new.disk
        /\ Goto(p, "made") /\ UNCHANGED dp
        /\ \E x \in Inums : disk[x].type = "free"
    BY <1>5 DEF Create
  <2>2. /\ i \in Inums /\ disk[i].type = "free" /\ new.disk \in [Inums -> Dinode]
        /\ \A x \in Inums : new.disk[x].type = disk[x].type \/ disk[x].type = "free"
    <3>1. MadeType[call[p].op] \in Types
      BY Smts, <1>2 DEF MadeType, Makes, Types
    <3> DEFINE t == MadeType[call[p].op]
    <3> HIDE DEF t
    <3>2. /\ Ialloc(t).inum \in Inums /\ disk[Ialloc(t).inum].type = "free"
          /\ Ialloc(t).disk \in [Inums -> Dinode]
          /\ Ialloc(t).disk = [disk EXCEPT ![Ialloc(t).inum] =
                                 [type |-> t, nlink |-> 0, ents |-> NoEntries]]
      BY <1>1, <2>1, <3>1, IallocFacts DEF t
    <3>3. \A x \in Inums : Ialloc(t).disk[x].type = disk[x].type \/ disk[x].type = "free"
      BY <1>1, <3>2 DEF TypeOK
    <3> QED  BY <3>2, <3>3 DEF t
  <2> HIDE DEF i
  <2>3. FoundIn(p, g)
    BY <1>1, <1>2, <2>1, <2>2, Found
  <2>4. ic[s].lock = NoProc /\ pc[p] # "unlink"
    BY <1>1 DEF Locks, Makes
  <2> HIDE DEF g
  <2>5. Step(p, g)
    BY <1>1, <2>1, <2>2, <2>3, <2>4, FoundStep
  <2> QED  BY <2>5
<1> QED  BY <1>4, <1>5

\* With the directory and the inode in it locked: the directory goes.
LEMMA BothStep ==
  ASSUME IInv, NEW p \in Procs, pc[p] \in {"made", "unlink2"}, NEW w,
         w = IF pc[p] = "made" THEN "mkend" ELSE "unlink3",
         Gains(ic', NoSlot), Copies(ic'), ip[p] # dp[p], ic[ip[p]].lock = NoProc,
         \A t \in Slots : ic'[t].lock = IF t = dp[p] THEN NoProc
                                        ELSE IF t = ip[p] THEN p ELSE ic[t].lock,
         dp' = [dp EXCEPT ![p] = NoSlot], PutThen(p, dp[p], w),
         UNCHANGED <<cwd, file, croot, call, ip, old>>,
         disk' \in [Inums -> Dinode], \A i \in Inums : disk'[i].type = disk[i].type
  PROVE  Step(p, NoSlot)
<1>1. /\ TypeOK /\ Local(p) /\ ip[p] \in Slots /\ w \in {"mkend", "unlink3"}
      /\ dp[p] \in Slots /\ ic[dp[p]].lock = p
  BY HasIp, HoldsDp DEF IInv, WithIp
<1>2. TypeOK'
  BY <1>1, Sizes DEF TypeOK, PutThen, Gains, Places, Puts, SlotOrNone, WithIp
<1>3. Quiet(p)
  BY <1>1 DEF TypeOK, PutThen, Quiet
<1>4. pc[p] \notin Puts /\ rel[p] = NoSlot /\ old[p] = NoSlot
  BY <1>1 DEF Local, At, Puts, WithOld
<1>5. rel'[p] = dp[p] /\ dp'[p] = NoSlot /\ pc'[p] = "iput" /\ cont'[p] = w
  BY <1>1 DEF TypeOK, PutThen
<1>6. Local(p)'
  <2>1. At(p)' = w /\ pc'[p] \in Puts
    BY <1>5 DEF At, Puts
  <2>2. w \notin {"walk", "link", "made"} \cup Makes \cup WithDp \cup WithOld /\ w \in WithIp
    BY <1>1 DEF WithIp, WithDp, WithOld, Makes
  <2> QED  BY <1>1, <1>4, <1>5, <2>1, <2>2, Sizes DEF Local
<1>7. \A t \in Slots : Own(p, t)' = Own(p, t) + Bit(t = NoSlot)
  BY Smts, <1>1, <1>4, <1>5, Sizes DEF Own, Bit
<1>8. Relocks(p)
  <2>1. \A t \in Slots : Holder(p, t)' <=> t = ip[p]
    BY <1>1, <1>5 DEF Holder, At, Puts, Frees
  <2>2. \A t \in Slots : Holder(p, t) => t = dp[p]
    BY <1>4 DEF Holder, At, Puts, Frees
  <2>3. \A t \in Slots : ic[t].lock = p <=> Holder(p, t)
    BY DEF IInv, Locked
  <2> QED  BY Smts, <1>1, <2>1, <2>2, <2>3, InodesAssumption
              DEF Relocks
<1>9. Aims(p)
  BY <1>5 DEF Aims
<1> QED  BY <1>2, <1>3, <1>4, <1>5, <1>6, <1>7, <1>8, <1>9 DEF Step, Frees, Puts

\* The two inodes of such a step.
LEMMA BothFacts ==
  ASSUME IInv, NEW p \in Procs, pc[p] \in {"made", "unlink2"}, ic[ip[p]].lock = NoProc
  PROVE  /\ ip[p] \in Slots /\ dp[p] \in Slots /\ ic[dp[p]].lock = p /\ ip[p] # dp[p]
         /\ ic[ip[p]].inum \in Inums /\ ic[dp[p]].inum \in Inums /\ Name(p) \in Entries
         /\ Nlink(ip[p]) \in Int /\ Nlink(dp[p]) \in Int
<1>1. ip[p] \in Slots /\ dp[p] \in Slots /\ ic[dp[p]].lock = p /\ ip[p] # dp[p]
  BY HasIp, HoldsDp, InodesAssumption DEF WithIp
<1>2. TypeOK /\ Local(p) /\ At(p) = pc[p]
  BY DEF IInv, At, Puts
<1>3. call[p].path # <<>>
  BY <1>2 DEF Local, WithDp
<1> QED  BY <1>1, <1>2, <1>3, NlinkType, LookupType DEF Name

\* create locks the inode it allocated and enters it in the parent.
LEMMA CreateMadeStep ==
  ASSUME IInv, NEW p \in Procs, CreateMade(p)
  PROVE  Step(p, NoSlot)
<1> DEFINE s == ip[p]
           d == dp[p]
           isdir == call[p].op = "mkdir"
           up == Nlink(d) + (IF isdir THEN 1 ELSE 0)
           made == IF isdir THEN Dirlink(disk, ic[s].inum, "..", ic[d].inum) ELSE disk
<1>1. pc[p] = "made" /\ Locks(p, "made", s) /\ TypeOK
  BY DEF CreateMade, Made, Locks, Running, IInv
<1>2. /\ s \in Slots /\ d \in Slots /\ ic[d].lock = p /\ s # d /\ ic[s].lock = NoProc
      /\ ic[s].inum \in Inums /\ ic[d].inum \in Inums /\ Name(p) \in Entries
      /\ up \in Int
  BY Smts, <1>1, BothFacts DEF Locks
<1>3. /\ disk' = Dirlink(Iupdate(Iupdate(made, ic[s].inum, 1), ic[d].inum, up),
                         ic[d].inum, Name(p), ic[s].inum)
      /\ ic' = Iunlock(SetNlink(SetNlink(Ilock(ic, s, p), s, 1), d, up), d)
      /\ dp' = [dp EXCEPT ![p] = NoSlot]
      /\ PutThen(p, d, "mkend")
      /\ UNCHANGED <<cwd, file, croot, call, ip, old>>
  BY DEF CreateMade, Made
<1>4. made \in [Inums -> Dinode] /\ \A i \in Inums : made[i].type = disk[i].type
  <2>1. ".." \in Entries /\ disk \in [Inums -> Dinode]
    BY <1>1 DEF TypeOK, Entries
  <2>2. CASE isdir
    BY Smts, <1>2, <2>1, <2>2, DirlinkFacts
  <2>3. CASE ~isdir
    BY <2>1, <2>3
  <2> QED  BY <2>2, <2>3
<1> HIDE DEF made, up
<1> DEFINE d1 == Iupdate(made, ic[s].inum, 1)
           d2 == Iupdate(d1, ic[d].inum, up)
<1>5. d1 \in [Inums -> Dinode] /\ \A i \in Inums : d1[i].type = disk[i].type
  BY Smts, <1>2, <1>4, IupdateFacts
<1> HIDE DEF d1
<1>6. d2 \in [Inums -> Dinode] /\ \A i \in Inums : d2[i].type = disk[i].type
  BY <1>2, <1>5, IupdateFacts
<1>7. disk' = Dirlink(d2, ic[d].inum, Name(p), ic[s].inum)
  BY <1>3 DEF d1
<1> HIDE DEF d2
<1>8. disk' \in [Inums -> Dinode] /\ \A i \in Inums : disk'[i].type = disk[i].type
  BY Smts, <1>2, <1>6, <1>7, DirlinkFacts
<1> DEFINE c1 == Ilock(ic, s, p)
           c2 == SetNlink(c1, s, 1)
           c3 == SetNlink(c2, d, up)
<1>9. /\ Gains(c1, NoSlot) /\ Copies(c1)
      /\ \A t \in Slots : c1[t].lock = IF t = s THEN p ELSE ic[t].lock
  BY <1>1, <1>2, GainsLock DEF Locks
<1> HIDE DEF c1
<1>10. /\ Gains(c2, NoSlot) /\ Copies(c2)
       /\ \A t \in Slots : c2[t].lock = IF t = s THEN p ELSE ic[t].lock
  BY Smts, <1>2, <1>9, GainsNlink
<1> HIDE DEF c2
<1>11. /\ Gains(c3, NoSlot) /\ Copies(c3)
       /\ \A t \in Slots : c3[t].lock = IF t = s THEN p ELSE ic[t].lock
  BY Smts, <1>2, <1>10, GainsNlink
<1>12. ic' = Iunlock(c3, d)
  BY <1>3 DEF c1, c2
<1> HIDE DEF c3
<1>13. /\ Gains(ic', NoSlot) /\ Copies(ic')
       /\ \A t \in Slots : ic'[t].lock = IF t = d THEN NoProc
                                         ELSE IF t = s THEN p ELSE ic[t].lock
  BY Smts, <1>2, <1>11, <1>12, GainsUnlock
<1> QED  BY <1>1, <1>2, <1>3, <1>8, <1>13, BothStep

\* unlink locks the child and takes its entry out of the parent.
LEMMA UnlinkEntryStep ==
  ASSUME IInv, NEW p \in Procs, UnlinkEntry(p)
  PROVE  Step(p, NoSlot)
<1> DEFINE s == ip[p]
           d == dp[p]
           up == Nlink(d) - (IF Type(s) = "dir" THEN 1 ELSE 0)
<1>1. pc[p] = "unlink2" /\ Locks(p, "unlink2", s) /\ TypeOK
  BY DEF UnlinkEntry, RemoveEntry, Locks, Running, IInv
<1>2. /\ s \in Slots /\ d \in Slots /\ ic[d].lock = p /\ s # d /\ ic[s].lock = NoProc
      /\ ic[s].inum \in Inums /\ ic[d].inum \in Inums /\ Name(p) \in Entries
      /\ up \in Int
  BY Smts, <1>1, BothFacts DEF Locks
<1>3. /\ disk' = Iupdate(Dirlink(disk, ic[d].inum, Name(p), 0), ic[d].inum, up)
      /\ ic' = Iunlock(SetNlink(Ilock(ic, s, p), d, up), d)
      /\ dp' = [dp EXCEPT ![p] = NoSlot]
      /\ PutThen(p, d, "unlink3")
      /\ UNCHANGED <<cwd, file, croot, call, ip, old>>
  BY DEF UnlinkEntry, RemoveEntry
<1> HIDE DEF up
<1> DEFINE d1 == Dirlink(disk, ic[d].inum, Name(p), 0)
<1>4. d1 \in [Inums -> Dinode] /\ \A i \in Inums : d1[i].type = disk[i].type
  BY Smts, <1>1, <1>2, DirlinkFacts DEF TypeOK
<1>5. disk' = Iupdate(d1, ic[d].inum, up)
  BY <1>3
<1> HIDE DEF d1
<1>6. disk' \in [Inums -> Dinode] /\ \A i \in Inums : disk'[i].type = disk[i].type
  BY <1>2, <1>4, <1>5, IupdateFacts
<1> DEFINE c1 == Ilock(ic, s, p)
           c2 == SetNlink(c1, d, up)
<1>7. /\ Gains(c1, NoSlot) /\ Copies(c1)
      /\ \A t \in Slots : c1[t].lock = IF t = s THEN p ELSE ic[t].lock
  BY <1>1, <1>2, GainsLock DEF Locks
<1> HIDE DEF c1
<1>8. /\ Gains(c2, NoSlot) /\ Copies(c2)
      /\ \A t \in Slots : c2[t].lock = IF t = s THEN p ELSE ic[t].lock
  BY Smts, <1>2, <1>7, GainsNlink
<1>9. ic' = Iunlock(c2, d)
  BY <1>3 DEF c1
<1> HIDE DEF c2
<1>10. /\ Gains(ic', NoSlot) /\ Copies(ic')
       /\ \A t \in Slots : ic'[t].lock = IF t = d THEN NoProc
                                         ELSE IF t = s THEN p ELSE ic[t].lock
  BY Smts, <1>2, <1>8, <1>9, GainsUnlock
<1> QED  BY <1>1, <1>2, <1>3, <1>6, <1>10, BothStep

\* The pointer that iput drops is counted.
LEMMA Dropping ==
  ASSUME IInv, NEW p \in Procs, pc[p] \in Puts
  PROVE  rel[p] \in Slots /\ ic[rel[p]].ref >= 1 /\ ic[rel[p]].inum \in Inums
<1>1. rel[p] \in Slots /\ ic[rel[p]].ref \in Nat /\ ic[rel[p]].inum \in Inums
  BY DEF IInv, Local, TypeOK, SlotOrNone, Cached
<1>2. ic[rel[p]].ref >= Own(p, rel[p])
  BY <1>1 DEF IInv, Referenced
<1> QED  BY Smts, <1>1, <1>2 DEF Own, Bit

-----------------------------------------------------------------------------
\* The directories form no circle: they can be ranked so that an entry leads
\* to a directory of higher rank, ".." excepted. A call that has both a parent
\* and a child in hand has them in that order.
Ranked(rank) ==
  /\ \A d, i \in Inums, n \in Names :
       disk[d].ents[n] = i /\ disk[i].type = "dir" => rank[d] < rank[i]
  /\ \A p \in Procs : At(p) = "made" => rank[ic[dp[p]].inum] < rank[ic[ip[p]].inum]
  /\ \A p \in Procs : At(p) = "unlink2" =>
       Name(p) \in Names /\ disk[ic[dp[p]].inum].ents[Name(p)] = ic[ip[p]].inum

Forest == \E M \in Nat : \E rank \in [Inums -> 0 .. M] : Ranked(rank)

\* The two inodes of a process between its two locks are in use.
LEMMA BothInUse ==
  ASSUME IInv, NEW p \in Procs, At(p) \in {"made", "unlink2"}
  PROVE  /\ dp[p] \in Slots /\ ic[dp[p]].ref > 0 /\ ic[dp[p]].inum \in Inums
         /\ ic[dp[p]].lock = p /\ disk[ic[dp[p]].inum].type = "dir"
         /\ ip[p] \in Slots /\ ic[ip[p]].ref > 0 /\ ic[ip[p]].inum \in Inums
<1>1. TypeOK /\ RefCounted /\ Local(p)
  BY DEF IInv
<1>2. dp[p] \in Slots /\ ip[p] \in Slots
  BY <1>1 DEF Local, TypeOK, SlotOrNone, WithIp, WithDp
<1>3. /\ ic[dp[p]].ref \in Nat /\ ic[dp[p]].inum \in Inums
      /\ ic[ip[p]].ref \in Nat /\ ic[ip[p]].inum \in Inums
  BY <1>1, <1>2 DEF TypeOK, Cached
<1>4. ic[dp[p]].ref >= Own(p, dp[p]) /\ ic[ip[p]].ref >= Own(p, ip[p])
  BY <1>2 DEF IInv, Referenced
<1>5. ic[dp[p]].ref > 0 /\ ic[ip[p]].ref > 0
  BY Smts, <1>3, <1>4 DEF Own, Bit
<1>6. ic[dp[p]].lock = p
  BY <1>2 DEF IInv, Locked, Holder
<1>7. disk[ic[dp[p]].inum].type = "dir"
  BY <1>2, Sizes DEF IInv, Kinds
<1> QED  BY <1>2, <1>3, <1>5, <1>6, <1>7

\* What makes a ranking of the next state.
LEMMA RankMoves ==
  ASSUME IInv, NEW p \in Procs, Quiet(p), NEW old_rank, Ranked(old_rank), NEW rank,
         \A t \in Slots : ic[t].ref > 0 => ic'[t].inum = ic[t].inum,
         \A d, i \in Inums, n \in Names :
           disk'[d].ents[n] = i /\ disk'[i].type = "dir" => rank[d] < rank[i],
         \A q \in Procs \ {p} : At(q) = "unlink2" =>
           disk'[ic[dp[q]].inum].ents = disk[ic[dp[q]].inum].ents,
         \A q \in Procs \ {p} : At(q) = "made" =>
           rank[ic[dp[q]].inum] < rank[ic[ip[q]].inum],
         At(p)' = "made" => rank[ic'[dp'[p]].inum] < rank[ic'[ip'[p]].inum],
         At(p)' = "unlink2" =>
           Name(p)' \in Names /\ disk'[ic'[dp'[p]].inum].ents[Name(p)'] = ic'[ip'[p]].inum
  PROVE  Ranked(rank)'
<1>1. ASSUME NEW q \in Procs \ {p}
      PROVE  /\ At(q)' = At(q) /\ Name(q)' = Name(q) /\ dp'[q] = dp[q] /\ ip'[q] = ip[q]
             /\ At(q) \in {"made", "unlink2"} =>
                  ic'[dp[q]].inum = ic[dp[q]].inum /\ ic'[ip[q]].inum = ic[ip[q]].inum
  BY BothInUse DEF Quiet, At, Name
<1>2. ASSUME NEW q \in Procs, At(q)' = "made"
      PROVE  rank[ic'[dp'[q]].inum] < rank[ic'[ip'[q]].inum]
  <2>1. CASE q = p
    BY <1>2, <2>1
  <2>2. CASE q # p
    BY Smts, <1>1, <1>2, <2>2
  <2> QED  BY <2>1, <2>2
<1>3. ASSUME NEW q \in Procs, At(q)' = "unlink2"
      PROVE  Name(q)' \in Names /\ disk'[ic'[dp'[q]].inum].ents[Name(q)'] = ic'[ip'[q]].inum
  <2>1. CASE q = p
    BY <1>3, <2>1
  <2>2. CASE q # p
    <3>1. At(q) = "unlink2"
      BY <1>1, <1>3, <2>2
    <3>2. Name(q) \in Names /\ disk[ic[dp[q]].inum].ents[Name(q)] = ic[ip[q]].inum
      BY <3>1 DEF Ranked
    <3>3. /\ Name(q)' = Name(q) /\ dp'[q] = dp[q] /\ ip'[q] = ip[q]
          /\ ic'[dp[q]].inum = ic[dp[q]].inum /\ ic'[ip[q]].inum = ic[ip[q]].inum
      BY <1>1, <2>2, <3>1
    <3>4. disk'[ic[dp[q]].inum].ents = disk[ic[dp[q]].inum].ents
      BY <2>2, <3>1
    <3> QED  BY <3>2, <3>3, <3>4
  <2> QED  BY <2>1, <2>2
<1> QED  BY <1>2, <1>3 DEF Ranked

\* What keeps a ranking.
LEMMA RankKeeps ==
  ASSUME IInv, NEW p \in Procs, Quiet(p), NEW rank, Ranked(rank),
         \A t \in Slots : ic[t].ref > 0 => ic'[t].inum = ic[t].inum,
         \A d, i \in Inums, n \in Names :
           disk'[d].ents[n] = i /\ disk'[i].type = "dir" => rank[d] < rank[i],
         \A q \in Procs \ {p} : At(q) = "unlink2" =>
           disk'[ic[dp[q]].inum].ents = disk[ic[dp[q]].inum].ents,
         At(p)' = "made" => rank[ic'[dp'[p]].inum] < rank[ic'[ip'[p]].inum],
         At(p)' = "unlink2" =>
           Name(p)' \in Names /\ disk'[ic'[dp'[p]].inum].ents[Name(p)'] = ic'[ip'[p]].inum
  PROVE  Ranked(rank)'
<1>1. \A q \in Procs \ {p} : At(q) = "made" => rank[ic[dp[q]].inum] < rank[ic[ip[q]].inum]
  BY DEF Ranked
<1> QED  BY <1>1, RankMoves

\* A step that is plain keeps the ranking of the directories.
LEMMA PlainKeeps ==
  ASSUME IInv, NEW p \in Procs, Quiet(p), Plain(p), NEW rank, Ranked(rank),
         \A t \in Slots : ic[t].ref > 0 => ic'[t].inum = ic[t].inum
  PROVE  Ranked(rank)'
<1>1. \A d, i \in Inums, n \in Names :
        disk'[d].ents[n] = i /\ disk'[i].type = "dir" => rank[d] < rank[i]
  BY DEF Plain, Ranked
<1>2. ASSUME NEW q \in Procs, At(q) = "unlink2"
      PROVE  disk'[ic[dp[q]].inum].ents = disk[ic[dp[q]].inum].ents
  BY <1>2, BothInUse DEF Plain
<1>3. ASSUME At(p)' = "made"
      PROVE  rank[ic'[dp'[p]].inum] < rank[ic'[ip'[p]].inum]
  <2>1. At(p) = "made" /\ ip'[p] = ip[p] /\ dp'[p] = dp[p]
    BY <1>3 DEF Plain
  <2>2. rank[ic[dp[p]].inum] < rank[ic[ip[p]].inum]
    BY <2>1 DEF Ranked
  <2>3. ic'[dp[p]].inum = ic[dp[p]].inum /\ ic'[ip[p]].inum = ic[ip[p]].inum
    BY <2>1, BothInUse
  <2> QED  BY <2>1, <2>2, <2>3
<1>4. ASSUME At(p)' = "unlink2"
      PROVE  Name(p)' \in Names /\ disk'[ic'[dp'[p]].inum].ents[Name(p)'] = ic'[ip'[p]].inum
  <2>1. At(p) = "unlink2" /\ ip'[p] = ip[p] /\ dp'[p] = dp[p] /\ Name(p)' = Name(p)
    BY <1>4 DEF Plain, Name
  <2>2. ic'[dp[p]].inum = ic[dp[p]].inum /\ ic'[ip[p]].inum = ic[ip[p]].inum
    BY <2>1, BothInUse
  <2> QED  BY <1>2, <2>1, <2>2 DEF Ranked
<1> QED  BY <1>1, <1>2, <1>3, <1>4, RankKeeps

\* A step inside iput changes no other process's state, and no entry's inode.
LEMMA IputQuiet ==
  ASSUME IInv, NEW p \in Procs,
         Iput(p) \/ IputFree(p) \/ IputInvalidate(p) \/ IputDrop(p)
  PROVE  Quiet(p) /\ \A t \in Slots : ic'[t].inum = ic[t].inum
<1>1. TypeOK /\ rel[p] \in Slots
  BY Dropping DEF IInv, Iput, IputFree, IputInvalidate, IputDrop, Running, Puts
<1>2. Quiet(p)
  BY Smts, <1>1
     DEF TypeOK, Iput, IputFree, IputInvalidate, IputDrop, Goto, Returned, Quiet
<1>3. ic \in [Slots -> Cached]
  BY <1>1 DEF TypeOK
<1>4. CASE Iput(p)
  <2>1. \/ ic' = [ic EXCEPT ![rel[p]].lock = p]
        \/ ic' = [ic EXCEPT ![rel[p]].ref = @ - 1]
    BY <1>4 DEF Iput
  <2> QED  BY Smts, <1>1, <1>2, <1>3, <2>1 DEF Cached
<1>5. CASE IputDrop(p) \/ IputFree(p)
  <2>1. \/ ic' = [ic EXCEPT ![rel[p]].ref = @ - 1]
        \/ ic' = [ic EXCEPT ![rel[p]].type = "free"]
    BY <1>5 DEF IputDrop, IputFree
  <2> QED  BY Smts, <1>1, <1>2, <1>3, <2>1 DEF Cached
<1>6. CASE IputInvalidate(p)
  <2>1. ic' = [Iunlock(ic, rel[p]) EXCEPT ![rel[p]].valid = FALSE]
    BY <1>6 DEF IputInvalidate
  <2> QED  BY <1>1, <1>2, <1>3, <2>1 DEF Cached, Iunlock
<1> QED  BY <1>4, <1>5, <1>6

\* iput clears the entries of the inode it frees, which nobody works in.
LEMMA RankIputFree ==
  ASSUME IInv, NEW p \in Procs, IputFree(p), NEW rank, Ranked(rank)
  PROVE  Ranked(rank)'
<1> DEFINE s == rel[p]
<1>1. /\ pc[p] = "itrunc" /\ TypeOK /\ RefCounted /\ s \in Slots /\ ic[s].ref > 0
      /\ ic[s].inum \in Inums /\ cont[p] \in Places
  BY Smts, Dropping
     DEF IputFree, Running, IInv, Puts, TypeOK, Cached
<1>2. Quiet(p) /\ \A t \in Slots : ic'[t].inum = ic[t].inum
  BY IputQuiet
<1>3. /\ \A i \in Inums : i # ic[s].inum => disk'[i] = disk[i]
      /\ disk'[ic[s].inum] = [type |-> "free", nlink |-> 0, ents |-> NoEntries]
      /\ pc'[p] = "ifreed" /\ UNCHANGED <<cont, call, ip, dp>>
  BY <1>1 DEF IputFree, TypeOK, Goto
<1>4. ASSUME NEW d \in Inums, NEW i \in Inums, NEW n \in Names,
             disk'[d].ents[n] = i, disk'[i].type = "dir"
      PROVE  rank[d] < rank[i]
  <2>1. NoEntries[n] = 0 /\ i # 0
    BY Sizes DEF NoEntries, Entries
  <2>2. d # ic[s].inum /\ i # ic[s].inum
    BY Smts, <1>3, <1>4, <2>1
  <2> QED  BY <1>3, <1>4, <2>2 DEF Ranked
<1>5. ASSUME NEW q \in Procs, At(q) = "unlink2"
      PROVE  disk'[ic[dp[q]].inum].ents = disk[ic[dp[q]].inum].ents
  <2>1. dp[q] \in Slots /\ ic[dp[q]].ref > 0 /\ ic[dp[q]].inum \in Inums
    BY <1>5, BothInUse
  <2>2. dp[q] # s
    BY <1>1 DEF IInv, Freeing, Frees
  <2>3. ic[dp[q]].inum # ic[s].inum
    BY <1>1, <2>1, <2>2 DEF RefCounted
  <2> QED  BY <1>3, <2>1, <2>3
<1>6. At(p)' = At(p) /\ Name(p)' = Name(p)
  BY <1>1, <1>3 DEF At, Name, Puts
<1>7. ASSUME At(p)' = "made" PROVE rank[ic'[dp'[p]].inum] < rank[ic'[ip'[p]].inum]
  <2>1. At(p) = "made"
    BY <1>6, <1>7
  <2>2. ic'[dp[p]].inum = ic[dp[p]].inum /\ ic'[ip[p]].inum = ic[ip[p]].inum
    BY <1>2, <2>1, BothInUse
  <2> QED  BY <1>3, <2>1, <2>2 DEF Ranked
<1>8. ASSUME At(p)' = "unlink2"
      PROVE  Name(p)' \in Names /\ disk'[ic'[dp'[p]].inum].ents[Name(p)'] = ic'[ip'[p]].inum
  <2>1. At(p) = "unlink2"
    BY <1>6, <1>8
  <2>2. ic'[dp[p]].inum = ic[dp[p]].inum /\ ic'[ip[p]].inum = ic[ip[p]].inum
    BY <1>2, <2>1, BothInUse
  <2> QED  BY <1>3, <1>5, <1>6, <2>1, <2>2 DEF Ranked
<1> QED  BY <1>2, <1>4, <1>5, <1>7, <1>8, RankKeeps

\* Nobody else has locked the directory that p works in.
LEMMA Elsewhere ==
  ASSUME IInv, NEW p \in Procs, NEW s \in Slots, ic[s].lock \in {p, NoProc}, ic[s].ref > 0,
         NEW q \in Procs \ {p}, At(q) = "unlink2"
  PROVE  ic[dp[q]].inum \in Inums /\ ic[dp[q]].inum # ic[s].inum
<1>1. /\ dp[q] \in Slots /\ ic[dp[q]].ref > 0 /\ ic[dp[q]].inum \in Inums
      /\ ic[dp[q]].lock = q
  BY BothInUse
<1>2. dp[q] # s
  BY <1>1, InodesAssumption
<1> QED  BY <1>1, <1>2 DEF IInv, RefCounted

\* The facts of a step that the ranking needs.
LEMMA StepStable ==
  ASSUME NEW p, NEW g, Step(p, g)
  PROVE  Quiet(p) /\ \A t \in Slots : ic[t].ref > 0 => ic'[t].inum = ic[t].inum
BY DEF Step, Gains

\* unlink's lookup keeps the ranking: what it found is below the parent.
LEMMA RankUnlink ==
  ASSUME IInv, NEW p \in Procs, Unlink(p), NEW rank, Ranked(rank)
  PROVE  Ranked(rank)'
<1> DEFINE s == dp[p]
           locked == Ilock(ic, s, p)
           next == Lookup(p, s, Name(p))
           got == Iget(locked, next)
<1>1. /\ pc[p] = "unlink" /\ TypeOK /\ disk' = disk /\ call' = call /\ Locks(p, "unlink", s)
      /\ pc \in [Procs -> Places \cup Puts] /\ cont \in [Procs -> Places]
  BY DEF Unlink, Locks, Running, IInv, TypeOK
<1>2. Quiet(p) /\ \A t \in Slots : ic[t].ref > 0 => ic'[t].inum = ic[t].inum
  BY UnlinkStep, StepStable
<1>3. CASE PutThen(p, s, "idle")
  <2>1. Plain(p)
    BY <1>1, <1>3 DEF PutThen, Plain, At, Puts
  <2> QED  BY <1>2, <2>1, PlainKeeps
<1>4. CASE /\ Name(p) # ".." /\ next # 0 /\ ~IgetFull(locked, next)
           /\ ic' = got.cache /\ ip' = [ip EXCEPT ![p] = got.slot]
           /\ Goto(p, "unlink2") /\ UNCHANGED dp
  <2>1. pc'[p] = "unlink2" /\ ip'[p] = got.slot /\ Name(p)' = Name(p)
    BY <1>1, <1>4 DEF Goto, TypeOK, Name
  <2>2. s \in Slots /\ call[p].path # <<>>
    BY <1>1, ParentFacts
  <2>3. next = disk[ic[s].inum].ents[Name(p)] /\ next \in Inums /\ Name(p) \in Names
    BY <1>1, <1>4, <2>2, LookupType DEF Name, Entries
  <2>4. ic'[got.slot].inum = next
    <3>1. Gains(locked, NoSlot) /\ Copies(locked)
      BY <1>1, <2>2, GainsLock DEF Locks
    <3> HIDE DEF locked, next
    <3> QED  BY <1>1, <1>4, <2>3, <3>1, GainsGet
  <2>5. ic'[s].inum = ic[s].inum
    BY Smts, <1>1, <1>2, <2>2 DEF Locks, TypeOK, Cached
  <2>6. At(p)' = "unlink2"
    BY <2>1 DEF At, Puts
  <2>7. disk'[ic'[dp'[p]].inum].ents[Name(p)'] = ic'[ip'[p]].inum
    BY <1>1, <1>4, <2>1, <2>3, <2>4, <2>5
  <2>8. \A d, i \in Inums, n \in Names :
          disk'[d].ents[n] = i /\ disk'[i].type = "dir" => rank[d] < rank[i]
    BY <1>1 DEF Ranked
  <2> HIDE DEF next, got, locked
  <2> QED  BY <1>1, <1>2, <2>1, <2>3, <2>6, <2>7, <2>8, RankKeeps
<1> QED  BY <1>3, <1>4 DEF Unlink

\* link enters no directory, so it keeps the ranking.
LEMMA RankLinkNew ==
  ASSUME IInv, NEW p \in Procs, LinkNew(p), NEW rank, Ranked(rank)
  PROVE  Ranked(rank)'
<1> DEFINE s == dp[p]
<1>1. /\ pc[p] = "link2" /\ TypeOK /\ Locks(p, "link2", s)
      /\ pc \in [Procs -> Places \cup Puts] /\ cont \in [Procs -> Places]
  BY DEF LinkNew, Locks, Running, IInv, TypeOK
<1>2. Quiet(p) /\ \A t \in Slots : ic[t].ref > 0 => ic'[t].inum = ic[t].inum
  BY LinkNewStep, StepStable
<1>3. /\ s \in Slots /\ call[p].path # <<>> /\ old[p] # NoSlot /\ ic[s].lock = NoProc
      /\ ic[s].ref > 0
  BY Smts, <1>1, ParentFacts DEF Locks, TypeOK, Cached
<1>4. CASE disk' = disk
  <2>1. Plain(p)
    BY <1>1, <1>4 DEF LinkNew, PutThen, Plain, At, Puts
  <2> QED  BY <1>2, <2>1, PlainKeeps
<1>5. CASE /\ disk' = Dirlink(disk, ic[s].inum, Name(p), ic[old[p]].inum)
           /\ PutThen(p, s, "linkend")
  <2> DEFINE j == ic[old[p]].inum
  <2>1. Name(p) \in Entries /\ ic[s].inum \in Inums
    BY <1>1, <1>3, LookupType DEF Name
  <2>2. j \in Inums /\ disk[j].type # "dir"
    <3>1. old[p] \in Slots
      BY <1>1, <1>3 DEF TypeOK, SlotOrNone
    <3>2. j \in Inums
      BY <1>1, <3>1 DEF TypeOK, Cached
    <3>3. disk[j].type # "dir"
      BY <1>1, <1>3 DEF IInv, Kinds
    <3> QED  BY <3>2, <3>3
  <2>0. disk' = Dirlink(disk, ic[s].inum, Name(p), j) /\ disk \in [Inums -> Dinode]
    BY <1>1, <1>5 DEF TypeOK
  <2> HIDE DEF j
  <2>3. \A x \in Inums : /\ disk'[x].type = disk[x].type
                         /\ \A m \in Entries : disk'[x].ents[m] =
                              IF x = ic[s].inum /\ m = Name(p) THEN j ELSE disk[x].ents[m]
                         /\ x # ic[s].inum => disk'[x] = disk[x]
    BY Smts, <2>0, <2>1, <2>2, DirlinkFacts
  <2>4. \A d, i \in Inums, n \in Names :
          disk'[d].ents[n] = i /\ disk'[i].type = "dir" => rank[d] < rank[i]
    BY Smts, <2>2, <2>3 DEF Ranked, Entries
  <2>5. \A q \in Procs \ {p} : At(q) = "unlink2" =>
          disk'[ic[dp[q]].inum].ents = disk[ic[dp[q]].inum].ents
    BY Smts, <1>3, <2>3, Elsewhere
  <2>6. At(p)' = "linkend"
    BY <1>1, <1>5 DEF PutThen, At, Puts
  <2> QED  BY <1>2, <2>4, <2>5, <2>6, RankKeeps
<1> QED  BY <1>4, <1>5 DEF LinkNew

\* An entry taken out of a directory leaves the ranking good.
LEMMA RankUnlinkEntry ==
  ASSUME IInv, NEW p \in Procs, UnlinkEntry(p), NEW rank, Ranked(rank)
  PROVE  Ranked(rank)'
<1> DEFINE d == dp[p]
           i == ic[d].inum
           up == Nlink(d) - (IF Type(ip[p]) = "dir" THEN 1 ELSE 0)
<1>1. /\ pc[p] = "unlink2" /\ TypeOK /\ ic[ip[p]].lock = NoProc
      /\ pc \in [Procs -> Places \cup Puts] /\ cont \in [Procs -> Places]
  BY DEF UnlinkEntry, RemoveEntry, Locks, Running, IInv, TypeOK
<1>2. Quiet(p) /\ \A t \in Slots : ic[t].ref > 0 => ic'[t].inum = ic[t].inum
  BY UnlinkEntryStep, StepStable
<1>3. /\ d \in Slots /\ ic[d].lock = p /\ i \in Inums /\ Name(p) \in Entries /\ up \in Int
  BY Smts, <1>1, BothFacts
<1>4. ic[d].ref > 0
  BY <1>1, BothInUse DEF At, Puts
<1>5. disk' = Iupdate(Dirlink(disk, i, Name(p), 0), i, up) /\ PutThen(p, d, "unlink3")
  BY DEF UnlinkEntry, RemoveEntry
<1> HIDE DEF up
<1> DEFINE d1 == Dirlink(disk, i, Name(p), 0)
<1>6. /\ d1 \in [Inums -> Dinode]
      /\ \A x \in Inums : /\ d1[x].type = disk[x].type
                          /\ \A m \in Entries : d1[x].ents[m] =
                               IF x = i /\ m = Name(p) THEN 0 ELSE disk[x].ents[m]
                          /\ x # i => d1[x] = disk[x]
  <2>1. disk \in [Inums -> Dinode] /\ 0 \in Inums \cup {0}
    BY <1>1 DEF TypeOK
  <2> HIDE DEF i
  <2> QED  BY Smts, <1>3, <2>1, DirlinkFacts
<1> HIDE DEF d1
<1>7. \A x \in Inums : disk'[x].type = d1[x].type /\ disk'[x].ents = d1[x].ents
  <2>1. disk' = Iupdate(d1, i, up)
    BY <1>5 DEF d1
  <2> HIDE DEF i
  <2> QED  BY Smts, <1>3, <1>6, <2>1, IupdateFacts
<1>8. \A e, x \in Inums, n \in Names :
        disk'[e].ents[n] = x /\ disk'[x].type = "dir" => rank[e] < rank[x]
  BY Smts, <1>6, <1>7, Sizes DEF Ranked, Entries
<1>9. \A q \in Procs \ {p} : At(q) = "unlink2" =>
        disk'[ic[dp[q]].inum].ents = disk[ic[dp[q]].inum].ents
  BY Smts, <1>3, <1>4, <1>6, <1>7, Elsewhere
<1>10. At(p)' = "unlink3"
  BY <1>1, <1>5 DEF PutThen, At, Puts
<1> QED  BY <1>2, <1>8, <1>9, <1>10, RankKeeps

\* mkdir's new directory is entered below the parent it was ranked under.
LEMMA RankMade ==
  ASSUME IInv, NEW p \in Procs, CreateMade(p), NEW rank, Ranked(rank)
  PROVE  Ranked(rank)'
<1> DEFINE s == ip[p]
           d == dp[p]
           i == ic[s].inum
           j == ic[d].inum
           isdir == call[p].op = "mkdir"
           up == Nlink(d) + (IF isdir THEN 1 ELSE 0)
           made == IF isdir THEN Dirlink(disk, i, "..", j) ELSE disk
           d1 == Iupdate(made, i, 1)
           d2 == Iupdate(d1, j, up)
<1>1. /\ pc[p] = "made" /\ TypeOK /\ ic[s].lock = NoProc
      /\ pc \in [Procs -> Places \cup Puts] /\ cont \in [Procs -> Places]
  BY DEF CreateMade, Made, Locks, Running, IInv, TypeOK
<1>2. Quiet(p) /\ \A t \in Slots : ic[t].ref > 0 => ic'[t].inum = ic[t].inum
  BY CreateMadeStep, StepStable
<1>3. /\ s \in Slots /\ d \in Slots /\ ic[d].lock = p /\ i \in Inums /\ j \in Inums
      /\ Name(p) \in Entries /\ up \in Int
  BY Smts, <1>1, BothFacts
<1>4. ic[d].ref > 0 /\ ic[s].ref > 0
  BY <1>1, BothInUse DEF At, Puts
<1>5. disk' = Dirlink(d2, j, Name(p), i) /\ PutThen(p, d, "mkend")
  BY DEF CreateMade, Made
<1>6. rank[j] < rank[i]
  BY <1>1 DEF Ranked, At, Puts
<1> HIDE DEF i, j
<1>7. /\ made \in [Inums -> Dinode]
      /\ \A x \in Inums : /\ made[x].type = disk[x].type
                          /\ \A m \in Names : made[x].ents[m] = disk[x].ents[m]
                          /\ x # i => made[x].ents = disk[x].ents
  <2>1. ".." \in Entries /\ disk \in [Inums -> Dinode] /\ Names \subseteq Entries
        /\ ".." \notin Names
    BY <1>1, InodesAssumption DEF TypeOK, Entries
  <2>2. CASE isdir
    <3>1. made = Dirlink(disk, i, "..", j)
      BY <2>2
    <3> HIDE DEF made
    <3>2. /\ made \in [Inums -> Dinode]
          /\ \A x \in Inums : /\ made[x].type = disk[x].type
                              /\ \A m \in Entries : made[x].ents[m] =
                                   IF x = i /\ m = ".." THEN j ELSE disk[x].ents[m]
                              /\ x # i => made[x] = disk[x]
      BY Smts, <1>3, <2>1, <3>1, DirlinkFacts
    <3> QED  BY <2>1, <3>2
  <2>3. CASE ~isdir
    BY <2>1, <2>3
  <2> QED  BY <2>2, <2>3
<1> HIDE DEF made, up
<1>8. /\ d1 \in [Inums -> Dinode]
      /\ \A x \in Inums : d1[x].type = made[x].type /\ d1[x].ents = made[x].ents
  BY Smts, <1>3, <1>7, IupdateFacts
<1> HIDE DEF d1
<1>9. /\ d2 \in [Inums -> Dinode]
      /\ \A x \in Inums : d2[x].type = made[x].type /\ d2[x].ents = made[x].ents
  BY Smts, <1>3, <1>8, IupdateFacts
<1> HIDE DEF d2
<1>10. \A x \in Inums : /\ disk'[x].type = d2[x].type
                        /\ \A m \in Entries : disk'[x].ents[m] =
                             IF x = j /\ m = Name(p) THEN i ELSE d2[x].ents[m]
                        /\ x # j => disk'[x] = d2[x]
  BY Smts, <1>3, <1>5, <1>9, DirlinkFacts
<1>11. \A e, x \in Inums, n \in Names :
         disk'[e].ents[n] = x /\ disk'[x].type = "dir" => rank[e] < rank[x]
  BY Smts, <1>6, <1>7, <1>9, <1>10 DEF Ranked, Entries
<1>12. ASSUME NEW q \in Procs \ {p}, At(q) = "unlink2"
       PROVE  disk'[ic[dp[q]].inum].ents = disk[ic[dp[q]].inum].ents
  <2>1. ic[dp[q]].inum \in Inums /\ ic[dp[q]].inum # i /\ ic[dp[q]].inum # j
    BY <1>1, <1>3, <1>4, <1>12, Elsewhere DEF i, j
  <2> QED  BY <1>7, <1>9, <1>10, <2>1
<1>13. At(p)' = "mkend"
  BY <1>1, <1>5 DEF PutThen, At, Puts
<1> QED  BY <1>2, <1>11, <1>12, <1>13, RankKeeps

\* A new inode gets a rank above all others.
LEMMA RankCreate ==
  ASSUME IInv, NEW p \in Procs, Create(p), Forest
  PROVE  Forest'
<1> DEFINE s == dp[p]
           locked == Ilock(ic, s, p)
           next == Lookup(p, s, Name(p))
           new == Ialloc(MadeType[call[p].op])
           i == new.inum
<1>1. /\ pc[p] \in Makes /\ TypeOK /\ Locks(p, pc[p], s) /\ call' = call
      /\ pc \in [Procs -> Places \cup Puts] /\ cont \in [Procs -> Places]
  BY DEF Create, IInv, Makes, MadeType, TypeOK
<1>2. Quiet(p) /\ \A t \in Slots : ic[t].ref > 0 => ic'[t].inum = ic[t].inum
  BY CreateStep, StepStable
<1>3. PICK M \in Nat : \E rank \in [Inums -> 0 .. M] : Ranked(rank)
  BY DEF Forest
<1>4. PICK rank \in [Inums -> 0 .. M] : Ranked(rank)
  BY <1>3
<1>5. CASE next # 0
  <2>1. PutThen(p, s, "exists") /\ disk' = disk
    BY <1>5 DEF Create
  <2>2. Plain(p)
    BY <1>1, <2>1 DEF PutThen, Plain, At, Puts
  <2>3. Ranked(rank)'
    BY <1>2, <1>4, <2>2, PlainKeeps
  <2> QED  BY <2>3 DEF Forest
<1>6. CASE next = 0
  <2> DEFINE g == Iget(locked, i).slot
  <2>1. /\ ~IgetFull(locked, i) /\ ip' = [ip EXCEPT ![p] = g]
        /\ ic' = Iget(locked, i).cache /\ disk' = new.disk
        /\ Goto(p, "made") /\ UNCHANGED dp
        /\ \E x \in Inums : disk[x].type = "free"
    BY <1>6 DEF Create
  <2>2. s \in Slots /\ call[p].op \in Makes
    BY <1>1, ParentFacts
  <2> DEFINE t == MadeType[call[p].op]
  <2>3. t \in Types
    BY Smts, <2>2 DEF MadeType, Makes, Types
  <2> HIDE DEF t
  <2>4. /\ i \in Inums /\ disk[i].type = "free"
        /\ disk' = [disk EXCEPT ![i] = [type |-> t, nlink |-> 0, ents |-> NoEntries]]
    BY <1>1, <2>1, <2>3, IallocFacts DEF t
  <2>5. Gains(locked, NoSlot) /\ Copies(locked)
    BY <1>1, <2>2, GainsLock DEF Locks
  <2> HIDE DEF i, locked
  <2>6. ic'[g].inum = i
    BY <1>1, <2>1, <2>4, <2>5, GainsGet
  <2>7. ip'[p] = g /\ At(p)' = "made"
    BY <1>1, <2>1 DEF TypeOK, Goto, At, Puts
  <2>8. PICK high \in [Inums -> 0 .. (M + 1)] :
          /\ high[i] = M + 1
          /\ \A x \in Inums \ {i} : high[x] = rank[x] /\ high[x] < M + 1
    <3> DEFINE h == [rank EXCEPT ![i] = M + 1]
    <3>1. h \in [Inums -> 0 .. (M + 1)]
      BY Smts, <2>4
    <3>2. h[i] = M + 1 /\ \A x \in Inums \ {i} : h[x] = rank[x] /\ h[x] < M + 1
      BY Smts, <2>4
    <3> HIDE DEF h
    <3> QED  BY <3>1, <3>2
  <2> HIDE DEF g
  <2>9. /\ disk'[i].ents = NoEntries
        /\ \A x \in Inums \ {i} : disk'[x] = disk[x]
    BY <1>1, <2>4 DEF TypeOK
  <2>10. ASSUME NEW d \in Inums, NEW x \in Inums, NEW n \in Names,
                disk'[d].ents[n] = x, disk'[x].type = "dir"
         PROVE  high[d] < high[x]
    <3>1. NoEntries[n] = 0 /\ x # 0
      BY Sizes DEF NoEntries, Entries
    <3>2. d # i
      BY <2>9, <2>10, <3>1
    <3>3. CASE x = i
      BY <2>8, <3>2, <3>3
    <3>4. CASE x # i
      <4>1. disk[d].ents[n] = x /\ disk[x].type = "dir"
        BY <2>9, <2>10, <3>2, <3>4
      <4>2. rank[d] < rank[x]
        BY <1>4, <4>1 DEF Ranked
      <4> QED  BY <2>8, <3>2, <3>4, <4>2
    <3> QED  BY <3>3, <3>4
  <2>11. ASSUME NEW q \in Procs, At(q) \in {"made", "unlink2"}
         PROVE  /\ ic[dp[q]].inum \in Inums \ {i} /\ ic[ip[q]].inum \in Inums
    <3>1. /\ ic[dp[q]].inum \in Inums /\ ic[ip[q]].inum \in Inums
          /\ disk[ic[dp[q]].inum].type = "dir"
      BY <2>11, BothInUse
    <3> QED  BY <2>4, <3>1
  <2>12. ASSUME NEW q \in Procs \ {p}, At(q) = "unlink2"
         PROVE  disk'[ic[dp[q]].inum].ents = disk[ic[dp[q]].inum].ents
    BY <2>9, <2>11, <2>12
  <2>13. ASSUME NEW q \in Procs \ {p}, At(q) = "made"
         PROVE  high[ic[dp[q]].inum] < high[ic[ip[q]].inum]
    <3>1. rank[ic[dp[q]].inum] < rank[ic[ip[q]].inum]
      BY <1>4, <2>13 DEF Ranked
    <3>2. ic[dp[q]].inum \in Inums \ {i} /\ ic[ip[q]].inum \in Inums
      BY <2>11, <2>13
    <3> QED  BY <2>8, <3>1, <3>2
  <2>14. high[ic'[dp'[p]].inum] < high[ic'[ip'[p]].inum]
    <3>1. ic[s].ref > 0 /\ ic[s].inum \in Inums
      BY Smts, <1>1, <2>2 DEF Locks, TypeOK, Cached
    <3>2. ic'[dp'[p]].inum = ic[s].inum
      BY <1>2, <2>1, <2>2, <3>1
    <3>3. disk[ic[s].inum].type = "dir"
      BY <2>2, Sizes DEF IInv, Kinds
    <3>4. ic[s].inum \in Inums \ {i}
      BY <2>4, <3>1, <3>3
    <3> QED  BY <2>6, <2>7, <2>8, <3>2, <3>4
  <2>15. Ranked(high)'
    BY <1>2, <1>4, <2>7, <2>10, <2>12, <2>13, <2>14, RankMoves
  <2>16. M + 1 \in Nat
    BY Smts
  <2> QED  BY <2>8, <2>15, <2>16 DEF Forest
<1> QED  BY <1>5, <1>6

\* Every step keeps the directories a forest.
LEMMA ForestKeeps ==
  IInv /\ Forest /\ [Next]_vars => Forest'
<1> SUFFICES ASSUME IInv, Forest, [Next]_vars PROVE Forest'
  OBVIOUS
<1>1. PICK M \in Nat : \E rank \in [Inums -> 0 .. M] : Ranked(rank)
  BY DEF Forest
<1>2. PICK rank \in [Inums -> 0 .. M] : Ranked(rank)
  BY <1>1
<1>3. ASSUME Ranked(rank)' PROVE Forest'
  BY <1>3 DEF Forest
<1>4. ASSUME UNCHANGED <<disk, ic, pc, call, ip, dp, cont>> PROVE Forest'
  BY <1>2, <1>3, <1>4 DEF Ranked, At, Name
<1>5. ASSUME NEW p \in Procs, NEW g, Step(p, g), Plain(p) PROVE Forest'
  BY <1>2, <1>3, <1>5, PlainKeeps, StepStable
<1>6. CASE UNCHANGED vars
  BY <1>4, <1>6 DEF vars
<1>7. ASSUME NEW p \in Procs, Syscall(p) \/ WalkElem(p) \/ WalkEnd(p) PROVE Forest'
  BY <1>5, <1>7, SyscallStep, WalkElemStep, WalkEndStep, PlainSteps
<1>8. ASSUME NEW p \in Procs, IlockPanic(p) PROVE Forest'
  BY <1>4, <1>8 DEF IlockPanic, Panic
<1>9. ASSUME NEW p \in Procs, Iput(p) \/ IputInvalidate(p) \/ IputDrop(p) PROVE Forest'
  BY <1>2, <1>3, <1>9, IputQuiet, PlainSteps, PlainKeeps
<1>10. ASSUME NEW p \in Procs, IputFree(p) PROVE Forest'
  BY <1>2, <1>3, <1>10, RankIputFree
<1>11. ASSUME NEW p \in Procs, Open(p) \/ Close(p) \/ Chdir(p) \/ CreateExists(p) \/ CreateEnd(p)
       PROVE  Forest'
  BY <1>5, <1>11, OpenStep, CloseStep, ChdirStep, CreateExistsStep, CreateEndStep, PlainSteps
<1>12. ASSUME NEW p \in Procs, UnlinkNotEmpty(p) \/ UnlinkEnd(p) \/ DropParent(p)
       PROVE  Forest'
  BY <1>5, <1>12, UnlinkNotEmptyStep, UnlinkEndStep, DropParentStep, PlainSteps
<1>13. ASSUME NEW p \in Procs, LinkOld(p) \/ LinkDir(p) \/ LinkEnd(p) \/ LinkBad(p)
       PROVE  Forest'
  BY <1>5, <1>13, LinkOldStep, LinkDirStep, LinkEndStep, LinkBadStep, PlainSteps
<1>14. ASSUME NEW p \in Procs, Create(p) PROVE Forest'
  BY <1>14, RankCreate
<1>15. ASSUME NEW p \in Procs, CreateMade(p) \/ Unlink(p) \/ UnlinkEntry(p) \/ LinkNew(p)
       PROVE  Forest'
  BY <1>2, <1>3, <1>15, RankMade, RankUnlink, RankUnlinkEntry, RankLinkNew
<1> QED  BY <1>6, <1>7, <1>8, <1>9, <1>10, <1>11, <1>12, <1>13, <1>14, <1>15 DEF Next

\* No directory has an entry yet.
LEMMA ForestInit ==
  Init => Forest
<1> SUFFICES ASSUME Init PROVE Forest
  OBVIOUS
<1> DEFINE rank == [i \in Inums |-> 0]
<1>1. rank \in [Inums -> 0 .. 0] /\ 0 \in Nat
  BY Smts
<1>2. ASSUME NEW d \in Inums, NEW n \in Names PROVE disk[d].ents[n] \notin Inums
  BY Sizes, InodesAssumption DEF Init, NoEntries, Entries
<1>3. \A p \in Procs : At(p) = "idle"
  BY DEF Init, At, Puts
<1>4. Ranked(rank)
  BY <1>2, <1>3 DEF Ranked
<1> QED  BY <1>1, <1>4 DEF Forest

\* A process that waits for an inode, and has one locked, has a directory
\* locked and waits for what is in it.
LEMMA WaitsBelow ==
  ASSUME IInv, NEW q \in Procs, Wants(q) # NoSlot, NEW s \in Slots, ic[s].lock = q
  PROVE  pc[q] \in {"made", "unlink2"} /\ dp[q] = s /\ Wants(q) = ip[q]
<1>1. pc[q] \notin Puts \cup {"mkend", "unlink3", "unlinkbad", "link2bad"}
  BY DEF Wants, Puts
<1>2. Holder(q, s)
  BY DEF IInv, Locked
<1>3. pc[q] \in {"made", "unlink2"} /\ dp[q] = s
  BY <1>1, <1>2 DEF Holder, At, Frees, Puts
<1> QED  BY <1>3 DEF Wants

\* Processes in ilock that wait for each other's inodes would each wait for
\* one ranked above what they hold; a finite set has no such circle.
LEMMA NoCircle ==
  IInv /\ Forest => NoDeadlock
<1> SUFFICES ASSUME IInv, Forest, NEW Q \in (SUBSET Procs) \ {{}}
             PROVE  \E p \in Q : Wants(p) = NoSlot \/ ic[Wants(p)].lock \notin Q
  BY DEF NoDeadlock
<1> SUFFICES ASSUME \A p \in Q : Wants(p) # NoSlot /\ ic[Wants(p)].lock \in Q
             PROVE  FALSE
  OBVIOUS
<1> Q \in SUBSET Procs /\ Q # {}
  OBVIOUS
<1>1. PICK M \in Nat : \E rank \in [Inums -> 0 .. M] : Ranked(rank)
  BY DEF Forest
<1>2. PICK rank \in [Inums -> 0 .. M] : Ranked(rank)
  BY <1>1
<1> DEFINE W == {q \in Q : pc[q] \in {"made", "unlink2"}}
           Depth(q) == M - rank[ic[dp[q]].inum]
<1>3. ASSUME NEW p \in Q PROVE \E q \in W : dp[q] = Wants(p) /\ Wants(q) = ip[q]
  <2>1. Wants(p) \in Slots
    <3>1. ip[p] \in SlotOrNone /\ dp[p] \in SlotOrNone /\ old[p] \in SlotOrNone
      BY DEF IInv, TypeOK
    <3> QED  BY <3>1 DEF Wants, SlotOrNone
  <2>2. ic[Wants(p)].lock \in Q
    OBVIOUS
  <2> QED  BY Smts, <2>1, <2>2, WaitsBelow
<1>4. ASSUME NEW q \in W
      PROVE  /\ ic[dp[q]].inum \in Inums /\ ic[ip[q]].inum \in Inums
             /\ disk[ic[dp[q]].inum].type = "dir" /\ dp[q] \in Slots
             /\ At(q) = pc[q]
  BY BothInUse DEF At, Puts
<1>5. ASSUME NEW q \in W PROVE \E x \in W : Depth(x) < Depth(q)
  <2>1. Wants(q) = ip[q]
    BY DEF Wants
  <2>2. PICK x \in W : dp[x] = ip[q]
    BY <1>3, <2>1
  <2>3. disk[ic[ip[q]].inum].type = "dir"
    BY <1>4, <2>2
  <2>4. rank[ic[dp[q]].inum] < rank[ic[ip[q]].inum]
    <3>1. CASE pc[q] = "made"
      BY <1>2, <1>4, <3>1 DEF Ranked
    <3>2. CASE pc[q] = "unlink2"
      BY <1>2, <1>4, <2>3, <3>2 DEF Ranked
    <3> QED  BY <3>1, <3>2
  <2>5. Depth(x) < Depth(q)
    BY Smts, <1>4, <2>2, <2>4
  <2> QED  BY <2>5
<1> DEFINE T == {Depth(q) : q \in W}
<1>6. T \in SUBSET Nat /\ T # {}
  <2>1. ASSUME NEW q \in W PROVE Depth(q) \in Nat
    BY Smts, <1>4
  <2>2. W # {}
    BY <1>3
  <2> HIDE DEF W, Depth
  <2> QED  BY <2>1, <2>2
<1>7. \E x \in T : \A y \in T : x <= y
  <2> HIDE DEF T
  <2> QED  BY <1>6, Least
<1>8. PICK q \in W : \A x \in W : Depth(q) <= Depth(x)
  <2> HIDE DEF W, Depth
  <2> QED  BY <1>7
<1>9. PICK x \in W : Depth(x) < Depth(q)
  BY <1>5
<1>10. Depth(q) <= Depth(x) /\ Depth(q) \in Nat /\ Depth(x) \in Nat
  BY Smts, <1>4, <1>8
<1> HIDE DEF Depth
<1> QED  BY Smts, <1>9, <1>10
=============================================================================
