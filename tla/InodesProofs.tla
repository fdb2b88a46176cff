---------------------------- MODULE InodesProofs ----------------------------
(***************************************************************************)
(* For any processes, calls, names and sizes of the disk and the cache:    *)
(* the inode cache counts its references, iput never waits for the inode   *)
(* it is about to free, and no circle of processes waits for each other's  *)
(* inodes.                                                                 *)
(***************************************************************************)
EXTENDS InodesStepProofs, FiniteSetTheorems

\* The provers a leaf is tried with unless it names its own.
USE ZenonT(4), SMT, Z3T(20), ZenonT(40), SMTT(10), Z3T(40)

\* The pointers of seven tables, one after the other.
PointersOf(t, s) == {x \in Procs \X (1..7) : t[x[2]][x[1]] = s}

\* Pointers, counted by process: those of p and those of the others.
LEMMA CountOne ==
  ASSUME NEW t, NEW p \in Procs, NEW s
  PROVE  /\ IsFiniteSet(PointersOf(t, s))
         /\ Cardinality(PointersOf(t, s)) =
              Cardinality({x \in PointersOf(t, s) : x[1] # p})
              + Bit(t[1][p] = s) + Bit(t[2][p] = s) + Bit(t[3][p] = s) + Bit(t[4][p] = s)
              + Bit(t[5][p] = s) + Bit(t[6][p] = s) + Bit(t[7][p] = s)
<1> DEFINE C(k) == {x \in PointersOf(t, s) : x[1] # p \/ x[2] <= k}
<1>1. IsFiniteSet(PointersOf(t, s))
  <2>1. 1 \in Int /\ 7 \in Int
    BY Smts
  <2>3. IsFiniteSet(1..7)
    BY <2>1, FS_Interval
  <2>2. IsFiniteSet(Procs \X (1..7))
    BY <2>3, FS_Product, InodesAssumption
  <2> QED  BY <2>2, FS_Subset DEF PointersOf
<1>2. ASSUME NEW k \in 0..7
      PROVE  IsFiniteSet(C(k)) /\ Cardinality(C(k)) \in Nat
  BY <1>1, FS_Subset, FS_CardinalityType
<1>3. ASSUME NEW k \in 0..6
      PROVE  Cardinality(C(k + 1)) = Cardinality(C(k)) + Bit(t[k + 1][p] = s)
  <2>1. k + 1 \in 1..7 /\ k \in 0..7
    BY Smts
  <2>2. CASE t[k + 1][p] = s
    <3>1. <<p, k + 1>> \notin C(k)
      BY Smts
    <3>2. C(k + 1) = C(k) \cup {<<p, k + 1>>}
      <4>1. ASSUME NEW x \in C(k + 1) PROVE x \in C(k) \cup {<<p, k + 1>>}
        <5>1. x \in Procs \X (1..7)
          BY DEF PointersOf
        <5> QED  BY Smts, <5>1
      <4>2. <<p, k + 1>> \in C(k + 1)
        <5>1. <<p, k + 1>> \in Procs \X (1..7)
          BY <2>1
        <5> QED  BY Smts, <2>2, <5>1 DEF PointersOf
      <4>3. ASSUME NEW x \in C(k) PROVE x \in C(k + 1)
        <5>1. x \in Procs \X (1..7)
          BY DEF PointersOf
        <5> QED  BY Smts, <5>1
      <4> QED  BY <4>1, <4>2, <4>3
    <3>3. Cardinality(C(k) \cup {<<p, k + 1>>}) = Cardinality(C(k)) + 1
      <4> HIDE DEF C
      <4> QED  BY <1>2, <2>1, <3>1, FS_AddElement
    <3> QED  BY <2>2, <3>2, <3>3 DEF Bit
  <2>3. CASE t[k + 1][p] # s
    <3>1. C(k + 1) = C(k)
      <4>1. ASSUME NEW x \in C(k + 1) PROVE x \in C(k)
        <5>1. x \in Procs \X (1..7) /\ t[x[2]][x[1]] = s
          BY DEF PointersOf
        <5> QED  BY Smts, <2>3, <5>1
      <4>2. ASSUME NEW x \in C(k) PROVE x \in C(k + 1)
        <5>1. x \in Procs \X (1..7)
          BY DEF PointersOf
        <5> QED  BY Smts, <5>1
      <4> QED  BY <4>1, <4>2
    <3>2. Cardinality(C(k)) \in Nat
      BY <1>2, <2>1
    <3> HIDE DEF C
    <3> QED  BY Smts, <2>3, <3>1, <3>2 DEF Bit
  <2> QED  BY <2>2, <2>3
<1>4. C(7) = PointersOf(t, s)
  <2>1. ASSUME NEW x \in PointersOf(t, s) PROVE x \in C(7)
    <3>1. x \in Procs \X (1..7)
      BY DEF PointersOf
    <3> QED  BY Smts, <3>1
  <2> QED  BY <2>1
<1>5. C(0) = {x \in PointersOf(t, s) : x[1] # p}
  <2>1. ASSUME NEW x \in C(0) PROVE x[1] # p
    <3>1. x \in Procs \X (1..7)
      BY DEF PointersOf
    <3> QED  BY Smts, <3>1
  <2> QED  BY <2>1
<1>6. \A k \in 0..7 : Cardinality(C(k)) \in Nat
  BY <1>2
<1>7. \A k \in 0..6 : Cardinality(C(k + 1)) = Cardinality(C(k)) + Bit(t[k + 1][p] = s)
  BY <1>3
<1> HIDE DEF C
<1>8. /\ Cardinality(C(1)) = Cardinality(C(0)) + Bit(t[1][p] = s)
      /\ Cardinality(C(2)) = Cardinality(C(1)) + Bit(t[2][p] = s)
      /\ Cardinality(C(3)) = Cardinality(C(2)) + Bit(t[3][p] = s)
      /\ Cardinality(C(4)) = Cardinality(C(3)) + Bit(t[4][p] = s)
      /\ Cardinality(C(5)) = Cardinality(C(4)) + Bit(t[5][p] = s)
      /\ Cardinality(C(6)) = Cardinality(C(5)) + Bit(t[6][p] = s)
      /\ Cardinality(C(7)) = Cardinality(C(6)) + Bit(t[7][p] = s)
  BY Smts, <1>7
<1>9. \A k \in 1..7 : Bit(t[k][p] = s) \in Int
  BY Smts DEF Bit
<1>10. /\ Bit(t[1][p] = s) \in Int /\ Bit(t[2][p] = s) \in Int /\ Bit(t[3][p] = s) \in Int
       /\ Bit(t[4][p] = s) \in Int /\ Bit(t[5][p] = s) \in Int /\ Bit(t[6][p] = s) \in Int
       /\ Bit(t[7][p] = s) \in Int
  BY Smts, <1>9
<1>11. /\ Cardinality(C(0)) \in Nat /\ Cardinality(C(1)) \in Nat /\ Cardinality(C(2)) \in Nat
       /\ Cardinality(C(3)) \in Nat /\ Cardinality(C(4)) \in Nat /\ Cardinality(C(5)) \in Nat
       /\ Cardinality(C(6)) \in Nat /\ Cardinality(C(7)) \in Nat
  BY Smts, <1>6
<1>12. Cardinality(C(7)) =
         Cardinality(C(0)) + Bit(t[1][p] = s) + Bit(t[2][p] = s) + Bit(t[3][p] = s)
         + Bit(t[4][p] = s) + Bit(t[5][p] = s) + Bit(t[6][p] = s) + Bit(t[7][p] = s)
  BY Smts, <1>8, <1>10, <1>11
<1> QED  BY <1>1, <1>4, <1>5, <1>12

Tables == <<cwd, file, ip, dp, old, rel, croot>>

\* The pointers to entry s are those of seven tables.
LEMMA PointersAre ==
  \A s : Pointers(s) = PointersOf(Tables, s)
<1> SUFFICES ASSUME NEW s PROVE Pointers(s) = PointersOf(Tables, s)
  OBVIOUS
<1>1. ASSUME NEW x \in PointersOf(Tables, s) PROVE x \in Pointers(s)
  <2>1. PICK p \in Procs, n \in 1..7 : x = <<p, n>> /\ Tables[n][p] = s
    BY Smts DEF PointersOf
  <2> QED  BY Smts, <2>1 DEF Tables, Pointers
<1>2. ASSUME NEW x \in Pointers(s) PROVE x \in PointersOf(Tables, s)
  <2>1. PICK p \in Procs, n \in 1..7 : x = <<p, n>> /\ Tables[n][p] = s
    BY Smts DEF Tables, Pointers
  <2>2. x \in Procs \X (1..7) /\ x[1] = p /\ x[2] = n
    BY <2>1
  <2> QED  BY <2>1, <2>2 DEF PointersOf
<1> QED  BY <1>1, <1>2

\* The pointers of the other processes than p.
Others(t, p, s) == {x \in PointersOf(t, s) : x[1] # p}

\* The count of the pointers to s, by process.
LEMMA Counts ==
  TypeOK => \A p \in Procs, s \in Slots :
    /\ IsFiniteSet(Pointers(s))
    /\ Cardinality(Others(Tables, p, s)) \in Nat
    /\ Cardinality(Pointers(s)) = Cardinality(Others(Tables, p, s)) + Own(p, s)
<1> SUFFICES ASSUME TypeOK, NEW p \in Procs, NEW s \in Slots
    PROVE /\ IsFiniteSet(Pointers(s))
          /\ Cardinality(Others(Tables, p, s)) \in Nat
          /\ Cardinality(Pointers(s)) = Cardinality(Others(Tables, p, s)) + Own(p, s)
  OBVIOUS
<1>1. /\ Tables[1][p] = cwd[p] /\ Tables[2][p] = file[p] /\ Tables[3][p] = ip[p]
      /\ Tables[4][p] = dp[p] /\ Tables[5][p] = old[p] /\ Tables[6][p] = rel[p]
      /\ Tables[7][p] = NoSlot /\ NoSlot # s
  BY Sizes DEF Tables, TypeOK
<1>2. IsFiniteSet(PointersOf(Tables, s))
  BY CountOne
<1>3. Cardinality(Others(Tables, p, s)) \in Nat
  BY <1>2, FS_Subset, FS_CardinalityType DEF Others
<1>4. Cardinality(PointersOf(Tables, s)) =
        Cardinality(Others(Tables, p, s))
        + Bit(cwd[p] = s) + Bit(file[p] = s) + Bit(ip[p] = s) + Bit(dp[p] = s)
        + Bit(old[p] = s) + Bit(rel[p] = s) + Bit(NoSlot = s)
  BY Smts, <1>1, CountOne DEF Others
<1> QED  BY Smts, <1>1, <1>2, <1>3, <1>4, PointersAre DEF Own, Bit

\* The same in the next state.
LEMMA CountsNext ==
  (TypeOK => \A p \in Procs, s \in Slots :
    /\ IsFiniteSet(Pointers(s))
    /\ Cardinality(Others(Tables, p, s)) \in Nat
    /\ Cardinality(Pointers(s)) = Cardinality(Others(Tables, p, s)) + Own(p, s))'
BY Counts, PTL

\* The counts follow the pointers of the process that takes a step.
LEMMA CountStep ==
  ASSUME TypeOK, RefCounted, TypeOK', NEW p \in Procs, Quiet(p),
         \A s \in Slots : ic'[s].ref = ic[s].ref + Own(p, s)' - Own(p, s)
  PROVE  \A s \in Slots : ic'[s].ref = Cardinality(Pointers(s)')
<1> SUFFICES ASSUME NEW s \in Slots
    PROVE  ic'[s].ref = Cardinality(Pointers(s)')
  OBVIOUS
<1>1. Others(Tables', p, s) = Others(Tables, p, s)
  <2>1. \A x \in Procs \X (1..7) : x[1] # p => Tables'[x[2]][x[1]] = Tables[x[2]][x[1]]
    <3> SUFFICES ASSUME NEW q \in Procs \ {p}, NEW n \in 1..7
                 PROVE  Tables'[n][q] = Tables[n][q]
      OBVIOUS
    <3>1. croot'[q] = croot[q]
      BY DEF TypeOK
    <3> QED  BY Smts, <3>1 DEF Tables, Quiet
  <2> QED  BY <2>1 DEF Others, PointersOf
<1>2. /\ Cardinality(Others(Tables, p, s)) \in Nat
      /\ ic[s].ref = Cardinality(Others(Tables, p, s)) + Own(p, s)
  BY Counts DEF RefCounted
<1>4. Cardinality(Pointers(s)') = Cardinality(Others(Tables', p, s)) + Own(p, s)'
  BY CountsNext
<1>5. Own(p, s) \in Int /\ Own(p, s)' \in Int
  BY Smts DEF Own, Bit
<1> QED  BY Smts, <1>1, <1>2, <1>4, <1>5

\* What is counted exactly is counted.
LEMMA Counted ==
  TypeOK /\ RefCounted => Referenced
<1> SUFFICES ASSUME TypeOK, RefCounted, NEW p \in Procs, NEW s \in Slots
             PROVE  ic[s].ref >= Own(p, s)
  BY DEF Referenced
<1> QED  BY Smts, Counts DEF RefCounted, Own, Bit

\* The same of the next state.
LEMMA CountedNext ==
  TypeOK' /\ RefCounted' => Referenced'
BY Counted, PTL

\* Such a step keeps the invariant.
LEMMA StepKeeps ==
  ASSUME IInv, NEW p \in Procs, NEW g, Step(p, g)
  PROVE  IInv'
<1> USE Sizes DEF SlotOrNone
<1>1. TypeOK /\ TypeOK' /\ Quiet(p) /\ RefCounted
  BY DEF IInv, Step
<1>2. ASSUME NEW q \in Procs PROVE Local(q)'
  <2>1. CASE q = p
    BY <2>1 DEF Step
  <2>2. CASE q # p
    <3>1. Local(q)
      BY DEF IInv
    <3> QED  BY <1>1, <2>2, <3>1 DEF Local, At, Quiet
  <2> QED  BY <2>1, <2>2
<1>3. RefCounted'
  <2>1. \A s \in Slots : ic'[s].ref = ic[s].ref + Own(p, s)' - Own(p, s)
    <3> SUFFICES ASSUME NEW s \in Slots
                 PROVE  ic'[s].ref = ic[s].ref + Own(p, s)' - Own(p, s)
      OBVIOUS
    <3>1. /\ Own(p, s)' = Own(p, s) + Bit(s = g)
          /\ ic'[s].ref = ic[s].ref + Bit(s = g)
      BY DEF Step, Gains
    <3>2. Own(p, s) \in Int /\ ic[s].ref \in Int /\ Bit(s = g) \in Int
      BY Smts, <1>1 DEF TypeOK, Cached, Own, Bit
    <3> QED  BY Smts, <3>1, <3>2
  <2>2. \A s \in Slots : ic'[s].ref = Cardinality(Pointers(s)')
    BY <1>1, <2>1, CountStep
  <2>3. ASSUME NEW s \in Slots, NEW t \in Slots, ic'[s].ref > 0, ic'[t].ref > 0,
               ic'[s].inum = ic'[t].inum, s # t
        PROVE  FALSE
    <3>1. /\ s # g => ic[s].ref > 0
          /\ t # g => ic[t].ref > 0
      BY Smts, <1>1, <2>3 DEF TypeOK, Cached, Step, Gains, Bit
    <3>2. CASE ic[s].ref > 0 /\ ic[t].ref > 0
      BY <1>1, <2>3, <3>2 DEF Step, Gains, RefCounted
    <3>3. CASE s = g /\ ~(ic[s].ref > 0)
      <4>1. ic[g].ref = 0 /\ ic[t].ref > 0
        BY Smts, <1>1, <2>3, <3>1, <3>3 DEF TypeOK, Cached
      <4> QED  BY <2>3, <3>3, <4>1 DEF Step, Gains
    <3>4. CASE t = g /\ ~(ic[t].ref > 0)
      <4>1. ic[g].ref = 0 /\ ic[s].ref > 0
        BY Smts, <1>1, <2>3, <3>1, <3>4 DEF TypeOK, Cached
      <4> QED  BY <2>3, <3>4, <4>1 DEF Step, Gains
    <3> QED  BY <3>1, <3>2, <3>3, <3>4
  <2> QED  BY <2>2, <2>3 DEF RefCounted
<1>4. Locked'
  <2> SUFFICES ASSUME NEW q \in Procs, NEW s \in Slots
               PROVE  ic'[s].lock = q <=> Holder(q, s)'
    BY DEF Locked
  <2>1. CASE q = p
    BY <2>1 DEF Step, Relocks
  <2>2. CASE q # p
    <3>1. Holder(q, s)' <=> Holder(q, s)
      BY <1>1, <2>2 DEF Holder, At, Quiet
    <3>2. ic'[s].lock = q <=> ic[s].lock = q
      <4>1. \/ ic'[s].lock = ic[s].lock
            \/ ic'[s].lock \in {p, NoProc} /\ ic[s].lock \in {p, NoProc}
        BY DEF Step, Relocks
      <4> QED  BY Smts, <2>2, <4>1, InodesAssumption
    <3> QED  BY <3>1, <3>2 DEF IInv, Locked
  <2> QED  BY <2>1, <2>2
<1>5. Freeing'
  <2> SUFFICES ASSUME NEW r \in Procs, NEW q \in Procs, pc'[r] \in Frees
               PROVE  dp'[q] # rel'[r] /\ old'[q] # rel'[r] /\ ip'[r] # rel'[r]
    BY DEF Freeing
  <2>1. r # p /\ pc[r] \in Frees /\ rel'[r] = rel[r] /\ ip'[r] = ip[r]
    BY <1>1 DEF Step, Quiet
  <2>2. rel[r] \in Slots /\ ic[rel[r]].lock = r
    <3>1. rel[r] \in Slots
      BY <1>1, <2>1 DEF IInv, TypeOK, Local, Frees, Puts
    <3>2. Holder(r, rel[r])
      BY <2>1 DEF Holder
    <3> QED  BY <3>1, <3>2 DEF IInv, Locked
  <2>3. dp[q] # rel[r] /\ old[q] # rel[r] /\ ip[r] # rel[r]
    BY <2>1 DEF IInv, Freeing
  <2>4. CASE q # p
    BY <1>1, <2>1, <2>3, <2>4 DEF Quiet
  <2>5. CASE q = p
    BY Smts, <2>1, <2>2, <2>3, <2>5, InodesAssumption DEF Step, Aims
  <2> QED  BY <2>4, <2>5
<1>6. \A q \in Procs, s \in Slots : (dp[q] = s \/ old[q] = s) => ic[s].ref > 0
  <2> SUFFICES ASSUME NEW q \in Procs, NEW s \in Slots, dp[q] = s \/ old[q] = s
               PROVE  ic[s].ref > 0
    OBVIOUS
  <2>1. ic[s].ref >= Own(q, s) /\ ic[s].ref \in Nat
    BY <1>1 DEF IInv, Referenced, TypeOK, Cached
  <2> QED  BY Smts, <2>1 DEF Own, Bit
<1>7. Coherent'
  <2> SUFFICES ASSUME NEW s \in Slots, ic'[s].valid, ic'[s].ref > 0,
                      ~\E r \in Procs : pc'[r] = "ifreed" /\ rel'[r] = s
               PROVE  ic'[s].type = disk'[ic'[s].inum].type /\ ic'[s].type # "free"
    BY DEF Coherent
  <2>1. ~\E r \in Procs : pc[r] = "ifreed" /\ rel[r] = s
    BY <1>1 DEF Step, Quiet, Frees
  <2>2. ic'[s].inum \in Inums
    BY <1>1 DEF TypeOK, Cached
  <2>3. CASE ic'[s].type = disk[ic'[s].inum].type /\ ic'[s].type # "free"
    BY <2>2, <2>3 DEF Step
  <2>4. CASE ic[s].ref > 0 /\ ic[s].valid /\ ic'[s].type = ic[s].type
    <3>1. ic[s].type = disk[ic[s].inum].type /\ ic[s].type # "free"
      BY <2>1, <2>4 DEF IInv, Coherent
    <3>2. ic'[s].inum = ic[s].inum
      BY <2>4 DEF Step, Gains
    <3> QED  BY <2>2, <2>4, <3>1, <3>2 DEF Step
  <2> QED  BY <2>3, <2>4 DEF Step, Copies
<1>8. Kinds'
  <2> SUFFICES ASSUME NEW q \in Procs
               PROVE  /\ dp'[q] # NoSlot => disk'[ic'[dp'[q]].inum].type = "dir"
                      /\ old'[q] # NoSlot => disk'[ic'[old'[q]].inum].type \notin {"dir", "free"}
    BY DEF Kinds
  <2>1. \A s \in Slots : ic[s].ref > 0 /\ disk[ic[s].inum].type # "free" =>
          disk'[ic'[s].inum].type = disk[ic[s].inum].type
    BY <1>1 DEF Step, Gains, TypeOK, Cached
  <2>2. /\ dp[q] # NoSlot => disk[ic[dp[q]].inum].type = "dir" /\ ic[dp[q]].ref > 0
        /\ old[q] # NoSlot => /\ disk[ic[old[q]].inum].type \notin {"dir", "free"}
                              /\ ic[old[q]].ref > 0
    BY <1>1, <1>6 DEF IInv, Kinds, TypeOK
  <2>3. /\ dp[q] \in SlotOrNone /\ old[q] \in SlotOrNone
        /\ dp'[q] \in SlotOrNone /\ old'[q] \in SlotOrNone
    BY <1>1 DEF TypeOK
  <2>4. CASE q # p
    <3>1. dp'[q] = dp[q] /\ old'[q] = old[q]
      BY <1>1, <2>4 DEF Quiet
    <3> QED  BY <2>1, <2>2, <2>3, <3>1
  <2>5. CASE q = p
    <3>1. Aims(q)
      BY <2>5 DEF Step
    <3>2. dp'[q] # NoSlot => disk[ic[dp'[q]].inum].type = "dir" /\ ic[dp'[q]].ref > 0
      BY <2>2, <3>1 DEF Aims
    <3>3. old'[q] # NoSlot => /\ disk[ic[old'[q]].inum].type \notin {"dir", "free"}
                              /\ ic[old'[q]].ref > 0
      BY <2>2, <3>1 DEF Aims
    <3> QED  BY <2>1, <2>3, <3>2, <3>3
  <2> QED  BY <2>4, <2>5
<1> QED  BY <1>1, <1>2, <1>3, <1>4, <1>5, <1>7, <1>8, CountedNext DEF IInv

-----------------------------------------------------------------------------
\* iput. When it drops the last reference, nobody else has a pointer.
LEMMA Sole ==
  ASSUME TypeOK, RefCounted, NEW p \in Procs, rel[p] \in Slots, ic[rel[p]].ref = 1
  PROVE  \A q \in Procs :
           /\ cwd[q] # rel[p] /\ file[q] # rel[p] /\ ip[q] # rel[p] /\ dp[q] # rel[p]
           /\ old[q] # rel[p] /\ (rel[q] = rel[p] => q = p)
<1> DEFINE s == rel[p]
<1>1. /\ IsFiniteSet(Pointers(s)) /\ Cardinality(Others(Tables, p, s)) \in Nat
      /\ Cardinality(Pointers(s)) = Cardinality(Others(Tables, p, s)) + Own(p, s)
  BY Counts
<1>2. Cardinality(Pointers(s)) = 1
  BY DEF RefCounted
<1>3. /\ cwd[p] # s /\ file[p] # s /\ ip[p] # s /\ dp[p] # s /\ old[p] # s
      /\ Cardinality(Others(Tables, p, s)) = 0
  BY Smts, <1>1, <1>2 DEF Own, Bit
<1>4. IsFiniteSet(Others(Tables, p, s))
  BY <1>1, PointersAre, FS_Subset DEF Others
<1>5. Others(Tables, p, s) = {}
  BY <1>3, <1>4, FS_EmptySet
<1>6. ASSUME NEW q \in Procs \ {p}, NEW k \in 1..7 PROVE Tables[k][q] # s
  <2>1. <<q, k>> \in Procs \X (1..7) /\ <<q, k>>[1] = q /\ <<q, k>>[2] = k
    OBVIOUS
  <2>2. <<q, k>> \notin Others(Tables, p, s)
    BY <1>5
  <2> QED  BY <2>1, <2>2 DEF Others, PointersOf
<1>7. ASSUME NEW q \in Procs \ {p}
      PROVE  cwd[q] # s /\ file[q] # s /\ ip[q] # s /\ dp[q] # s /\ old[q] # s /\ rel[q] # s
  <2>1. /\ Tables[1][q] = cwd[q] /\ Tables[2][q] = file[q] /\ Tables[3][q] = ip[q]
        /\ Tables[4][q] = dp[q] /\ Tables[5][q] = old[q] /\ Tables[6][q] = rel[q]
    BY DEF Tables
  <2> QED  BY Smts, <1>6, <2>1
<1> QED  BY <1>3, <1>7

\* The entry a process works in, or links, is in use.
LEMMA InUse ==
  ASSUME IInv, NEW p \in Procs
  PROVE  /\ dp[p] # NoSlot => dp[p] \in Slots /\ ic[dp[p]].ref > 0
         /\ old[p] # NoSlot => old[p] \in Slots /\ ic[old[p]].ref > 0
<1>1. dp[p] \in SlotOrNone /\ old[p] \in SlotOrNone /\ TypeOK /\ RefCounted
  BY DEF IInv, TypeOK
<1>2. ASSUME NEW s \in Slots, dp[p] = s \/ old[p] = s PROVE ic[s].ref > 0
  <2>1. ic[s].ref >= Own(p, s) /\ ic[s].ref \in Nat
    BY <1>1 DEF IInv, Referenced, TypeOK, Cached
  <2> QED  BY Smts, <1>2, <2>1 DEF Own, Bit
<1> QED  BY <1>1, <1>2 DEF SlotOrNone

\* A step inside iput that leaves the count alone.
Inside(p) ==
  /\ TypeOK' /\ pc[p] \in Puts /\ pc'[p] \in Puts
  /\ \A q \in Procs \ {p} : pc'[q] = pc[q]
  /\ UNCHANGED <<cwd, file, croot, call, ip, dp, old, rel, cont>>
  /\ \A t \in Slots : ic'[t].ref = ic[t].ref /\ ic'[t].inum = ic[t].inum
  /\ \A t \in Slots : t # rel[p] => ic'[t] = ic[t]

\* A step inside iput that gives up no pointer leaves the counts right.
LEMMA InsideKeeps ==
  ASSUME IInv, NEW p \in Procs, Inside(p)
  PROVE  (\A q \in Procs : Local(q)') /\ RefCounted'
<1>1. ASSUME NEW q \in Procs PROVE Local(q)'
  BY DEF IInv, Local, At, Inside
<1>2. Quiet(p)
  BY DEF Inside, Quiet
<1>3. \A s \in Slots : ic'[s].ref = ic[s].ref + Own(p, s)' - Own(p, s)
  <2> SUFFICES ASSUME NEW s \in Slots PROVE ic'[s].ref = ic[s].ref + Own(p, s)' - Own(p, s)
    OBVIOUS
  <2>1. Own(p, s)' = Own(p, s) /\ Own(p, s) \in Int
    BY Smts DEF Inside, Own, Bit
  <2>2. ic'[s].ref = ic[s].ref /\ ic[s].ref \in Int
    BY Smts DEF Inside, IInv, TypeOK, Cached
  <2> QED  BY Smts, <2>1, <2>2
<1>4. \A s \in Slots : ic'[s].ref = Cardinality(Pointers(s)')
  BY <1>2, <1>3, CountStep DEF IInv, Inside
<1>5. RefCounted'
  BY <1>4 DEF IInv, RefCounted, Inside
<1> QED  BY <1>1, <1>5

\* iput takes the sleep-lock of the last pointer's inode.
LEMMA IputLastKeeps ==
  ASSUME IInv, NEW p \in Procs, Iput(p), ic[rel[p]].ref = 1, ic[rel[p]].valid,
         ic[rel[p]].nlink = 0
  PROVE  IInv'
<1> DEFINE s == rel[p]
<1>1. /\ pc[p] = "iput" /\ TypeOK /\ RefCounted /\ s \in Slots /\ ic[s].lock = NoProc
      /\ ic' = [ic EXCEPT ![s].lock = p] /\ pc' = [pc EXCEPT ![p] = "itrunc"]
      /\ rel' = [rel EXCEPT ![p] = s] /\ cont' = [cont EXCEPT ![p] = @] /\ call' = call
      /\ UNCHANGED <<disk, cwd, file, croot, ip, dp, old>>
  BY Dropping DEF Iput, Running, Returned, IInv, Puts
<1>2. /\ UNCHANGED <<cwd, file, croot, call, ip, dp, old, rel, cont, disk>>
      /\ pc'[p] = "itrunc" /\ \A q \in Procs \ {p} : pc'[q] = pc[q]
  BY <1>1 DEF TypeOK
<1>3. \A t \in Slots : /\ ic'[t].ref = ic[t].ref /\ ic'[t].inum = ic[t].inum
                       /\ ic'[t].valid = ic[t].valid /\ ic'[t].type = ic[t].type
                       /\ ic'[t].lock = IF t = s THEN p ELSE ic[t].lock
                       /\ t # s => ic'[t] = ic[t]
  BY <1>1 DEF TypeOK, Cached
<1>4. TypeOK'
  BY Smts, <1>1, <1>2 DEF TypeOK, Cached, Puts
<1>5. (\A q \in Procs : Local(q)') /\ RefCounted'
  BY Smts, <1>1, <1>2, <1>3, <1>4, InsideKeeps DEF Inside, Puts
<1>6. Locked'
  <2> SUFFICES ASSUME NEW q \in Procs, NEW t \in Slots PROVE ic'[t].lock = q <=> Holder(q, t)'
    BY DEF Locked
  <2>1. ic[t].lock = q <=> Holder(q, t)
    BY DEF IInv, Locked
  <2>2. q # p => (Holder(q, t)' <=> Holder(q, t))
    BY <1>2 DEF Holder, At
  <2>3. Holder(p, t)' <=> Holder(p, t) \/ t = s
    BY <1>1, <1>2 DEF Holder, At, Puts, Frees
  <2> QED  BY Smts, <1>1, <1>3, <2>1, <2>2, <2>3, InodesAssumption
<1>7. Freeing'
  <2>1. \A q \in Procs : dp[q] # s /\ old[q] # s /\ ip[q] # s
    BY <1>1, Sole
  <2> QED  BY <1>2, <2>1 DEF IInv, Freeing
<1>8. Coherent'
  <2>1. \A r \in Procs : pc[r] = "ifreed" => pc'[r] = "ifreed"
    BY <1>1, <1>2
  <2> QED  BY Smts, <1>2, <1>3, <2>1 DEF IInv, Coherent
<1>9. Kinds'
  BY Smts, <1>2, <1>3, InUse DEF IInv, Kinds
<1> QED  BY <1>4, <1>5, <1>6, <1>7, <1>8, <1>9, CountedNext DEF IInv

\* iput frees the inode on the disk, the sleep-lock held.
LEMMA IputFreeKeeps ==
  ASSUME IInv, NEW p \in Procs, IputFree(p)
  PROVE  IInv'
<1> DEFINE s == rel[p]
<1>1. /\ pc[p] = "itrunc" /\ TypeOK /\ RefCounted /\ s \in Slots /\ ic[s].ref > 0
      /\ ic[s].inum \in Inums
  BY Smts, Dropping
     DEF IputFree, Running, IInv, Puts, TypeOK, Cached
<1>2. /\ UNCHANGED <<cwd, file, croot, call, ip, dp, old, rel, cont>>
      /\ pc'[p] = "ifreed" /\ \A q \in Procs \ {p} : pc'[q] = pc[q]
  BY <1>1 DEF TypeOK, IputFree, Goto
<1>3. \A t \in Slots : /\ ic'[t].ref = ic[t].ref /\ ic'[t].inum = ic[t].inum
                       /\ ic'[t].lock = ic[t].lock /\ ic'[t].valid = ic[t].valid
                       /\ t # s => ic'[t] = ic[t]
  BY <1>1 DEF TypeOK, Cached, IputFree
<1>4. TypeOK'
  <2>1. [type |-> "free", nlink |-> 0, ents |-> NoEntries] \in Dinode
    BY Smts DEF Dinode, Types, NoEntries
  <2>2. disk' \in [Inums -> Dinode]
    BY <1>1, <2>1 DEF TypeOK, IputFree
  <2>3. ic' \in [Slots -> Cached]
    <3>1. "free" \in Types
      BY DEF Types
    <3>2. ic' = [ic EXCEPT ![s].type = "free"]
      BY DEF IputFree
    <3>3. [ic[s] EXCEPT !.type = "free"] \in Cached
      <4>1. ic[s] \in Cached
        BY <1>1 DEF TypeOK
      <4> QED  BY <3>1, <4>1 DEF Cached
    <3>4. ic' = [ic EXCEPT ![s] = [ic[s] EXCEPT !.type = "free"]]
      BY <1>1, <3>2 DEF TypeOK
    <3> QED  BY <1>1, <3>3, <3>4 DEF TypeOK
  <2> QED  BY <1>1, <1>2, <2>2, <2>3 DEF TypeOK, Puts, IputFree, Goto
<1>5. (\A q \in Procs : Local(q)') /\ RefCounted'
  BY <1>1, <1>2, <1>3, <1>4, InsideKeeps DEF Inside, Puts
<1>6. Locked'
  <2> SUFFICES ASSUME NEW q \in Procs, NEW t \in Slots PROVE ic'[t].lock = q <=> Holder(q, t)'
    BY DEF Locked
  <2>1. Holder(q, t)' <=> Holder(q, t)
    BY <1>1, <1>2 DEF Holder, At, Puts, Frees
  <2> QED  BY <1>3, <2>1 DEF IInv, Locked
<1>7. Freeing'
  BY <1>1, <1>2 DEF IInv, Freeing, Frees
<1>8. \A t \in Slots : t # s /\ ic[t].ref > 0 => disk'[ic[t].inum] = disk[ic[t].inum]
  BY <1>1 DEF RefCounted, IputFree, TypeOK, Cached
<1>9. Coherent'
  <2> SUFFICES ASSUME NEW t \in Slots, ic'[t].valid, ic'[t].ref > 0, t # s,
                      ~\E r \in Procs : pc'[r] = "ifreed" /\ rel'[r] = t
               PROVE  ic'[t].type = disk'[ic'[t].inum].type /\ ic'[t].type # "free"
    BY <1>2 DEF Coherent
  <2>1. ~\E r \in Procs : pc[r] = "ifreed" /\ rel[r] = t
    BY <1>1, <1>2
  <2>2. ic[t].type = disk[ic[t].inum].type /\ ic[t].type # "free" /\ ic[t].ref > 0
    BY <1>3, <2>1 DEF IInv, Coherent
  <2> QED  BY <1>3, <1>8, <2>2
<1>10. Kinds'
  <2> SUFFICES ASSUME NEW q \in Procs
               PROVE  /\ dp'[q] # NoSlot => disk'[ic'[dp'[q]].inum].type = "dir"
                      /\ old'[q] # NoSlot => disk'[ic'[old'[q]].inum].type \notin {"dir", "free"}
    BY DEF Kinds
  <2>1. dp[q] # s /\ old[q] # s
    BY <1>1 DEF IInv, Freeing, Frees
  <2>2. /\ dp[q] # NoSlot => disk[ic[dp[q]].inum].type = "dir"
        /\ old[q] # NoSlot => disk[ic[old[q]].inum].type \notin {"dir", "free"}
    BY DEF IInv, Kinds
  <2> QED  BY Smts, <1>2, <1>3, <1>8, <2>1, <2>2, InUse
<1> QED  BY <1>4, <1>5, <1>6, <1>7, <1>9, <1>10, CountedNext DEF IInv

\* iput marks the entry invalid and releases the sleep-lock.
LEMMA IputInvalidateKeeps ==
  ASSUME IInv, NEW p \in Procs, IputInvalidate(p)
  PROVE  IInv'
<1> DEFINE s == rel[p]
<1>1. /\ pc[p] = "ifreed" /\ TypeOK /\ RefCounted /\ s \in Slots
      /\ ic' = [Iunlock(ic, s) EXCEPT ![s].valid = FALSE]
      /\ pc' = [pc EXCEPT ![p] = "idrop"]
      /\ UNCHANGED <<disk, cwd, file, croot, call, ip, dp, old, rel, cont>>
  BY Dropping DEF IputInvalidate, Running, Goto, IInv, Puts
<1>2. pc'[p] = "idrop" /\ \A q \in Procs \ {p} : pc'[q] = pc[q]
  BY <1>1 DEF TypeOK
<1>3. \A t \in Slots : /\ ic'[t].ref = ic[t].ref /\ ic'[t].inum = ic[t].inum
                       /\ ic'[t].lock = IF t = s THEN NoProc ELSE ic[t].lock
                       /\ ic'[t].valid => t # s
                       /\ t # s => ic'[t] = ic[t]
  <2>1. ic \in [Slots -> Cached]
    BY <1>1 DEF TypeOK
  <2> QED  BY <1>1, <2>1 DEF Cached, Iunlock
<1>4. TypeOK'
  <2>1. ic \in [Slots -> Cached]
    BY <1>1 DEF TypeOK
  <2>2. ic' \in [Slots -> Cached]
    BY Smts, <1>1, <2>1 DEF Cached, Iunlock
  <2> QED  BY Smts, <1>1, <2>2 DEF TypeOK, Puts
<1>5. (\A q \in Procs : Local(q)') /\ RefCounted'
  BY <1>1, <1>2, <1>3, <1>4, InsideKeeps DEF Inside, Puts
<1>6. Locked'
  <2> SUFFICES ASSUME NEW q \in Procs, NEW t \in Slots PROVE ic'[t].lock = q <=> Holder(q, t)'
    BY DEF Locked
  <2>1. ic[t].lock = q <=> Holder(q, t)
    BY DEF IInv, Locked
  <2>2. q # p => (Holder(q, t)' <=> Holder(q, t))
    BY <1>1, <1>2 DEF Holder, At
  <2>3. Holder(p, s)
    BY <1>1 DEF Holder, Frees
  <2>4. ic[s].lock = p
    BY <1>1, <2>3 DEF IInv, Locked
  <2>5. At(p)' = At(p) /\ ip[p] # s /\ dp[p] # s
    BY <1>1, <1>2 DEF At, Puts, IInv, Freeing, Frees
  <2>6. Holder(p, t)' <=> Holder(p, t) /\ t # s
    BY <1>1, <1>2, <2>5 DEF Holder, Frees
  <2> QED  BY Smts, <1>3, <2>1, <2>2, <2>4, <2>6, InodesAssumption
<1>7. Freeing'
  BY <1>1, <1>2 DEF IInv, Freeing, Frees
<1>8. Coherent'
  <2> SUFFICES ASSUME NEW t \in Slots, ic'[t].valid, ic'[t].ref > 0,
                      ~\E r \in Procs : pc'[r] = "ifreed" /\ rel'[r] = t
               PROVE  ic'[t].type = disk'[ic'[t].inum].type /\ ic'[t].type # "free"
    BY DEF Coherent
  <2>1. t # s /\ ic'[t] = ic[t]
    BY <1>3
  <2>2. ~\E r \in Procs : pc[r] = "ifreed" /\ rel[r] = t
    BY <1>1, <1>2, <2>1
  <2>3. Coherent /\ disk' = disk
    BY <1>1 DEF IInv
  <2> QED  BY <2>1, <2>2, <2>3 DEF Coherent
<1>9. Kinds'
  <2>1. ASSUME NEW q \in Procs
        PROVE  /\ dp[q] # NoSlot => ic'[dp[q]].inum = ic[dp[q]].inum
               /\ old[q] # NoSlot => ic'[old[q]].inum = ic[old[q]].inum
    <3>1. (dp[q] # NoSlot => dp[q] \in Slots) /\ (old[q] # NoSlot => old[q] \in Slots)
      BY InUse
    <3> QED  BY <1>3, <3>1
  <2> QED  BY <1>1, <2>1 DEF IInv, Kinds
<1> QED  BY <1>4, <1>5, <1>6, <1>7, <1>8, <1>9, CountedNext DEF IInv

\* The count goes down and the call goes on.
Dropped(p) ==
  /\ ic' = [ic EXCEPT ![rel[p]].ref = @ - 1]
  /\ pc' = [pc EXCEPT ![p] = cont[p]]
  /\ rel' = [rel EXCEPT ![p] = NoSlot]
  /\ cont' = [cont EXCEPT ![p] = "idle"]
  /\ Returned(p, cont[p])
  /\ UNCHANGED <<disk, cwd, file, croot, ip, dp, old>>

\* iput's ref-- takes one pointer, and the process has one fewer.
LEMMA DropKeeps ==
  ASSUME IInv, NEW p \in Procs, pc[p] \in {"iput", "idrop"}, Dropped(p)
  PROVE  IInv'
<1> DEFINE s == rel[p]
<1>1. TypeOK /\ RefCounted /\ s \in Slots /\ ic[s].ref >= 1 /\ Local(p) /\ pc[p] \in Puts
  BY Dropping DEF IInv, Puts
<1>2. /\ pc'[p] = cont[p] /\ rel'[p] = NoSlot /\ cont[p] \in Places
      /\ cont[p] # "idle" => call' = call
  BY <1>1 DEF TypeOK, Dropped, Returned
<1>3. Quiet(p)
  BY <1>1 DEF TypeOK, Dropped, Returned, Quiet
<1>4. \A t \in Slots : /\ ic'[t].ref = ic[t].ref - Bit(t = s) /\ ic'[t].inum = ic[t].inum
                       /\ ic'[t].lock = ic[t].lock /\ ic'[t].valid = ic[t].valid
                       /\ ic'[t].type = ic[t].type /\ ic[t].ref \in Nat
  BY Smts, <1>1 DEF TypeOK, Cached, Dropped, Bit
<1>5. TypeOK'
  <2>1. NoCall \in Frames
    BY DEF Frames
  <2>2. call' \in [Procs -> Frames]
    BY <1>1, <2>1 DEF TypeOK, Dropped, Returned
  <2>3. ic' \in [Slots -> Cached]
    <3>1. [ic[s] EXCEPT !.ref = ic[s].ref - 1] \in Cached
      <4>1. ic[s] \in Cached
        BY <1>1 DEF TypeOK
      <4> QED  BY Smts, <1>1, <4>1 DEF Cached
    <3>2. ic' = [ic EXCEPT ![s] = [ic[s] EXCEPT !.ref = ic[s].ref - 1]]
      BY <1>1 DEF TypeOK, Dropped
    <3> QED  BY <1>1, <3>1, <3>2 DEF TypeOK
  <2>4. "idle" \in Places /\ NoSlot \in SlotOrNone
    BY DEF Places, SlotOrNone
  <2> QED  BY <1>1, <1>2, <2>2, <2>3, <2>4 DEF TypeOK, Dropped
<1>6. At(p)' = At(p) /\ pc'[p] \notin Puts
  BY <1>1, <1>2 DEF At, Places, Puts, WithIp, WithDp, WithOld, Makes
<1>7. ASSUME NEW q \in Procs PROVE Local(q)'
  <2>1. CASE q = p
    <3>1. CASE cont[p] = "idle"
      BY <1>1, <1>2, <1>6, <2>1, <3>1
         DEF Dropped, Local, At, WithIp, WithDp, WithOld, Makes
    <3>2. CASE cont[p] # "idle"
      BY <1>1, <1>2, <1>6, <2>1, <3>2 DEF Dropped, Local
    <3> QED  BY <3>1, <3>2
  <2>2. CASE q # p
    <3>1. Local(q)
      BY DEF IInv
    <3> QED  BY <1>3, <2>2, <3>1 DEF Local, At, Quiet
  <2> QED  BY <2>1, <2>2
<1>8. RefCounted'
  <2>1. \A t \in Slots : ic'[t].ref = ic[t].ref + Own(p, t)' - Own(p, t)
    <3> SUFFICES ASSUME NEW t \in Slots PROVE ic'[t].ref = ic[t].ref + Own(p, t)' - Own(p, t)
      OBVIOUS
    <3>1. Own(p, t)' = Own(p, t) - Bit(t = s) /\ Own(p, t) \in Int
      BY Smts, <1>2, Sizes DEF Own, Bit, Dropped
    <3> QED  BY Smts, <1>4, <3>1 DEF Bit
  <2>2. \A t \in Slots : ic'[t].ref = Cardinality(Pointers(t)')
    BY <1>1, <1>3, <1>5, <2>1, CountStep
  <2> QED  BY Smts, <1>1, <1>4, <2>2 DEF RefCounted, Bit
<1>9. Locked'
  <2> SUFFICES ASSUME NEW q \in Procs, NEW t \in Slots PROVE ic'[t].lock = q <=> Holder(q, t)'
    BY DEF Locked
  <2>1. q # p => (Holder(q, t)' <=> Holder(q, t))
    BY <1>3 DEF Holder, At, Quiet
  <2>2. Holder(p, t)' <=> Holder(p, t)
    BY <1>1, <1>6 DEF Holder, Frees, Puts, Dropped
  <2> QED  BY Smts, <1>4, <2>1, <2>2 DEF IInv, Locked
<1>10. Freeing'
  BY Smts, <1>3, <1>6 DEF IInv, Freeing, Frees, Puts, Quiet, Dropped
<1>11. Coherent'
  <2> SUFFICES ASSUME NEW t \in Slots, ic'[t].valid, ic'[t].ref > 0,
                      ~\E r \in Procs : pc'[r] = "ifreed" /\ rel'[r] = t
               PROVE  ic'[t].type = disk'[ic'[t].inum].type /\ ic'[t].type # "free"
    BY DEF Coherent
  <2>1. ic[t].valid /\ ic[t].ref > 0
    BY Smts, <1>4 DEF Bit
  <2>2. ~\E r \in Procs : pc[r] = "ifreed" /\ rel[r] = t
    BY Smts, <1>3 DEF Quiet
  <2> QED  BY Smts, <1>4, <2>1, <2>2 DEF IInv, Coherent, Dropped
<1>12. Kinds'
  <2>1. ASSUME NEW q \in Procs
        PROVE  /\ dp[q] # NoSlot => ic'[dp[q]].inum = ic[dp[q]].inum
               /\ old[q] # NoSlot => ic'[old[q]].inum = ic[old[q]].inum
    <3>1. (dp[q] # NoSlot => dp[q] \in Slots) /\ (old[q] # NoSlot => old[q] \in Slots)
      BY InUse
    <3> QED  BY <1>4, <3>1
  <2> QED  BY Smts, <2>1 DEF IInv, Kinds, Dropped
<1> QED  BY <1>5, <1>7, <1>8, <1>9, <1>10, <1>11, <1>12, CountedNext DEF IInv

\* iput's test under icache.lock, either way.
LEMMA IputKeeps ==
  ASSUME IInv, NEW p \in Procs, Iput(p)
  PROVE  IInv'
<1> DEFINE last == ic[rel[p]].ref = 1 /\ ic[rel[p]].valid /\ ic[rel[p]].nlink = 0
<1>1. CASE last
  BY <1>1, IputLastKeeps
<1>2. CASE ~last
  <2>1. pc[p] = "iput" /\ Dropped(p)
    BY <1>2 DEF Iput, Running, Dropped
  <2> QED  BY <2>1, DropKeeps
<1> QED  BY <1>1, <1>2

\* iput's ref-- after an inode was freed.
LEMMA IputDropKeeps ==
  ASSUME IInv, NEW p \in Procs, IputDrop(p)
  PROVE  IInv'
<1>1. pc[p] = "idrop" /\ Dropped(p)
  BY DEF IputDrop, Running, Dropped
<1> QED  BY <1>1, DropKeeps

\* Every step keeps the invariant.
LEMMA NextKeeps ==
  IInv /\ [Next]_vars => IInv'
<1> SUFFICES ASSUME IInv, [Next]_vars PROVE IInv'
  OBVIOUS
<1>1. ASSUME UNCHANGED <<disk, ic, cwd, file, croot, pc, call, ip, dp, old, rel, cont>>
      PROVE  IInv'
  <2>1. TypeOK' /\ \A p \in Procs : Local(p)'
    BY <1>1 DEF IInv, TypeOK, Local, At
  <2>2. RefCounted'
    <3>1. \A s : Pointers(s)' = Pointers(s)
      BY <1>1 DEF Pointers
    <3> QED  BY <1>1, <3>1 DEF IInv, RefCounted
  <2>3. Locked'
    BY Smts, <1>1 DEF IInv, Locked, Holder, At
  <2>4. Freeing' /\ Kinds'
    BY Smts, <1>1 DEF IInv, Freeing, Kinds
  <2>5. Coherent'
    BY Smts, <1>1 DEF IInv, Coherent
  <2> QED  BY <2>1, <2>2, <2>3, <2>4, <2>5, CountedNext DEF IInv
<1>2. ASSUME NEW p \in Procs, NEW g, Step(p, g) PROVE IInv'
  BY <1>2, StepKeeps
<1>3. CASE UNCHANGED vars
  BY <1>1, <1>3 DEF vars
<1>4. ASSUME NEW p \in Procs, Syscall(p) \/ WalkElem(p) \/ WalkEnd(p) PROVE IInv'
  BY <1>2, <1>4, SyscallStep, WalkElemStep, WalkEndStep
<1>5. ASSUME NEW p \in Procs, IlockPanic(p) PROVE IInv'
  BY <1>1, <1>5 DEF IlockPanic, Panic
<1>6. ASSUME NEW p \in Procs, Iput(p) \/ IputFree(p) \/ IputInvalidate(p) \/ IputDrop(p)
      PROVE  IInv'
  BY <1>6, IputKeeps, IputFreeKeeps, IputInvalidateKeeps, IputDropKeeps
<1>7. ASSUME NEW p \in Procs, Open(p) \/ Close(p) \/ Chdir(p) PROVE IInv'
  BY <1>2, <1>7, OpenStep, CloseStep, ChdirStep
<1>8. ASSUME NEW p \in Procs, Create(p) \/ CreateExists(p) \/ CreateMade(p) \/ CreateEnd(p)
      PROVE  IInv'
  BY <1>2, <1>8, CreateStep, CreateExistsStep, CreateMadeStep, CreateEndStep
<1>9. ASSUME NEW p \in Procs,
             Unlink(p) \/ UnlinkEntry(p) \/ UnlinkNotEmpty(p) \/ UnlinkEnd(p) \/ DropParent(p)
      PROVE  IInv'
  BY <1>2, <1>9, UnlinkStep, UnlinkEntryStep, UnlinkNotEmptyStep, UnlinkEndStep,
     DropParentStep
<1>10. ASSUME NEW p \in Procs,
              LinkOld(p) \/ LinkDir(p) \/ LinkNew(p) \/ LinkEnd(p) \/ LinkBad(p)
       PROVE  IInv'
  BY <1>2, <1>10, LinkOldStep, LinkDirStep, LinkNewStep, LinkEndStep, LinkBadStep
<1> QED  BY <1>3, <1>4, <1>5, <1>6, <1>7, <1>8, <1>9, <1>10 DEF Next

\* Of an empty file system with every process in the root directory.
LEMMA InitHolds ==
  Init => IInv
<1> SUFFICES ASSUME Init PROVE IInv
  OBVIOUS
<1>0. /\ file = [p \in Procs |-> NoSlot] /\ croot = file /\ ip = file /\ dp = file
      /\ old = file /\ rel = file /\ cwd = [p \in Procs |-> 1]
      /\ pc = [p \in Procs |-> "idle"] /\ cont = [p \in Procs |-> "idle"]
  BY DEF Init
<1>1. TypeOK
  <2>1. NoEntries \in [Entries -> Inums \cup {0}]
        /\ [NoEntries EXCEPT ![".."] = ROOT] \in [Entries -> Inums \cup {0}]
    BY Sizes DEF NoEntries
  <2>2. disk \in [Inums -> Dinode]
    BY Smts, <2>1 DEF Init, Dinode, Types
  <2>3. Cardinality(Procs) \in Nat
    BY InodesAssumption, FS_CardinalityType
  <2>4. ic \in [Slots -> Cached]
    BY Smts, <2>3, Sizes DEF Init, Cached, Types
  <2>5. NoCall \in Frames /\ "idle" \in Places
    BY DEF Frames, Places
  <2> QED  BY Smts, <1>0, <2>2, <2>4, <2>5, Sizes
              DEF TypeOK, SlotOrNone, Init
<1>2. \A p \in Procs : Local(p)
  BY <1>0 DEF Local, At, Puts, WithIp, WithDp, WithOld, Makes
<1>3. RefCounted
  <2>1. ASSUME NEW s \in Slots \ {1} PROVE Pointers(s) = {} /\ ic[s].ref = 0
    BY Smts, <1>0, Sizes DEF Pointers, Init
  <2>2. Pointers(1) = {<<p, 1>> : p \in Procs} /\ ic[1].ref = Cardinality(Procs)
    BY Smts, <1>0, Sizes DEF Pointers, Init
  <2>3. Cardinality({<<p, 1>> : p \in Procs}) = Cardinality(Procs)
    <3> DEFINE T == {<<p, 1>> : p \in Procs}
               f == [p \in Procs |-> <<p, 1>>]
    <3>1. f \in Bijection(Procs, T)
      BY DEF Bijection, Injection, Surjection, IsInjective
    <3> QED  BY <3>1, FS_Bijection, InodesAssumption DEF ExistsBijection
  <2>4. Cardinality({}) = 0
    BY FS_EmptySet
  <2> QED  BY Smts, <2>1, <2>2, <2>3, <2>4 DEF RefCounted
<1>4. Locked
  <2>1. \A s \in Slots : ic[s].lock = NoProc
    BY DEF Init
  <2> QED  BY <1>0, <2>1, InodesAssumption DEF Locked, Holder, At, Puts, Frees
<1>5. Freeing /\ Kinds
  BY <1>0 DEF Freeing, Kinds, Frees
<1>6. Coherent
  BY DEF Init, Coherent
<1> QED  BY <1>1, <1>2, <1>3, <1>4, <1>5, <1>6, Counted DEF IInv

\* Every reachable state satisfies the invariant.
THEOREM InodesInvariant == Spec => []IInv
BY InitHolds, NextKeeps, PTL DEF Spec

\* "ip->ref tracks the number of in-memory pointers to the entry" (fs.c).
THEOREM RefCountedAlways == Spec => []RefCounted
<1>1. IInv => RefCounted
  BY DEF IInv
<1> QED  BY <1>1, InodesInvariant, PTL

\* Whoever holds the sleep-lock has a pointer, so the last pointer's inode is
\* locked by nobody when iput tests it.
LEMMA WontBlock == IInv => IputWontBlock
<1> SUFFICES ASSUME IInv, NEW p \in Procs, pc[p] = "iput", ic[rel[p]].ref = 1,
                    ic[rel[p]].lock # NoProc
             PROVE  FALSE
  BY DEF IputWontBlock
<1> DEFINE s == rel[p]
<1>1. TypeOK /\ RefCounted /\ s \in Slots
  BY Dropping DEF IInv, Puts
<1>2. PICK q \in Procs : Holder(q, s)
  BY Smts, <1>1 DEF IInv, TypeOK, Cached, Locked
<1>3. ip[q] # s /\ dp[q] # s /\ (rel[q] = s => q = p)
  BY <1>1, Sole
<1> QED  BY <1>2, <1>3 DEF Holder, Frees

\* "so this acquiresleep() won't block (or deadlock)" (fs.c).
THEOREM IputWontBlockAlways == Spec => []IputWontBlock
BY WontBlock, InodesInvariant, PTL

\* No circle of processes waits for each other's inodes: unlink and create
\* lock a parent before its child only, and the directories form no circle.
THEOREM InodesNoDeadlockAlways == Spec => []NoDeadlock
<1>1. Init => IInv /\ Forest
  BY InitHolds, ForestInit
<1>2. IInv /\ Forest /\ [Next]_vars => (IInv /\ Forest)'
  BY NextKeeps, ForestKeeps
<1> QED  BY <1>1, <1>2, NoCircle, PTL DEF Spec
=============================================================================
