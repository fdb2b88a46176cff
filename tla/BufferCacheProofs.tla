------------------------- MODULE BufferCacheProofs -------------------------
(***************************************************************************)
(* For any numbers of processes, blocks and buffers: a block has one       *)
(* buffer, refcnt counts its users and the log's pin without wrapping      *)
(* around, a holder keeps the buffer it asked for, and reads are of the    *)
(* last contents written.                                                  *)
(***************************************************************************)
EXTENDS BufferCache, TLAPS, FiniteSetTheorems

\* The provers a leaf is tried with unless it names its own.
USE ZenonT(4), SMT, Z3T(20), ZenonT(40)

TypeOK ==
  /\ blockno \in [Bufs -> Blocks \cup {NoBlock}]
  /\ valid \in [Bufs -> BOOLEAN]
  /\ refcnt \in [Bufs -> Nat]
  /\ data \in [Bufs -> Values]
  /\ owner \in [Bufs -> Procs \cup {NoProc}]
  /\ lru \in [Bufs -> Bufs]
  /\ disk \in [Blocks -> Values] /\ latest \in [Blocks -> Values]
  /\ logged \in SUBSET Blocks
  /\ pc \in [Procs -> {"idle", "acquire", "asleep", "locked", "hold", "wrote",
                       "unpin", "drop"}]
  /\ blk \in [Procs -> Blocks \cup {NoBlock}]
  /\ buf \in [Procs -> Bufs \cup {None}]

\* The processes bget has counted for a buffer.
Users(i) == {p \in Procs : Using(p) /\ buf[p] = i}

\* A counted process's buffer stays the buffer of its block, and a sleep-lock
\* is held by a process that is between bread and brelse.
InUse ==
  /\ \A p \in Procs : Using(p) =>
       buf[p] \in Bufs /\ blk[p] \in Blocks /\ blockno[buf[p]] = blk[p]
  /\ \A p \in Procs : pc[p] \in {"locked", "hold", "wrote", "unpin"} =>
       owner[buf[p]] = p

\* Where the last contents of a block are: in its buffer if that is valid, on
\* disk unless the block is logged, and then it has a valid buffer.
Fresh ==
  /\ \A i \in Bufs : valid[i] => blockno[i] \in Blocks /\ data[i] = latest[blockno[i]]
  /\ \A b \in Blocks \ logged : disk[b] = latest[b]
  /\ \A b \in logged : \E i \in Bufs : blockno[i] = b /\ valid[i]
  /\ \A p \in Procs :
       /\ pc[p] \in {"hold", "wrote", "unpin"} => valid[buf[p]]
       /\ pc[p] = "unpin" => blk[p] \in logged /\ disk[blk[p]] = latest[blk[p]]

IInv == TypeOK /\ RefCounted /\ InUse /\ Fresh

-----------------------------------------------------------------------------
\* The bound on the counter leaves room for a user.
LEMMA Refmod == REFMOD \in Nat /\ REFMOD >= 2
BY CacheAssumption, FS_CardinalityType

\* refcnt stays below the point where it would wrap around.
LEMMA Bounded ==
  ASSUME TypeOK, RefCounted, NEW i \in Bufs
  PROVE  /\ IsFiniteSet(Users(i)) /\ Cardinality(Users(i)) \in Nat
         /\ refcnt[i] = Cardinality(Users(i)) + (IF blockno[i] \in logged THEN 1 ELSE 0)
         /\ refcnt[i] \in Nat /\ refcnt[i] < REFMOD
         /\ \A p \in Users(i) : refcnt[i] >= 1
<1>1. Users(i) \in SUBSET Procs
  BY DEF Users
<1>2. /\ IsFiniteSet(Users(i)) /\ Cardinality(Users(i)) <= Cardinality(Procs)
      /\ Cardinality(Users(i)) \in Nat /\ Cardinality(Procs) \in Nat
  BY <1>1, CacheAssumption, FS_Subset, FS_CardinalityType
<1>3. refcnt[i] = Cardinality(Users(i)) + (IF blockno[i] \in logged THEN 1 ELSE 0)
  BY DEF RefCounted, Users
<1>4. ASSUME NEW p \in Users(i) PROVE Cardinality(Users(i)) # 0
  <2>1. Users(i) # {}  BY <1>4
  <2> QED  BY <1>2, <2>1, FS_EmptySet
<1>5. REFMOD \in Nat /\ Cardinality(Procs) + 1 < REFMOD
  BY CacheAssumption
<1> DEFINE n == Cardinality(Users(i))
           m == Cardinality(Procs)
<1>6. n \in Nat /\ m \in Nat /\ n <= m /\ m + 1 < REFMOD
  BY <1>2, <1>5
<1>7. refcnt[i] = n \/ refcnt[i] = n + 1
  BY <1>3, <1>6
<1> HIDE DEF n, m
<1>8. refcnt[i] \in Nat /\ refcnt[i] >= n
  BY <1>6, <1>7
<1>9. refcnt[i] < REFMOD
  BY <1>5, <1>6, <1>7
<1>10. \A p \in Users(i) : refcnt[i] >= 1
  BY <1>4, <1>6, <1>8 DEF n
<1> QED  BY <1>2, <1>3, <1>8, <1>9, <1>10

\* The initial state satisfies the invariant.
LEMMA InitIInv == Init => IInv
<1> SUFFICES ASSUME Init PROVE IInv
  OBVIOUS
<1>1. TypeOK
  <2>1. lru \in [Bufs -> Bufs]
    BY CacheAssumption DEF Init, Bufs
  <2> QED  BY <2>1 DEF Init, TypeOK
<1>2. RefCounted
  <2>1. \A i \in Bufs : {p \in Procs : Using(p) /\ buf[p] = i} = {}
    BY DEF Init, Using
  <2> QED  BY <2>1, FS_EmptySet DEF Init, RefCounted
<1>3. InUse
  BY DEF Init, InUse, Using
<1>4. Fresh
  BY DEF Init, Fresh
<1> QED  BY <1>1, <1>2, <1>3, <1>4 DEF IInv

\* Every step keeps the types.
LEMMA TypeStep == IInv /\ [Next]_vars => TypeOK'
<1> SUFFICES ASSUME IInv, [Next]_vars PROVE TypeOK'
  OBVIOUS
<1>t. TypeOK /\ RefCounted /\ InUse
  BY DEF IInv
<1>r. \A i \in Bufs : Up(refcnt[i]) \in Nat /\ Down(refcnt[i]) \in Nat
  BY <1>t, Refmod DEF TypeOK, Up, Down
<1>b. \A p \in Procs : Using(p) => buf[p] \in Bufs /\ blk[p] \in Blocks /\ blockno[buf[p]] \in Blocks
  BY <1>t DEF InUse
<1>1. CASE UNCHANGED vars
  BY <1>1, <1>t DEF vars, TypeOK
<1>2. ASSUME NEW p \in Procs, NEW b \in Blocks, BgetHit(p, b) PROVE TypeOK'
  BY <1>2, <1>t, <1>r DEF BgetHit, TypeOK, diskVars
<1>3. ASSUME NEW p \in Procs, NEW b \in Blocks, BgetRecycle(p, b) PROVE TypeOK'
  BY <1>3, <1>t DEF BgetRecycle, TypeOK, diskVars
<1>4. ASSUME NEW p \in Procs, NEW b \in Blocks, BgetPanic(p, b) PROVE TypeOK'
  BY <1>4, <1>t DEF BgetPanic, TypeOK, bufVars, diskVars
<1>5. ASSUME NEW p \in Procs, AcquireSleep(p) PROVE TypeOK'
  BY <1>5, <1>t DEF AcquireSleep, TypeOK, bufVars, diskVars
<1>6. ASSUME NEW p \in Procs, ReadDisk(p) PROVE TypeOK'
  <2>1. data' \in [Bufs -> Values]
    BY <1>6, <1>t, <1>b DEF ReadDisk, TypeOK, Using
  <2> QED  BY <1>6, <1>t, <2>1, Zenon DEF ReadDisk, TypeOK, diskVars
<1>7. ASSUME NEW p \in Procs, NEW v \in Values, Modify(p, v) PROVE TypeOK'
  <2>1. logged' \in SUBSET Blocks
    BY <1>7, <1>t, <1>b DEF Modify, TypeOK, Using
  <2>2. refcnt' \in [Bufs -> Nat]
    BY <1>7, <1>t, <1>r, Zenon DEF Modify, TypeOK
  <2> QED  BY <1>7, <1>t, <2>1, <2>2, Zenon DEF Modify, TypeOK
<1>8. ASSUME NEW p \in Procs, Bwrite(p) PROVE TypeOK'
  <2>1. disk' \in [Blocks -> Values]
    BY <1>8, <1>t, <1>b DEF Bwrite, TypeOK, Using
  <2> QED  BY <1>8, <1>t, <2>1 DEF Bwrite, TypeOK, bufVars
<1>9. ASSUME NEW p \in Procs, Bunpin(p) PROVE TypeOK'
  BY <1>9, <1>t, <1>r, Zenon DEF Bunpin, TypeOK
<1>10. ASSUME NEW p \in Procs, ReleaseSleep(p) PROVE TypeOK'
  BY <1>10, <1>t, Zenon DEF ReleaseSleep, TypeOK, bufVars, diskVars
<1>11. ASSUME NEW p \in Procs, Drop(p) PROVE TypeOK'
  <2>1. buf[p] \in Bufs
    BY <1>11, <1>b DEF Drop, Using
  <2>2. ToFront(buf[p]) \in [Bufs -> Bufs]
    <3>1. \A k \in Bufs : k # 1 => k - 1 \in Bufs
      BY CacheAssumption DEF Bufs
    <3> QED  BY <1>t, <2>1, <3>1 DEF ToFront, TypeOK
  <2> QED  BY <1>11, <1>t, <1>r, <2>2, Zenon DEF Drop, TypeOK, diskVars
<1> QED
  BY <1>1, <1>2, <1>3, <1>4, <1>5, <1>6, <1>7, <1>8, <1>9, <1>10, <1>11 DEF Next

\* One more user, and one less: refcnt follows, without wrapping around.
LEMMA UserComes ==
  ASSUME TypeOK, RefCounted, NEW p \in Procs, NEW i \in Bufs, pc[p] = "idle",
         Users(i)' = Users(i) \cup {p}
  PROVE  Cardinality(Users(i)') = Cardinality(Users(i)) + 1
         /\ Up(refcnt[i]) = refcnt[i] + 1
<1>1. IsFiniteSet(Users(i)) /\ p \notin Users(i) /\ Cardinality(Users(i)) \in Nat
  BY Bounded DEF Users, Using
<1>2. Cardinality(Users(i) \cup {p}) = Cardinality(Users(i)) + 1
  BY <1>1, FS_AddElement, Zenon
<1>3. Cardinality(Users(i) \cup {p}) <= Cardinality(Procs)
  <2>1. Users(i) \cup {p} \in SUBSET Procs  BY DEF Users
  <2> QED  BY <2>1, CacheAssumption, FS_Subset
<1> DEFINE n == Cardinality(Users(i))
           m == Cardinality(Procs)
<1>4. n \in Nat /\ m \in Nat /\ n + 1 <= m /\ m + 1 < REFMOD /\ REFMOD \in Nat
  BY <1>1, <1>2, <1>3, CacheAssumption, FS_CardinalityType
<1>5. refcnt[i] = n \/ refcnt[i] = n + 1
  BY <1>4, Bounded
<1> HIDE DEF n, m
<1>6. Up(refcnt[i]) = refcnt[i] + 1
  BY <1>4, <1>5 DEF Up
<1> QED  BY <1>2, <1>6

\* A counted process leaves.
LEMMA UserGoes ==
  ASSUME TypeOK, RefCounted, NEW p \in Procs, NEW i \in Bufs, p \in Users(i),
         Users(i)' = Users(i) \ {p}
  PROVE  Cardinality(Users(i)') = Cardinality(Users(i)) - 1
         /\ Down(refcnt[i]) = refcnt[i] - 1
<1>1. IsFiniteSet(Users(i)) /\ refcnt[i] \in Nat /\ refcnt[i] >= 1
  BY Bounded
<1>2. Cardinality(Users(i) \ {p}) = Cardinality(Users(i)) - 1
  BY <1>1, FS_RemoveElement, Zenon
<1>3. Down(refcnt[i]) = refcnt[i] - 1
  BY <1>1 DEF Down
<1> QED  BY <1>2, <1>3

\* What RefCounted says, by the users of each buffer.
Unique == \A i, j \in Bufs : blockno[i] = blockno[j] /\ blockno[i] # NoBlock => i = j
Pins(i) == IF blockno[i] \in logged THEN 1 ELSE 0

\* The two ways to say it agree.
LEMMA CountedUsers ==
  RefCounted <=> Unique /\ \A i \in Bufs : refcnt[i] = Cardinality(Users(i)) + Pins(i)
BY Zenon DEF RefCounted, Unique, Users, Pins

\* bget.
LEMMA CountHit ==
  ASSUME IInv, NEW p \in Procs, NEW b \in Blocks, BgetHit(p, b)
  PROVE  RefCounted'
<1>1. TypeOK /\ RefCounted /\ pc[p] = "idle" /\ UNCHANGED <<blockno, logged>>
  BY DEF IInv, BgetHit, diskVars
<1>2. PICK i \in Bufs : /\ refcnt' = [refcnt EXCEPT ![i] = Up(@)]
                        /\ buf' = [buf EXCEPT ![p] = i]
  BY Zenon DEF BgetHit
<1>3. /\ Users(i)' = Users(i) \cup {p}
      /\ \A j \in Bufs : j # i => Users(j)' = Users(j)
  BY <1>1, <1>2 DEF BgetHit, Users, Using, TypeOK
<1>4. /\ Cardinality(Users(i)') = Cardinality(Users(i)) + 1 /\ Up(refcnt[i]) = refcnt[i] + 1
      /\ Cardinality(Users(i)) \in Nat
  BY <1>1, <1>3, UserComes, Bounded, Zenon
<1>5. refcnt'[i] = refcnt[i] + 1 /\ \A j \in Bufs : j # i => refcnt'[j] = refcnt[j]
  BY <1>1, <1>2, <1>4 DEF TypeOK
<1>6. Unique' /\ \A j \in Bufs : Pins(j)' = Pins(j)
  BY <1>1, CountedUsers DEF Unique, Pins
<1>7. \A j \in Bufs : refcnt[j] = Cardinality(Users(j)) + Pins(j) /\ Pins(j) \in {0, 1}
  BY <1>1, CountedUsers DEF Pins
<1>8. refcnt'[i] = Cardinality(Users(i)') + Pins(i)'
  BY <1>4, <1>5, <1>6, <1>7
<1>9. \A j \in Bufs : refcnt'[j] = Cardinality(Users(j)') + Pins(j)'
  BY <1>3, <1>5, <1>6, <1>7, <1>8
<1> QED  BY <1>6, <1>9 DEF RefCounted, Unique, Users, Pins

\* The recycled buffer had no user and no pin, and nobody has the block.
LEMMA CountRecycle ==
  ASSUME IInv, NEW p \in Procs, NEW b \in Blocks, BgetRecycle(p, b)
  PROVE  RefCounted'
<1>1. TypeOK /\ RefCounted /\ Fresh /\ pc[p] = "idle" /\ Miss(b) /\ logged' = logged
  BY DEF IInv, BgetRecycle, diskVars
<1>2. PICK i \in Bufs : /\ refcnt[i] = 0
                        /\ blockno' = [blockno EXCEPT ![i] = b]
                        /\ refcnt' = [refcnt EXCEPT ![i] = 1]
                        /\ buf' = [buf EXCEPT ![p] = i]
  BY <1>1, Zenon DEF BgetRecycle, Unused, TypeOK
<1>3. /\ Users(i)' = Users(i) \cup {p}
      /\ \A j \in Bufs : j # i => Users(j)' = Users(j)
  BY <1>1, <1>2 DEF BgetRecycle, Users, Using, TypeOK
<1>4. /\ Cardinality(Users(i)') = Cardinality(Users(i)) + 1 /\ Cardinality(Users(i)) \in Nat
      /\ refcnt[i] = Cardinality(Users(i)) + Pins(i)
  BY <1>1, <1>3, UserComes, Bounded DEF Pins
<1>5. Cardinality(Users(i)) = 0
  BY <1>2, <1>4 DEF Pins
<1>6. b \notin logged
  BY <1>1 DEF Fresh, Miss
<1>7. blockno'[i] = b /\ refcnt'[i] = 1
      /\ \A j \in Bufs : j # i => blockno'[j] = blockno[j] /\ refcnt'[j] = refcnt[j]
  BY <1>1, <1>2 DEF TypeOK
<1>8. Unique'
  BY <1>1, <1>7, CountedUsers DEF Unique, Miss
<1>9. Pins(i)' = 0 /\ \A j \in Bufs : j # i => Pins(j)' = Pins(j)
  BY <1>1, <1>6, <1>7 DEF Pins
<1>10. refcnt'[i] = Cardinality(Users(i)') + Pins(i)'
  BY <1>4, <1>5, <1>7, <1>9
<1>11. \A j \in Bufs : refcnt[j] = Cardinality(Users(j)) + Pins(j)
  BY <1>1, CountedUsers
<1>12. \A j \in Bufs : refcnt'[j] = Cardinality(Users(j)') + Pins(j)'
  BY <1>3, <1>7, <1>9, <1>10, <1>11
<1> QED  BY <1>8, <1>12 DEF RefCounted, Unique, Users, Pins

\* bpin by the first log_write of the block, bunpin after it is installed.
LEMMA CountPin ==
  ASSUME IInv, NEW p \in Procs,
         (\E v \in Values : Modify(p, v)) \/ Bunpin(p)
  PROVE  RefCounted'
<1>1. TypeOK /\ RefCounted /\ InUse /\ Fresh /\ UNCHANGED <<blockno, buf>>
  BY DEF IInv, Modify, Bunpin
<1>p. PICK i \in Bufs, b \in Blocks : i = buf[p] /\ b = blk[p]
  BY <1>1 DEF Modify, Bunpin, InUse, Using
<1>2. i \in Bufs /\ b \in Blocks /\ blockno[i] = b /\ pc[p] \in {"hold", "unpin"}
      /\ p \in Users(i) /\ b # NoBlock
  BY <1>p, <1>1, CacheAssumption DEF Modify, Bunpin, InUse, Using, Users
<1>3. \A j \in Bufs : Users(j)' = Users(j)
  BY <1>1 DEF Modify, Bunpin, Users, Using, TypeOK
<1>4. Unique /\ Unique' /\ \A j \in Bufs : j # i => blockno[j] # b
  BY <1>1, <1>2, CountedUsers DEF Unique
<1>5. /\ \A j \in Bufs : refcnt[j] = Cardinality(Users(j)) + Pins(j)
      /\ Cardinality(Users(i)) \in Nat /\ refcnt[i] \in Nat /\ refcnt[i] >= 1
      /\ refcnt[i] < REFMOD
  BY <1>1, <1>2, CountedUsers, Bounded
<1>6. Cardinality(Users(i)) + 1 < REFMOD
  <2>1. Users(i) \in SUBSET Procs  BY DEF Users
  <2>2. Cardinality(Users(i)) <= Cardinality(Procs)  BY <2>1, CacheAssumption, FS_Subset
  <2> QED  BY <1>5, <2>2, CacheAssumption, FS_CardinalityType
<1>7. /\ refcnt'[i] = Cardinality(Users(i)) + Pins(i)'
      /\ \A j \in Bufs : j # i => refcnt'[j] = refcnt[j] /\ Pins(j)' = Pins(j)
  <2>1. CASE \E v \in Values : Modify(p, v)
    <3>1. /\ logged' = logged \cup {b}
          /\ refcnt' = IF b \in logged THEN refcnt ELSE [refcnt EXCEPT ![i] = Up(@)]
      BY <1>p, <2>1 DEF Modify
    <3>2. Pins(i)' = 1 /\ \A j \in Bufs : j # i => Pins(j)' = Pins(j)
      BY <1>1, <1>2, <1>4, <3>1 DEF Pins
    <3>3. CASE b \in logged
      BY <1>2, <1>5, <3>1, <3>2, <3>3 DEF Pins
    <3>4. CASE b \notin logged
      <4>1. refcnt[i] = Cardinality(Users(i))  BY <1>2, <1>5, <3>4 DEF Pins
      <4>2. Up(refcnt[i]) = refcnt[i] + 1  BY <1>5, <1>6, <4>1, Refmod DEF Up
      <4>3. refcnt' = [refcnt EXCEPT ![i] = Up(@)]  BY <3>1, <3>4
      <4> QED  BY <1>1, <1>2, <3>2, <4>1, <4>2, <4>3 DEF TypeOK
    <3> QED  BY <3>3, <3>4
  <2>2. CASE Bunpin(p)
    <3>1. logged' = logged \ {b} /\ refcnt' = [refcnt EXCEPT ![i] = Down(@)] /\ b \in logged
      BY <1>p, <1>1, <2>2 DEF Bunpin, Fresh
    <3>2. Pins(i)' = 0 /\ Pins(i) = 1 /\ \A j \in Bufs : j # i => Pins(j)' = Pins(j)
      BY <1>1, <1>2, <1>4, <3>1 DEF Pins
    <3>3. Down(refcnt[i]) = Cardinality(Users(i))
      BY <1>2, <1>5, <3>2 DEF Down
    <3> QED  BY <1>1, <1>2, <1>5, <3>1, <3>2, <3>3 DEF TypeOK
  <2> QED  BY <2>1, <2>2
<1>8. \A j \in Bufs : refcnt'[j] = Cardinality(Users(j)') + Pins(j)'
  BY <1>2, <1>3, <1>5, <1>7
<1> QED  BY <1>4, <1>8 DEF RefCounted, Unique, Users, Pins

\* The end of brelse.
LEMMA CountDrop ==
  ASSUME IInv, NEW p \in Procs, Drop(p)
  PROVE  RefCounted'
<1>1. TypeOK /\ RefCounted /\ InUse /\ pc[p] = "drop" /\ UNCHANGED <<blockno, logged>>
  BY DEF IInv, Drop, diskVars
<1>p. PICK i \in Bufs : i = buf[p]
  BY <1>1 DEF InUse, Using
<1>2. i \in Bufs /\ p \in Users(i)
  BY <1>p, <1>1 DEF InUse, Using, Users
<1>3. /\ Users(i)' = Users(i) \ {p}
      /\ \A j \in Bufs : j # i => Users(j)' = Users(j)
  BY <1>p, <1>1 DEF Drop, Users, Using, TypeOK
<1>4. /\ Cardinality(Users(i)') = Cardinality(Users(i)) - 1 /\ Down(refcnt[i]) = refcnt[i] - 1
      /\ Cardinality(Users(i)) \in Nat
  BY <1>1, <1>2, <1>3, UserGoes, Bounded, Zenon
<1>5. refcnt' = [refcnt EXCEPT ![i] = Down(@)]
  BY <1>p DEF Drop
<1>6. Unique' /\ \A j \in Bufs : Pins(j)' = Pins(j)
  BY <1>1, CountedUsers DEF Unique, Pins
<1>7. \A j \in Bufs : refcnt[j] = Cardinality(Users(j)) + Pins(j) /\ Pins(j) \in {0, 1}
  BY <1>1, CountedUsers DEF Pins
<1>8. refcnt'[i] = refcnt[i] - 1 /\ \A j \in Bufs : j # i => refcnt'[j] = refcnt[j]
  BY <1>1, <1>2, <1>4, <1>5 DEF TypeOK
<1>9. refcnt'[i] = Cardinality(Users(i)') + Pins(i)'
  BY <1>2, <1>4, <1>6, <1>7, <1>8
<1>10. \A j \in Bufs : refcnt'[j] = Cardinality(Users(j)') + Pins(j)'
  BY <1>3, <1>6, <1>7, <1>8, <1>9
<1> QED  BY <1>6, <1>10 DEF RefCounted, Unique, Users, Pins

\* Steps that count nobody: sleep-locks, the disk, and the panic.
LEMMA CountOther ==
  ASSUME IInv, NEW p \in Procs,
         \/ \E b \in Blocks : BgetPanic(p, b)
         \/ AcquireSleep(p) \/ ReadDisk(p) \/ Bwrite(p) \/ ReleaseSleep(p)
  PROVE  RefCounted'
<1>1. TypeOK /\ RefCounted /\ UNCHANGED <<blockno, refcnt, logged, buf>>
  BY DEF IInv, BgetPanic, AcquireSleep, ReadDisk, Bwrite, ReleaseSleep, bufVars, diskVars
<1>2. \A q \in Procs : Using(q)' <=> Using(q)
  BY <1>1 DEF BgetPanic, AcquireSleep, ReadDisk, Bwrite, ReleaseSleep, Using, TypeOK
<1>3. \A j \in Bufs : Users(j)' = Users(j)
  BY <1>1, <1>2 DEF Users
<1> QED  BY <1>1, <1>3 DEF RefCounted, Users

\* A buffer bget may recycle has no user and is not the log's.
LEMMA NoUsers ==
  ASSUME TypeOK, RefCounted, NEW i \in Bufs, refcnt[i] = 0
  PROVE  blockno[i] \notin logged /\ \A q \in Procs : Using(q) => buf[q] # i
<1>1. refcnt[i] = Cardinality(Users(i)) + Pins(i) /\ Cardinality(Users(i)) \in Nat
      /\ \A q \in Users(i) : refcnt[i] >= 1
  BY Bounded DEF Pins
<1>2. blockno[i] \notin logged
  BY <1>1 DEF Pins
<1>3. Users(i) = {}
  BY <1>1
<1> QED  BY <1>2, <1>3 DEF Users

\* Two processes do not hold buffers of one block at once.
LEMMA OneHolder ==
  ASSUME RefCounted, InUse, NEW p \in Procs, NEW q \in Procs,
         {pc[p], pc[q]} \subseteq {"locked", "hold", "wrote", "unpin"}, blk[p] = blk[q]
  PROVE  p = q
<1>1. /\ buf[p] \in Bufs /\ buf[q] \in Bufs /\ blk[p] \in Blocks
      /\ blockno[buf[p]] = blk[p] /\ blockno[buf[q]] = blk[p]
      /\ owner[buf[p]] = p /\ owner[buf[q]] = q
  BY DEF InUse, Using
<1> QED  BY <1>1, CacheAssumption, CountedUsers DEF Unique

\* Every step keeps the buffers of their users.
LEMMA InUseStep ==
  ASSUME IInv, NEW p \in Procs
  PROVE  /\ \A b \in Blocks : BgetHit(p, b) \/ BgetRecycle(p, b) \/ BgetPanic(p, b) => InUse'
         /\ \A v \in Values : Modify(p, v) => InUse'
         /\ \/ AcquireSleep(p) \/ ReadDisk(p) \/ Bwrite(p) \/ Bunpin(p)
            \/ ReleaseSleep(p) \/ Drop(p)
            => InUse'
<1>1. TypeOK /\ RefCounted /\ InUse
  BY DEF IInv
<1>2. ASSUME NEW b \in Blocks, BgetHit(p, b) PROVE InUse'
  BY <1>1, <1>2 DEF BgetHit, InUse, Using, TypeOK
<1>3. ASSUME NEW b \in Blocks, BgetRecycle(p, b) PROVE InUse'
  <2>1. PICK i \in Bufs : /\ refcnt[i] = 0
                          /\ blockno' = [blockno EXCEPT ![i] = b]
                          /\ buf' = [buf EXCEPT ![p] = i]
    BY <1>1, <1>3, Zenon DEF BgetRecycle, Unused, TypeOK
  <2>2. \A q \in Procs : Using(q) => buf[q] # i
    BY <1>1, <2>1, NoUsers
  <2> QED  BY <1>1, <1>3, <2>1, <2>2 DEF BgetRecycle, InUse, Using, TypeOK
<1>4. ASSUME NEW b \in Blocks, BgetPanic(p, b) PROVE InUse'
  BY <1>1, <1>4 DEF BgetPanic, InUse, Using, bufVars
<1>5. ASSUME NEW v \in Values, Modify(p, v) PROVE InUse'
  BY <1>1, <1>5 DEF Modify, InUse, Using, TypeOK
<1>6. CASE AcquireSleep(p)
  BY <1>1, <1>6, CacheAssumption DEF AcquireSleep, InUse, Using, TypeOK, bufVars
<1>7. CASE ReadDisk(p)
  BY <1>1, <1>7 DEF ReadDisk, InUse, Using, TypeOK
<1>8. CASE Bwrite(p)
  BY <1>1, <1>8 DEF Bwrite, InUse, Using, TypeOK, bufVars
<1>9. CASE Bunpin(p)
  BY <1>1, <1>9 DEF Bunpin, InUse, Using, TypeOK
<1>10. CASE ReleaseSleep(p)
  BY <1>1, <1>10 DEF ReleaseSleep, InUse, Using, TypeOK, bufVars
<1>11. CASE Drop(p)
  BY <1>1, <1>11 DEF Drop, InUse, Using, TypeOK
<1> QED  BY <1>2, <1>3, <1>4, <1>5, <1>6, <1>7, <1>8, <1>9, <1>10, <1>11

\* The steps that move contents keep the last ones where Fresh says.
LEMMA FreshMove ==
  ASSUME IInv, NEW p \in Procs
  PROVE  /\ ReadDisk(p) \/ Bwrite(p) \/ Bunpin(p) => Fresh'
         /\ \A v \in Values : Modify(p, v) => Fresh'
<1>1. TypeOK /\ RefCounted /\ InUse /\ Fresh /\ Unique
  BY CountedUsers DEF IInv
<1>2. CASE ReadDisk(p)
  <2>1. PICK i \in Bufs : i = buf[p] /\ blockno[i] \in Blocks
    BY <1>1, <1>2 DEF ReadDisk, InUse, Using
  <2>2. ~valid[i] => blockno[i] \notin logged
    BY <1>1, <2>1, CacheAssumption DEF Fresh, Unique
  <2>3. data'[i] = latest[blockno[i]] /\ \A j \in Bufs : j # i => data'[j] = data[j]
    BY <1>1, <1>2, <2>1, <2>2 DEF ReadDisk, Fresh, TypeOK
  <2>4. valid' = [valid EXCEPT ![i] = TRUE] /\ UNCHANGED <<blockno, disk, latest, logged, blk, buf>>
        /\ pc' = [pc EXCEPT ![p] = "hold"]
    BY <1>2, <2>1 DEF ReadDisk, diskVars
  <2> QED  BY <1>1, <2>1, <2>3, <2>4 DEF Fresh, TypeOK
<1>3. CASE Bwrite(p)
  <2>1. PICK i \in Bufs, b \in Blocks : i = buf[p] /\ b = blk[p] /\ blockno[i] = b
    BY <1>1, <1>3 DEF Bwrite, InUse, Using
  <2>2. data[i] = latest[b] /\ b \in logged
    BY <1>1, <1>3, <2>1 DEF Bwrite, Fresh
  <2>3. disk'[b] = latest[b] /\ \A c \in Blocks : c # b => disk'[c] = disk[c]
    BY <1>1, <1>3, <2>1, <2>2 DEF Bwrite, TypeOK
  <2>4. UNCHANGED <<blockno, valid, data, latest, logged, blk, buf>>
        /\ pc' = [pc EXCEPT ![p] = "unpin"] /\ pc[p] = "hold"
    BY <1>3 DEF Bwrite, bufVars
  <2>5. \A c \in Blocks : disk[c] = latest[c] => disk'[c] = latest[c]
    BY <2>3
  <2>6. \A q \in Procs : pc[q] = "unpin" => blk[q] \in Blocks
    BY <1>1 DEF InUse, Using
  <2> QED  BY <1>1, <2>1, <2>2, <2>3, <2>4, <2>5, <2>6 DEF Fresh, TypeOK
<1>4. CASE Bunpin(p)
  <2>1. PICK b \in Blocks : b = blk[p]
    BY <1>1, <1>4 DEF Bunpin, InUse, Using
  <2>2. \A q \in Procs : pc[q] = "unpin" /\ q # p => blk[q] # b
    BY <1>1, <1>4, <2>1, OneHolder DEF Bunpin
  <2>3. disk[b] = latest[b]
    BY <1>1, <1>4, <2>1 DEF Bunpin, Fresh
  <2>4. UNCHANGED <<blockno, valid, data, disk, latest, blk, buf>>
        /\ pc' = [pc EXCEPT ![p] = "wrote"] /\ pc[p] = "unpin" /\ logged' = logged \ {b}
    BY <1>4, <2>1 DEF Bunpin
  <2> QED  BY <1>1, <2>1, <2>2, <2>3, <2>4 DEF Fresh, TypeOK
<1>5. ASSUME NEW v \in Values, Modify(p, v) PROVE Fresh'
  <2>1. PICK i \in Bufs, b \in Blocks : i = buf[p] /\ b = blk[p] /\ blockno[i] = b
    BY <1>1, <1>5 DEF Modify, InUse, Using
  <2>2. \A j \in Bufs : blockno[j] = b => j = i
    BY <1>1, <2>1, CacheAssumption DEF Unique
  <2>3. \A q \in Procs : pc[q] = "unpin" => blk[q] # b /\ blk[q] \in Blocks
    BY <1>1, <1>5, <2>1, OneHolder DEF Modify, InUse, Using
  <2>4. valid[i] /\ pc[p] = "hold" /\ UNCHANGED <<blockno, valid, disk, blk, buf>>
        /\ pc' = [pc EXCEPT ![p] = "wrote"] /\ logged' = logged \cup {b}
    BY <1>1, <1>5, <2>1 DEF Modify, Fresh
  <2>5. data'[i] = v /\ latest'[b] = v
        /\ (\A j \in Bufs : j # i => data'[j] = data[j])
        /\ \A c \in Blocks : c # b => latest'[c] = latest[c]
    BY <1>1, <1>5, <2>1 DEF Modify, TypeOK
  <2>6. \A j \in Bufs : valid'[j] => blockno'[j] \in Blocks /\ data'[j] = latest'[blockno'[j]]
    BY <1>1, <2>1, <2>2, <2>4, <2>5 DEF Fresh
  <2>7. \A c \in Blocks \ logged' : disk'[c] = latest'[c]
    BY <1>1, <2>4, <2>5 DEF Fresh
  <2>8. \A c \in logged' : \E j \in Bufs : blockno'[j] = c /\ valid'[j]
    BY <1>1, <2>1, <2>4 DEF Fresh
  <2>9. \A q \in Procs :
          /\ pc'[q] \in {"hold", "wrote", "unpin"} => valid'[buf'[q]]
          /\ pc'[q] = "unpin" => blk'[q] \in logged' /\ disk'[blk'[q]] = latest'[blk'[q]]
    BY <1>1, <2>1, <2>3, <2>4, <2>5 DEF Fresh, TypeOK
  <2> QED  BY <2>6, <2>7, <2>8, <2>9 DEF Fresh
<1> QED  BY <1>2, <1>3, <1>4, <1>5

\* The steps that move no contents: bget, sleep-locks, brelse.
LEMMA FreshKept ==
  ASSUME IInv, NEW p \in Procs
  PROVE  /\ \A b \in Blocks : BgetHit(p, b) \/ BgetRecycle(p, b) \/ BgetPanic(p, b) => Fresh'
         /\ AcquireSleep(p) \/ ReleaseSleep(p) \/ Drop(p) => Fresh'
<1>1. TypeOK /\ RefCounted /\ InUse /\ Fresh
  BY DEF IInv
<1>2. ASSUME NEW b \in Blocks, BgetRecycle(p, b) PROVE Fresh'
  <2>1. PICK i \in Bufs : /\ refcnt[i] = 0
                          /\ blockno' = [blockno EXCEPT ![i] = b]
                          /\ valid' = [valid EXCEPT ![i] = FALSE]
                          /\ buf' = [buf EXCEPT ![p] = i]
    BY <1>1, <1>2, Zenon DEF BgetRecycle, Unused, TypeOK
  <2>2. blockno[i] \notin logged /\ \A q \in Procs : Using(q) => buf[q] # i
    BY <1>1, <2>1, NoUsers
  <2>3. ~valid'[i] /\ \A j \in Bufs : j # i => valid'[j] = valid[j] /\ blockno'[j] = blockno[j]
    BY <1>1, <2>1 DEF TypeOK
  <2>4. UNCHANGED <<data, disk, latest, logged>> /\ pc' = [pc EXCEPT ![p] = "acquire"]
        /\ blk' = [blk EXCEPT ![p] = b]
    BY <1>2 DEF BgetRecycle, diskVars
  <2>5. \A c \in logged' : \E j \in Bufs : blockno'[j] = c /\ valid'[j]
    BY <1>1, <2>2, <2>3, <2>4 DEF Fresh
  <2>6. \A q \in Procs :
          /\ pc'[q] \in {"hold", "wrote", "unpin"} => valid'[buf'[q]]
          /\ pc'[q] = "unpin" => blk'[q] \in logged' /\ disk'[blk'[q]] = latest'[blk'[q]]
    BY <1>1, <2>1, <2>2, <2>3, <2>4 DEF Fresh, InUse, Using, TypeOK
  <2>7. \A j \in Bufs : valid'[j] => blockno'[j] \in Blocks /\ data'[j] = latest'[blockno'[j]]
    BY <1>1, <2>3, <2>4 DEF Fresh
  <2> QED  BY <1>1, <2>4, <2>5, <2>6, <2>7 DEF Fresh
<1>3. ASSUME \/ \E b \in Blocks : BgetHit(p, b) \/ BgetPanic(p, b)
             \/ AcquireSleep(p) \/ ReleaseSleep(p) \/ Drop(p)
      PROVE  Fresh'
  <2>1. UNCHANGED <<blockno, valid, data, disk, latest, logged>>
    BY <1>3 DEF BgetHit, BgetPanic, AcquireSleep, ReleaseSleep, Drop, bufVars, diskVars
  <2>2. \A q \in Procs : pc'[q] \in {"hold", "wrote", "unpin"} =>
          pc'[q] = pc[q] /\ buf'[q] = buf[q] /\ blk'[q] = blk[q]
    BY <1>1, <1>3 DEF BgetHit, BgetPanic, AcquireSleep, ReleaseSleep, Drop, TypeOK
  <2> QED  BY <1>1, <2>1, <2>2 DEF Fresh
<1> QED  BY <1>2, <1>3

-----------------------------------------------------------------------------
\* The inductive invariant of the cache, for any sizes.
THEOREM Invariant == Spec => []IInv
<1>1. IInv /\ [Next]_vars => IInv'
  <2> SUFFICES ASSUME IInv, [Next]_vars PROVE IInv'
    OBVIOUS
  <2>1. TypeOK'  BY TypeStep
  <2>2. CASE UNCHANGED vars
    <3>1. RefCounted'  BY <2>2 DEF vars, IInv, RefCounted, Using
    <3>2. InUse'  BY <2>2 DEF vars, IInv, InUse, Using
    <3>3. Fresh'  BY <2>2 DEF vars, IInv, Fresh
    <3> QED  BY <2>1, <3>1, <3>2, <3>3 DEF IInv
  <2>3. ASSUME NEW p \in Procs, NEW b \in Blocks,
               BgetHit(p, b) \/ BgetRecycle(p, b) \/ BgetPanic(p, b)
        PROVE  IInv'
    <3>1. RefCounted'  BY <2>3, CountHit, CountRecycle, CountOther
    <3>2. InUse' /\ Fresh'  BY <2>3, InUseStep, FreshKept
    <3> QED  BY <2>1, <3>1, <3>2 DEF IInv
  <2>4. ASSUME NEW p \in Procs, NEW v \in Values, Modify(p, v) PROVE IInv'
    BY <2>1, <2>4, CountPin, InUseStep, FreshMove DEF IInv
  <2>5. ASSUME NEW p \in Procs, ReadDisk(p) \/ Bwrite(p) \/ Bunpin(p) PROVE IInv'
    BY <2>1, <2>5, CountOther, CountPin, InUseStep, FreshMove DEF IInv
  <2>6. ASSUME NEW p \in Procs, AcquireSleep(p) \/ ReleaseSleep(p) \/ Drop(p) PROVE IInv'
    BY <2>1, <2>6, CountOther, CountDrop, InUseStep, FreshKept DEF IInv
  <2> QED  BY <2>2, <2>3, <2>4, <2>5, <2>6 DEF Next
<1> QED  BY <1>1, InitIInv, PTL DEF Spec

\* One buffer per block, and a refcnt that counts the users and the log's pin
\* and never wraps around: bget, bpin, bunpin and brelse.
THEOREM RefCountedAlways == Spec => []RefCounted
<1>1. IInv => RefCounted  BY DEF IInv
<1> QED  BY <1>1, Invariant, PTL

\* Whoever is between bread and brelse holds the lock of the buffer of the
\* block it asked for: bget cannot recycle the buffer under it.
THEOREM BufferKeptAlways == Spec => []BufferKept
<1>1. IInv => BufferKept  BY DEF IInv, InUse, Using, BufferKept
<1> QED  BY <1>1, Invariant, PTL

\* bread returns what was last written to the block, installed or not.
THEOREM ReadsLatestAlways == Spec => []ReadsLatest
<1>1. ASSUME IInv, NEW p \in Procs, pc[p] = "hold"
      PROVE  data[buf[p]] = latest[blk[p]]
  <2>1. buf[p] \in Bufs /\ blockno[buf[p]] = blk[p]
    BY <1>1 DEF IInv, InUse, Using
  <2>2. valid[buf[p]]
    BY <1>1 DEF IInv, Fresh
  <2> QED  BY <1>1, <2>1, <2>2 DEF IInv, Fresh
<1>2. IInv => ReadsLatest
  BY <1>1 DEF ReadsLatest
<1> QED  BY <1>2, Invariant, PTL
=============================================================================
