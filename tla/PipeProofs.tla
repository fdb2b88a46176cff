----------------------------- MODULE PipeProofs -----------------------------
(***************************************************************************)
(* For any numbers of readers and writers and any ring size: the types,    *)
(* mutual exclusion, no lost wakeup, and no use of a freed pipe; and, for  *)
(* any counter width that is a multiple of the ring size, that the pipe is *)
(* a bounded first-in first-out queue.                                     *)
(***************************************************************************)
EXTENDS Pipe, SequenceTheorems, TLAPS

\* The provers a leaf is tried with unless it names its own.
USE ZenonT(4), SMT, Z3T(20), ZenonT(40)

\* Unsigned increment stays in range, and an index is inside the ring.
LEMMA IncRange == \A c \in 0..(WIDTH - 1) : Inc(c) \in 0..(WIDTH - 1)
  BY SizeAssumption DEF Inc

\* A counter modulo PIPESIZE is an index of the data array.
LEMMA IndexRange == \A c \in 0..(WIDTH - 1) : c % PIPESIZE \in 0..(PIPESIZE - 1)
  BY SizeAssumption

\* The initial state satisfies the invariant.
LEMMA InitIInv == Init => IInv
<1> SUFFICES ASSUME Init PROVE IInv
  OBVIOUS
<1>1. TypeOK
  BY SizeAssumption DEF Init, TypeOK
<1>2. LockHeld
  BY ProcsAssumption DEF Init, LockHeld, Inside
<1>3. Descriptors
  BY ProcsAssumption DEF Init, Descriptors, Procs
<1>4. Tested /\ Sleepers
  BY DEF Init, Tested, Sleepers, Procs
<1> QED  BY <1>1, <1>2, <1>3, <1>4 DEF IInv

\* Every step keeps the types.
LEMMA TypeStep == TypeOK /\ [Next]_vars => TypeOK'
<1> SUFFICES ASSUME TypeOK, [Next]_vars PROVE TypeOK'
  OBVIOUS
<1>1. CASE UNCHANGED vars
  BY <1>1 DEF vars, TypeOK
<1>2. ASSUME NEW p \in Procs, NEW k \in 0..MaxCount, Call(p, k) PROVE TypeOK'
  BY <1>2, SizeAssumption DEF TypeOK, Call, pipeVars
<1>3. ASSUME NEW p \in Procs, Acquire(p) PROVE TypeOK'
  BY <1>3 DEF TypeOK, Acquire, pipeVars
<1>4. ASSUME NEW p \in Procs, NEW b \in Bytes, WriteByte(p, b) PROVE TypeOK'
  <2>1. nwrite' \in 0..(WIDTH - 1)
    BY <1>4, IncRange DEF TypeOK, WriteByte
  <2>2. i' \in [Procs -> 0..MaxCount]
    <3>1. i \in [Procs -> 0..MaxCount] /\ n \in [Procs -> 0..MaxCount]  BY DEF TypeOK
    <3>2. i[p] + 1 \in 0..MaxCount  BY <1>4, <3>1, SizeAssumption DEF WriteByte
    <3> QED  BY <1>4, <3>1, <3>2 DEF WriteByte
  <2>3. data' \in [0..(PIPESIZE - 1) -> Bytes]
    BY <1>4, Zenon DEF TypeOK, WriteByte
  <2> QED  BY <1>4, <2>1, <2>2, <2>3 DEF TypeOK, WriteByte
<1>5. ASSUME NEW p \in Procs, NEW S, Return(p, S), UNCHANGED pipeVars PROVE TypeOK'
  <2>1. 0 \in 0..MaxCount  BY SizeAssumption
  <2> QED  BY <1>5, <2>1 DEF TypeOK, Return, Woken, pipeVars
<1>6. ASSUME NEW p \in Procs, WriteFull(p) \/ WriteSleep(p) \/ ReadEmpty(p)
                              \/ ReadSleep(p) \/ ReadReady(p) PROVE TypeOK'
  BY <1>6, Zenon DEF TypeOK, WriteFull, WriteSleep, ReadEmpty, ReadSleep, ReadReady,
              Woken, pipeVars
<1>7. ASSUME NEW p \in Procs, ReadByte(p) PROVE TypeOK'
  <2>1. nread' \in 0..(WIDTH - 1)
    BY <1>7, IncRange DEF TypeOK, ReadByte
  <2>2. i' \in [Procs -> 0..MaxCount]
    <3>1. i \in [Procs -> 0..MaxCount] /\ n \in [Procs -> 0..MaxCount]  BY DEF TypeOK
    <3>2. i[p] + 1 \in 0..MaxCount  BY <1>7, <3>1, SizeAssumption DEF ReadByte
    <3> QED  BY <1>7, <3>1, <3>2 DEF ReadByte
  <2>3. ch' \in Bytes
    BY <1>7, IndexRange DEF TypeOK, ReadByte
  <2> QED  BY <1>7, <2>1, <2>2, <2>3 DEF TypeOK, ReadByte
<1>8. ASSUME NEW p \in Procs, Close(p) \/ Kill(p) PROVE TypeOK'
  BY <1>8, Zenon DEF TypeOK, Close, CloseOther, PipeCloseWrite, PipeCloseRead, LastOf,
              Kill, Woken, pipeVars
<1> QED
  BY <1>1, <1>2, <1>3, <1>4, <1>5, <1>6, <1>7, <1>8
  DEF Next, Step, WriteDone, WriteFail, ReadFail, ReadDone

\* Who is inside holds pi->lock, and no one else is.
LEMMA LockStep == TypeOK /\ LockHeld /\ Tested /\ [Next]_vars => LockHeld'
<1> SUFFICES ASSUME TypeOK, LockHeld, Tested, [Next]_vars PROVE LockHeld'
  OBVIOUS
<1> USE DEF LockHeld, Inside
<1>a. pc \in [Procs -> {"idle", "lock", "loop", "copy", "full", "empty", "asleep"}]
  BY DEF TypeOK
<1>1. CASE UNCHANGED vars
  BY <1>1 DEF vars
<1>2. ASSUME NEW p \in Procs, NEW k \in 0..MaxCount, Call(p, k) PROVE LockHeld'
  BY <1>2, <1>a DEF Call
<1>3. ASSUME NEW p \in Procs, Acquire(p) PROVE LockHeld'
  BY <1>3, <1>a, ProcsAssumption DEF Acquire
<1>4. ASSUME NEW p \in Procs, NEW S, pc[p] \in Inside, Return(p, S) PROVE LockHeld'
  BY <1>4, <1>a, ProcsAssumption DEF Return, Woken
<1>5. ASSUME NEW p \in Procs, WriteFull(p) \/ ReadEmpty(p) \/ ReadReady(p) PROVE LockHeld'
  BY <1>5, <1>a DEF WriteFull, ReadEmpty, ReadReady
<1>6. ASSUME NEW p \in Procs, WriteSleep(p) \/ ReadSleep(p) PROVE LockHeld'
  BY <1>6, <1>a, ProcsAssumption DEF WriteSleep, ReadSleep, Woken
<1>7. ASSUME NEW p \in Procs, ReadByte(p) \/ \E b \in Bytes : WriteByte(p, b) PROVE LockHeld'
  BY <1>7 DEF ReadByte, WriteByte
<1>8. ASSUME NEW p \in Procs, Close(p) \/ Kill(p) PROVE LockHeld'
  BY <1>8, <1>a DEF Close, CloseOther, PipeCloseWrite, PipeCloseRead, Kill, Woken
<1> QED
  BY <1>1, <1>2, <1>3, <1>4, <1>5, <1>6, <1>7, <1>8
  DEF Next, Step, WriteDone, WriteFail, ReadFail, ReadDone

\* A call keeps its descriptor, and an end is open as long as one is.
LEMMA DescriptorsStep == TypeOK /\ Descriptors /\ [Next]_vars => Descriptors'
<1> SUFFICES ASSUME TypeOK, Descriptors, [Next]_vars PROVE Descriptors'
  OBVIOUS
<1> USE DEF Descriptors
<1>a. pc \in [Procs -> {"idle", "lock", "loop", "copy", "full", "empty", "asleep"}]
  BY DEF TypeOK
<1>1. CASE UNCHANGED vars
  BY <1>1 DEF vars
<1>2. ASSUME NEW p \in Procs, NEW k \in 0..MaxCount, Call(p, k) PROVE Descriptors'
  BY <1>2, <1>a DEF Call, pipeVars
<1>3. ASSUME NEW p \in Procs, Acquire(p) PROVE Descriptors'
  BY <1>3, <1>a DEF Acquire, pipeVars
<1>4. ASSUME NEW p \in Procs, NEW S, Return(p, S), UNCHANGED pipeVars PROVE Descriptors'
  BY <1>4, <1>a DEF Return, Woken, pipeVars
<1>5. ASSUME NEW p \in Procs, WriteFull(p) \/ ReadEmpty(p) \/ ReadReady(p) PROVE Descriptors'
  BY <1>5, <1>a DEF WriteFull, ReadEmpty, ReadReady, pipeVars
<1>6. ASSUME NEW p \in Procs, WriteSleep(p) \/ ReadSleep(p) PROVE Descriptors'
  BY <1>6, <1>a DEF WriteSleep, ReadSleep, Woken, pipeVars
<1>7. ASSUME NEW p \in Procs, ReadByte(p) \/ \E b \in Bytes : WriteByte(p, b) PROVE Descriptors'
  BY <1>7 DEF ReadByte, WriteByte
<1>8. ASSUME NEW p \in Procs, CloseOther(p) PROVE Descriptors'
  BY <1>8, ProcsAssumption DEF CloseOther, pipeVars, Procs
<1>9. ASSUME NEW p \in Procs, PipeCloseWrite(p) PROVE Descriptors'
  BY <1>9, <1>a, ProcsAssumption DEF PipeCloseWrite, LastOf, Woken
<1>10. ASSUME NEW p \in Procs, PipeCloseRead(p) PROVE Descriptors'
  BY <1>10, <1>a, ProcsAssumption DEF PipeCloseRead, LastOf, Woken
<1>11. ASSUME NEW p \in Procs, Kill(p) PROVE Descriptors'
  BY <1>11, <1>a DEF Kill, Woken, pipeVars
<1> QED
  BY <1>1, <1>2, <1>3, <1>4, <1>5, <1>6, <1>7, <1>8, <1>9, <1>10, <1>11
  DEF Next, Step, Close, WriteDone, WriteFail, ReadFail, ReadDone

\* Between the test and the sleep nothing changes: only the holder of
\* pi->lock moves the counters or closes an end.
LEMMA TestedStep == TypeOK /\ LockHeld /\ Tested /\ [Next]_vars => Tested'
<1> SUFFICES ASSUME TypeOK, LockHeld, Tested, [Next]_vars PROVE Tested'
  OBVIOUS
<1> USE DEF Tested
<1>a. pc \in [Procs -> {"idle", "lock", "loop", "copy", "full", "empty", "asleep"}]
  BY DEF TypeOK
<1>b. ASSUME UNCHANGED <<nread, nwrite, readopen, writeopen>>
      PROVE Full' = Full /\ Empty' = Empty
  BY <1>b DEF Full, Empty
<1>1. CASE UNCHANGED vars
  BY <1>1, <1>b DEF vars
<1>2. ASSUME NEW p \in Procs, NEW k \in 0..MaxCount, Call(p, k) PROVE Tested'
  BY <1>2, <1>a, <1>b DEF Call, pipeVars
<1>3. ASSUME NEW p \in Procs, Acquire(p) PROVE Tested'
  BY <1>3, <1>a, <1>b DEF Acquire, pipeVars
<1>4. ASSUME NEW p \in Procs, NEW S, Return(p, S), UNCHANGED pipeVars PROVE Tested'
  BY <1>4, <1>a, <1>b DEF Return, Woken, pipeVars
<1>5. ASSUME NEW p \in Procs, WriteFull(p) \/ ReadEmpty(p) \/ ReadReady(p) PROVE Tested'
  BY <1>5, <1>a, <1>b DEF WriteFull, ReadEmpty, ReadReady, pipeVars
<1>6. ASSUME NEW p \in Procs, WriteSleep(p) \/ ReadSleep(p) PROVE Tested'
  BY <1>6, <1>a, <1>b DEF WriteSleep, ReadSleep, Woken, pipeVars
<1>7. ASSUME NEW p \in Procs, ReadByte(p) \/ \E b \in Bytes : WriteByte(p, b) PROVE Tested'
  <2>1. pc[p] \in {"loop", "copy"} /\ pc' = pc
    BY <1>7 DEF ReadByte, WriteByte
  <2>2. \A q \in Procs : pc[q] \notin {"full", "empty"}
    BY <2>1 DEF LockHeld, Inside
  <2> QED  BY <2>1, <2>2
<1>8. ASSUME NEW p \in Procs, CloseOther(p) PROVE Tested'
  BY <1>8, <1>b DEF CloseOther, pipeVars
<1>9. ASSUME NEW p \in Procs, PipeCloseWrite(p) \/ PipeCloseRead(p) PROVE Tested'
  <2>1. \A q \in Procs : pc[q] \notin {"full", "empty", "copy"}
    BY <1>9, ProcsAssumption DEF PipeCloseWrite, PipeCloseRead, LastOf, LockHeld, Inside
  <2>2. \A q \in Procs : pc'[q] \notin {"full", "empty", "copy"}
    BY <1>9, <1>a, <2>1 DEF PipeCloseWrite, PipeCloseRead, Woken
  <2> QED  BY <2>2
<1>10. ASSUME NEW p \in Procs, Kill(p) PROVE Tested'
  BY <1>10, <1>a, <1>b DEF Kill, Woken, pipeVars
<1> QED
  BY <1>1, <1>2, <1>3, <1>4, <1>5, <1>6, <1>7, <1>8, <1>9, <1>10
  DEF Next, Step, Close, WriteDone, WriteFail, ReadFail, ReadDone

\* A sleeper has a reason to sleep, or the holder of pi->lock will wake it.
LEMMA SleepersStep == IInv /\ [Next]_vars => Sleepers'
<1> SUFFICES ASSUME IInv, [Next]_vars PROVE Sleepers'
  OBVIOUS
<1>a. TypeOK /\ LockHeld /\ Descriptors /\ Tested /\ Sleepers
  BY DEF IInv
<1>b. pc \in [Procs -> {"idle", "lock", "loop", "copy", "full", "empty", "asleep"}]
  BY <1>a DEF TypeOK
<1>c. ASSUME UNCHANGED <<nread, nwrite, readopen, writeopen>>
      PROVE Full' = Full /\ Empty' = Empty
  BY <1>c DEF Full, Empty
<1>d. Readers \subseteq Procs /\ Writers \subseteq Procs /\ Readers \cap Writers = {}
      /\ NoProc \notin Procs
  BY ProcsAssumption DEF Procs
<1>e. killed \in [Procs -> BOOLEAN]
  BY <1>a DEF TypeOK
<1> USE DEF Sleepers
<1>1. CASE UNCHANGED vars
  BY <1>1, <1>a, <1>c DEF vars
<1>2. ASSUME NEW p \in Procs, NEW k \in 0..MaxCount, Call(p, k) PROVE Sleepers'
  BY <1>2, <1>a, <1>b, <1>c, <1>d DEF Call, pipeVars
<1>3. ASSUME NEW p \in Procs, Acquire(p) PROVE Sleepers'
  BY <1>3, <1>a, <1>b, <1>c, <1>d DEF Acquire, pipeVars
<1>4. ASSUME NEW p \in Procs, NEW b \in Bytes, WriteByte(p, b) PROVE Sleepers'
  <2>1. holder = p /\ p \in Writers /\ holder' = p /\ pc' = pc /\ pc[p] = "loop"
    BY <1>4, <1>a DEF WriteByte, LockHeld, Inside
  <2>2. \A r \in Readers : pc[r] # "copy"
    BY <2>1, <1>a, <1>d DEF LockHeld, Inside
  <2>3. \A w \in Writers : pc[w] # "asleep"
    BY <1>4, <1>a, <2>2 DEF WriteByte
  <2> QED  BY <1>4, <1>a, <2>1, <2>3 DEF WriteByte
<1>5. ASSUME NEW p \in Procs, WriteDone(p) PROVE Sleepers'
  <2>1. \A q \in Readers : pc'[q] # "asleep"
    BY <1>5, <1>b, <1>d DEF WriteDone, Return, Woken
  <2>2. \A r \in Readers : pc[r] # "copy"
    BY <1>5, <1>a, <1>d DEF WriteDone, LockHeld, Inside
  <2>3. \A q \in Writers : pc'[q] = "asleep" => pc[q] = "asleep"
    BY <1>5, <1>b, <1>d DEF WriteDone, Return, Woken
  <2> QED  BY <1>5, <1>a, <1>c, <2>1, <2>2, <2>3 DEF WriteDone, pipeVars
<1>6. ASSUME NEW p \in Procs, WriteFail(p) PROVE Sleepers'
  <2>1. \A q \in Procs : pc'[q] = "asleep" => pc[q] = "asleep"
    BY <1>6, <1>b DEF WriteFail, Return, Woken
  <2>2. \A r \in Readers : pc[r] # "copy"
    BY <1>6, <1>a, <1>d DEF WriteFail, LockHeld, Inside
  <2>3. (\E r \in Readers : pc[r] = "asleep") => killed[p] /\ p \in Writers
    BY <1>6, <1>a, <1>d DEF WriteFail, Descriptors
  <2> QED  BY <1>6, <1>a, <1>c, <1>d, <2>1, <2>2, <2>3, Zenon DEF WriteFail, Return, pipeVars
<1>7. ASSUME NEW p \in Procs, WriteFull(p) \/ ReadEmpty(p) \/ ReadReady(p) PROVE Sleepers'
  <2>1. \A q \in Procs : (pc'[q] = "asleep" => pc[q] = "asleep")
                         /\ (pc[q] = "copy" => pc'[q] = "copy")
    BY <1>7, <1>b DEF WriteFull, ReadEmpty, ReadReady
  <2> QED  BY <1>7, <1>a, <1>c, <1>d, <2>1 DEF WriteFull, ReadEmpty, ReadReady, pipeVars
<1>8. ASSUME NEW p \in Procs, WriteSleep(p) PROVE Sleepers'
  <2>1. p \in Writers /\ Full /\ readopen
    BY <1>8, <1>a DEF WriteSleep, Tested
  <2>2. \A q \in Readers : pc'[q] # "asleep"
    BY <1>8, <1>b, <1>d, <2>1 DEF WriteSleep, Woken
  <2> QED  BY <1>8, <1>c, <2>1, <2>2, Zenon DEF WriteSleep, pipeVars
<1>9. ASSUME NEW p \in Procs, ReadFail(p) PROVE Sleepers'
  <2>1. \A q \in Procs : pc'[q] = "asleep" => pc[q] = "asleep"
    BY <1>9, <1>b DEF ReadFail, Return, Woken
  <2>2. \A r \in Readers : pc[r] # "copy"
    BY <1>9, <1>a, <1>d DEF ReadFail, LockHeld, Inside
  <2>3. Empty /\ writeopen /\ UNCHANGED pipeVars
    BY <1>9 DEF ReadFail
  <2>4. Empty' /\ writeopen' /\ readopen' = readopen /\ Full' = Full
    BY <2>3, <1>c DEF pipeVars
  <2> QED  BY <1>a, <1>d, <2>1, <2>2, <2>4
<1>10. ASSUME NEW p \in Procs, ReadSleep(p) PROVE Sleepers'
  <2>1. p \in Readers /\ Empty /\ writeopen /\ holder = p
    BY <1>10, <1>a DEF ReadSleep, Tested, LockHeld, Inside
  <2>2. \A r \in Readers : pc[r] # "copy"
    BY <1>10, <1>a, <1>d, <2>1 DEF ReadSleep, LockHeld, Inside
  <2>3. \A q \in Writers : pc'[q] = "asleep" => pc[q] = "asleep"
    BY <1>10, <1>b, <1>d, <2>1 DEF ReadSleep
  <2> QED  BY <1>10, <1>a, <1>c, <2>1, <2>2, <2>3 DEF ReadSleep, pipeVars
<1>11. ASSUME NEW p \in Procs, ReadByte(p) PROVE Sleepers'
  <2>1. p \in Readers /\ holder = p /\ pc' = pc /\ pc[p] = "copy"
    BY <1>11, <1>a DEF ReadByte, Tested, LockHeld, Inside
  <2> QED  BY <1>11, <1>a, <1>d, <2>1 DEF ReadByte
<1>12. ASSUME NEW p \in Procs, ReadDone(p) PROVE Sleepers'
  <2>1. \A q \in Writers : pc'[q] # "asleep"
    BY <1>12, <1>b, <1>d DEF ReadDone, Return, Woken
  <2>2. \A q \in Readers : pc'[q] = "asleep" => pc[q] = "asleep"
    BY <1>12, <1>b, <1>d DEF ReadDone, Return, Woken
  <2>3. p \in Readers /\ holder = p
    BY <1>12, <1>a DEF ReadDone, Tested, LockHeld, Inside
  <2>4. killed' = killed /\ UNCHANGED pipeVars
    BY <1>12 DEF ReadDone, Return
  <2>5. Empty' = Empty /\ writeopen' = writeopen
    BY <2>4, <1>c DEF pipeVars
  <2>6. holder \notin Writers
    BY <2>3, <1>d
  <2> QED  BY <1>a, <2>1, <2>2, <2>4, <2>5, <2>6
<1>13. ASSUME NEW p \in Procs, CloseOther(p) PROVE Sleepers'
  BY <1>13, <1>a, <1>c DEF CloseOther, pipeVars
<1>14. ASSUME NEW p \in Procs, PipeCloseWrite(p) PROVE Sleepers'
  <2>1. \A q \in Readers : pc'[q] # "asleep"
    BY <1>14, <1>b, <1>d DEF PipeCloseWrite, Woken
  <2>2. \A q \in Writers : pc[q] # "asleep" /\ pc'[q] # "asleep"
    BY <1>14, <1>a, <1>b, <1>d DEF PipeCloseWrite, LastOf, Woken, Descriptors
  <2> QED  BY <2>1, <2>2
<1>15. ASSUME NEW p \in Procs, PipeCloseRead(p) PROVE Sleepers'
  <2>1. \A q \in Writers : pc'[q] # "asleep"
    BY <1>15, <1>b, <1>d DEF PipeCloseRead, Woken
  <2>2. \A q \in Readers : pc[q] # "asleep" /\ pc'[q] # "asleep"
    BY <1>15, <1>a, <1>b, <1>d DEF PipeCloseRead, LastOf, Woken, Descriptors
  <2> QED  BY <2>1, <2>2
<1>16. ASSUME NEW p \in Procs, Kill(p) PROVE Sleepers'
  <2>1. \A q \in Procs : (pc'[q] = "asleep" => pc[q] = "asleep")
                         /\ (pc[q] = "copy" => pc'[q] = "copy")
    BY <1>16, <1>b DEF Kill, Woken
  <2>2. \A q \in Procs : killed[q] => killed'[q]
    BY <1>16, <1>e DEF Kill
  <2> QED  BY <1>16, <1>a, <1>c, <1>d, <2>1, <2>2 DEF Kill, pipeVars
<1> QED
  BY <1>1, <1>2, <1>3, <1>4, <1>5, <1>6, <1>7, <1>8, <1>9, <1>10, <1>11, <1>12,
     <1>13, <1>14, <1>15, <1>16
  DEF Next, Step, Close

\* The inductive invariant of pipe.c holds in every reachable state.
THEOREM PipeInvariance == Spec => []IInv
<1>1. IInv /\ [Next]_vars => IInv'
  BY TypeStep, LockStep, DescriptorsStep, TestedStep, SleepersStep DEF IInv
<1> QED  BY InitIInv, <1>1, PTL DEF Spec

\* No reader and no writer of a pipe sleeps on without a reason, whatever
\* the interleaving of calls, closes and kills.
THEOREM PipeNoLostWakeup == Spec => []NoLostWakeup
<1>1. IInv => NoLostWakeup
  <2> SUFFICES ASSUME IInv, holder = NoProc
               PROVE /\ (\E p \in Readers : pc[p] = "asleep") =>
                           writeopen /\ (Empty \/ \E w \in Writers : killed[w])
                     /\ (\E p \in Writers : pc[p] = "asleep") => Full /\ readopen
    BY DEF NoLostWakeup
  <2>1. \A p \in Procs : pc[p] # "copy"
    BY ProcsAssumption DEF IInv, LockHeld, Inside
  <2> QED  BY <2>1, ProcsAssumption DEF IInv, Sleepers, Procs
<1> QED  BY <1>1, PipeInvariance, PTL

\* pipeclose frees the pipe only when no call on it is in progress.
THEOREM PipeNoUseAfterFree == Spec => []NoUseAfterFree
<1>1. IInv => NoUseAfterFree
  BY DEF IInv, Descriptors, NoUseAfterFree, Procs
<1> QED  BY <1>1, PipeInvariance, PTL

-----------------------------------------------------------------------------
(***************************************************************************)
(* The ring with its free-running counters implements BoundedFifo.         *)
(***************************************************************************)

\* Quotient and remainder, and that they are unique.
LEMMA DivMod ==
  ASSUME NEW x \in Nat, NEW d \in Nat \ {0}
  PROVE  x \div d \in Nat /\ x % d \in 0..(d - 1) /\ x = (d * (x \div d)) + (x % d)
OBVIOUS

\* A remainder below the size is the remainder.
LEMMA OneRemainder ==
  ASSUME NEW d \in Nat \ {0}, NEW k \in Int, NEW r \in 0..(d - 1), NEW s \in 0..(d - 1),
         d * k = s - r
  PROVE  k = 0
<1>1. ~(k >= 1)
  <2>1. ASSUME k >= 1 PROVE d * k >= d  BY <2>1
  <2> QED  BY <2>1
<1>2. ~(k <= -1)
  <2>1. ASSUME k <= -1 PROVE d * k <= -d  BY <2>1
  <2> QED  BY <2>1
<1> QED  BY <1>1, <1>2

\* Counters that differ by a multiple of the ring's size index one byte.
LEMMA ModPlus ==
  ASSUME NEW x \in Nat, NEW w \in Nat, NEW d \in Nat \ {0}, w % d = 0
  PROVE  (x + w) % d = x % d
<1> DEFINE q == x \div d
           r == x % d
           m == w \div d
           t == (x + w) \div d
           s == (x + w) % d
           k == q + m - t
<1>1. q \in Nat /\ r \in 0..(d - 1) /\ x = (d * q) + r
  BY DivMod, Zenon
<1>2. m \in Nat /\ w = (d * m) + 0
  BY DivMod
<1>3. t \in Nat /\ s \in 0..(d - 1) /\ x + w = (d * t) + s
  <2>1. x + w \in Nat  OBVIOUS
  <2> QED  BY <2>1, DivMod, Zenon
<1> HIDE DEF q, r, m, t, s
<1>4. k \in Int /\ d * k = s - r
  BY <1>1, <1>2, <1>3
<1> HIDE DEF k
<1>5. k = 0
  BY <1>1, <1>3, <1>4, OneRemainder
<1>6. s = r
  BY <1>1, <1>3, <1>4, <1>5
<1> QED  BY <1>6 DEF s, r

\* Counters less than the ring's size apart index different bytes.
LEMMA ModDiffer ==
  ASSUME NEW x \in Nat, NEW y \in Nat, NEW d \in Nat \ {0}, x < y, y - x < d
  PROVE  x % d # y % d
<1> SUFFICES ASSUME x % d = y % d PROVE FALSE
  OBVIOUS
<1> DEFINE q == x \div d
           r == x % d
           t == y \div d
           k == t - q
<1>1. q \in Nat /\ r \in 0..(d - 1) /\ x = (d * q) + r
  BY DivMod, Zenon
<1>2. t \in Nat /\ y = (d * t) + r
  BY DivMod, Zenon
<1> HIDE DEF q, r, t
<1>4. k \in Int /\ d * k = y - x
  BY <1>1, <1>2
<1> HIDE DEF k
<1>5. ~(k >= 1)
  <2>1. ASSUME k >= 1 PROVE d * k >= d  BY <1>4, <2>1
  <2> QED  BY <1>4, <2>1
<1>6. ~(k <= 0)
  <2>1. ASSUME k <= 0 PROVE d * k <= 0  BY <1>4, <2>1
  <2> QED  BY <1>4, <2>1
<1> QED  BY <1>4, <1>5, <1>6

-----------------------------------------------------------------------------
\* The ring never holds more than it has room for.
Within == Count <= PIPESIZE

\* What the tests of the code say about the number of bytes in the ring.
LEMMA CountFacts ==
  ASSUME TypeOK, Within
  PROVE  /\ Count \in 0..PIPESIZE
         /\ Full <=> Count = PIPESIZE
         /\ Empty <=> Count = 0
         /\ nwrite = nread + Count \/ nwrite + WIDTH = nread + Count
BY SizeAssumption DEF TypeOK, Within, Count, Full, Empty

\* What a byte written does to the count.
LEMMA CountUp ==
  ASSUME TypeOK, Within, ~Full, nwrite' = Inc(nwrite), nread' = nread
  PROVE  Count' = Count + 1 /\ Count' <= PIPESIZE
<1>1. Count < PIPESIZE  BY CountFacts, SizeAssumption
<1> QED  BY <1>1, SizeAssumption DEF TypeOK, Count, Inc

\* The same for a byte read.
LEMMA CountDown ==
  ASSUME TypeOK, Within, ~Empty, nread' = Inc(nread), nwrite' = nwrite
  PROVE  Count' = Count - 1
BY SizeAssumption DEF TypeOK, Within, Count, Empty, Inc

-----------------------------------------------------------------------------
\* The bytes in the ring, as the refinement mapping has them.
Ring == [k \in 1..Count |-> data[(nread + k - 1) % PIPESIZE]]

\* They are a sequence.
LEMMA RingOf ==
  ASSUME NEW c \in Nat, NEW r \in Nat, NEW f \in [0..(PIPESIZE - 1) -> Bytes]
  PROVE  LET s == [k \in 1..c |-> f[(r + k - 1) % PIPESIZE]]
         IN  /\ s \in Seq(Bytes) /\ Len(s) = c
             /\ \A k \in 1..c : s[k] = f[(r + k - 1) % PIPESIZE]
<1> DEFINE s == [k \in 1..c |-> f[(r + k - 1) % PIPESIZE]]
<1>1. \A k \in 1..c : f[(r + k - 1) % PIPESIZE] \in Bytes
  <2> SUFFICES ASSUME NEW k \in 1..c PROVE f[(r + k - 1) % PIPESIZE] \in Bytes
    BY Zenon
  <2>1. r + k - 1 \in Nat  OBVIOUS
  <2>2. (r + k - 1) % PIPESIZE \in 0..(PIPESIZE - 1)  BY <2>1, DivMod, SizeAssumption
  <2> QED  BY <2>2
<1>2. s \in [1..c -> Bytes]  BY <1>1, Zenon
<1>3. \A k \in 1..c : s[k] = f[(r + k - 1) % PIPESIZE]
  OBVIOUS
<1> HIDE DEF s
<1>4. s \in Seq(Bytes)  BY <1>2, SeqDef
<1>5. Len(s) = c  BY <1>2, <1>4, LenProperties
<1>6. s \in Seq(Bytes) /\ Len(s) = c /\ \A k \in 1..c : s[k] = f[(r + k - 1) % PIPESIZE]
  BY <1>3, <1>4, <1>5
<1> QED  BY <1>6 DEF s

\* The contents of the pipe are such a sequence.
LEMMA RingSeq ==
  ASSUME TypeOK, Within
  PROVE  /\ Ring \in Seq(Bytes) /\ Len(Ring) = Count
         /\ \A k \in 1..Count : Ring[k] = data[(nread + k - 1) % PIPESIZE]
<1>1. Count \in Nat /\ nread \in Nat /\ data \in [0..(PIPESIZE - 1) -> Bytes]
  BY CountFacts, SizeAssumption DEF TypeOK
<1> HIDE DEF Count
<1> QED  BY <1>1, RingOf, Zenon DEF Ring

\* pipewrite appends a byte: its place is the one after the last byte, across
\* the wrap-around of nwrite, and is none of the places in use.
LEMMA RingWrite ==
  ASSUME TypeOK, TypeOK', Within, NEW p \in Procs, NEW b \in Bytes, WriteByte(p, b)
  PROVE  Within' /\ Ring' = Append(Ring, b)
<1>1. ~Full /\ nwrite' = Inc(nwrite) /\ nread' = nread
      /\ data' = [data EXCEPT ![nwrite % PIPESIZE] = b]
  BY DEF WriteByte
<1>2. Count' = Count + 1 /\ Within' /\ Count \in 0..PIPESIZE /\ Count < PIPESIZE
  BY <1>1, CountUp, CountFacts, SizeAssumption DEF Within
<1>3. nread + Count \in Nat /\ nread \in Nat /\ nwrite \in Nat
      /\ nwrite % PIPESIZE \in 0..(PIPESIZE - 1)
  <2>1. nread \in 0..(WIDTH - 1) /\ nwrite \in 0..(WIDTH - 1)  BY DEF TypeOK
  <2>2. nwrite % PIPESIZE \in 0..(PIPESIZE - 1)  BY <2>1, IndexRange
  <2>3. nread \in Nat /\ nwrite \in Nat  BY <2>1
  <2> QED  BY <1>2, <2>2, <2>3, SizeAssumption
<1>4. (nread + Count) % PIPESIZE = nwrite % PIPESIZE
  <2>1. CASE nwrite = nread + Count  BY <2>1
  <2>2. CASE nwrite + WIDTH = nread + Count
    <3>1. (nwrite + WIDTH) % PIPESIZE = nwrite % PIPESIZE
      BY <1>3, ModPlus, SizeAssumption, Zenon
    <3> QED  BY <2>2, <3>1
  <2> QED  BY <2>1, <2>2, CountFacts
<1>5. ASSUME NEW k \in 1..Count
      PROVE  data'[(nread + k - 1) % PIPESIZE] = data[(nread + k - 1) % PIPESIZE]
  <2>1. nread + k - 1 \in Nat /\ nread + k - 1 < nread + Count
    BY <1>2, <1>3, SizeAssumption
  <2>2. (nread + Count) - (nread + k - 1) < PIPESIZE
    BY <1>2, <1>3, SizeAssumption
  <2>3. (nread + k - 1) % PIPESIZE # nwrite % PIPESIZE
    BY <1>3, <1>4, <2>1, <2>2, ModDiffer, SizeAssumption, ZenonT(30)
  <2> QED  BY <1>1, <2>3 DEF TypeOK
<1>6. data'[(nread + Count) % PIPESIZE] = b
  BY <1>1, <1>3, <1>4 DEF TypeOK
<1>7. /\ Ring \in Seq(Bytes) /\ Len(Ring) = Count
      /\ \A k \in 1..Count : Ring[k] = data[(nread + k - 1) % PIPESIZE]
  BY RingSeq
<1>8. /\ Ring' \in Seq(Bytes) /\ Len(Ring') = Count + 1
      /\ \A k \in 1..(Count + 1) : Ring'[k] = data'[(nread + k - 1) % PIPESIZE]
  <2>1. Count' \in Nat /\ nread' \in Nat /\ data' \in [0..(PIPESIZE - 1) -> Bytes]
    BY <1>1, <1>2, <1>3, SizeAssumption DEF TypeOK
  <2>2. PICK c \in Nat, r \in Nat, f \in [0..(PIPESIZE - 1) -> Bytes] :
          c = Count' /\ r = nread' /\ f = data'
    BY <2>1
  <2>3. Ring' = [k \in 1..c |-> f[(r + k - 1) % PIPESIZE]]
    BY <2>2 DEF Ring
  <2>4. /\ Ring' \in Seq(Bytes) /\ Len(Ring') = c
        /\ \A k \in 1..c : Ring'[k] = f[(r + k - 1) % PIPESIZE]
    BY <2>3, RingOf, ZenonT(30)
  <2> QED  BY <1>1, <1>2, <2>2, <2>4
<1>9. /\ Append(Ring, b) \in Seq(Bytes) /\ Len(Append(Ring, b)) = Count + 1
      /\ \A k \in 1..Count : Append(Ring, b)[k] = Ring[k]
      /\ Append(Ring, b)[Count + 1] = b
  BY <1>2, <1>7
<1>10. \A k \in 1..(Count + 1) : Ring'[k] = Append(Ring, b)[k]
  <2> SUFFICES ASSUME NEW k \in 1..(Count + 1) PROVE Ring'[k] = Append(Ring, b)[k]
    BY Zenon
  <2>1. CASE k \in 1..Count  BY <1>5, <1>7, <1>8, <1>9, <2>1
  <2>2. CASE k = Count + 1
    <3>1. nread + k - 1 = nread + Count  BY <1>2, <1>3, <2>2
    <3> QED  BY <1>6, <1>8, <1>9, <2>2, <3>1
  <2>3. k \in 1..Count \/ k = Count + 1  BY <1>2, SizeAssumption
  <2> QED  BY <2>1, <2>2, <2>3, Zenon
<1> QED  BY <1>2, <1>8, <1>9, <1>10, SeqEqual

\* piperead takes the oldest byte, across the wrap-around of nread.
LEMMA RingRead ==
  ASSUME TypeOK, TypeOK', Within, NEW p \in Procs, ReadByte(p)
  PROVE  Within' /\ Ring # <<>> /\ ch' = Head(Ring) /\ Ring' = Tail(Ring)
<1>1. ~Empty /\ nread' = Inc(nread) /\ nwrite' = nwrite /\ data' = data
      /\ ch' = data[nread % PIPESIZE]
  BY DEF ReadByte
<1>2. Count' = Count - 1 /\ Within' /\ Count \in 1..PIPESIZE /\ nread \in Nat
  <2>1. Count' = Count - 1  BY <1>1, CountDown
  <2>2. Count \in 0..PIPESIZE /\ Count # 0  BY <1>1, CountFacts
  <2>3. nread \in Nat  BY DEF TypeOK
  <2> QED  BY <2>1, <2>2, <2>3, SizeAssumption DEF Within
<1>3. /\ Ring \in Seq(Bytes) /\ Len(Ring) = Count
      /\ \A k \in 1..Count : Ring[k] = data[(nread + k - 1) % PIPESIZE]
  BY RingSeq
<1>4. /\ Ring' \in Seq(Bytes) /\ Len(Ring') = Count - 1
      /\ \A k \in 1..(Count - 1) : Ring'[k] = data[(nread' + k - 1) % PIPESIZE]
  <2>1. Count' \in Nat /\ nread' \in Nat /\ data' \in [0..(PIPESIZE - 1) -> Bytes]
    BY <1>1, <1>2, SizeAssumption DEF TypeOK
  <2>2. PICK c \in Nat, r \in Nat, f \in [0..(PIPESIZE - 1) -> Bytes] :
          c = Count' /\ r = nread' /\ f = data'
    BY <2>1
  <2>3. Ring' = [k \in 1..c |-> f[(r + k - 1) % PIPESIZE]]
    BY <2>2 DEF Ring
  <2>4. /\ Ring' \in Seq(Bytes) /\ Len(Ring') = c
        /\ \A k \in 1..c : Ring'[k] = f[(r + k - 1) % PIPESIZE]
    BY <2>3, RingOf, Zenon
  <2> QED  BY <1>1, <1>2, <2>2, <2>4
<1>5. Ring # <<>> /\ Head(Ring) = Ring[1]
  BY <1>2, <1>3, SizeAssumption
<1>6. ch' = Head(Ring)
  <2>1. nread + 1 - 1 = nread /\ 1 \in 1..Count  BY <1>2, SizeAssumption
  <2> QED  BY <1>1, <1>3, <1>5, <2>1
<1>7. /\ Tail(Ring) \in Seq(Bytes) /\ Len(Tail(Ring)) = Count - 1
      /\ \A k \in 1..(Count - 1) : Tail(Ring)[k] = Ring[k + 1]
  BY <1>3, <1>5, HeadTailProperties
<1>8. ASSUME NEW k \in 1..(Count - 1)
      PROVE  (nread' + k - 1) % PIPESIZE = (nread + (k + 1) - 1) % PIPESIZE
  <2>1. CASE nread = WIDTH - 1
    <3>1. nread' + k - 1 = k - 1 /\ nread + (k + 1) - 1 = (k - 1) + WIDTH /\ k - 1 \in Nat
      BY <1>1, <1>2, <2>1, SizeAssumption DEF Inc
    <3>2. ((k - 1) + WIDTH) % PIPESIZE = (k - 1) % PIPESIZE
      BY <3>1, ModPlus, SizeAssumption, Zenon
    <3> QED  BY <3>1, <3>2
  <2>2. CASE nread # WIDTH - 1
    <3>1. nread' + k - 1 = nread + (k + 1) - 1
      BY <1>1, <1>2, <2>2, SizeAssumption DEF Inc
    <3> QED  BY <3>1
  <2> QED  BY <2>1, <2>2
<1>9. \A k \in 1..(Count - 1) : Ring'[k] = Tail(Ring)[k]
  <2> SUFFICES ASSUME NEW k \in 1..(Count - 1) PROVE Ring'[k] = Tail(Ring)[k]
    BY Zenon
  <2>1. k + 1 \in 1..Count  BY <1>2
  <2> QED  BY <1>3, <1>4, <1>7, <1>8, <2>1
<1> QED  BY <1>2, <1>4, <1>5, <1>6, <1>7, <1>9, SeqEqual

\* Every step of the pipe is a step of the queue or leaves it alone.
LEMMA FifoStep ==
  ASSUME IInv, IInv', Within, [Next]_vars
  PROVE  Within' /\ [Fifo!Next]_(Fifo!vars)
<1>a. TypeOK /\ TypeOK' /\ Descriptors /\ Tested
  BY DEF IInv
<1>1. ASSUME UNCHANGED pipeVars PROVE Within' /\ UNCHANGED Fifo!vars
  BY <1>1 DEF pipeVars, Within, Count, Fifo!vars
<1>2. CASE UNCHANGED vars
  BY <1>1, <1>2 DEF vars, pipeVars
<1>3. ASSUME NEW p \in Procs, NEW b \in Bytes, WriteByte(p, b)
      PROVE  Within' /\ Fifo!Next
  <2>1. Within' /\ Ring' = Append(Ring, b)  BY <1>3, <1>a, RingWrite
  <2>2. Len(Ring) < PIPESIZE
    BY <1>3, <1>a, RingSeq, CountFacts, SizeAssumption DEF WriteByte
  <2>3. writeopen /\ UNCHANGED <<ch, writeopen, readopen>>
    BY <1>3, <1>a DEF WriteByte, Descriptors
  <2>4. Fifo!Put(b)  BY <2>1, <2>2, <2>3, Zenon DEF Fifo!Put, Ring
  <2> QED  BY <2>1, <2>4 DEF Fifo!Next
<1>4. ASSUME NEW p \in Procs, ReadByte(p) PROVE Within' /\ Fifo!Next
  <2>1. Within' /\ Ring # <<>> /\ ch' = Head(Ring) /\ Ring' = Tail(Ring)
    BY <1>4, <1>a, RingRead
  <2>2. readopen /\ UNCHANGED <<writeopen, readopen>>
    BY <1>4, <1>a DEF ReadByte, Descriptors, Tested
  <2>3. Fifo!Get  BY <2>1, <2>2, Zenon DEF Fifo!Get, Ring
  <2> QED  BY <2>1, <2>3 DEF Fifo!Next
<1>5. ASSUME NEW p \in Procs, PipeCloseWrite(p) \/ PipeCloseRead(p)
      PROVE  Within' /\ Fifo!Next
  <2>1. UNCHANGED <<data, nread, nwrite, ch>>
    BY <1>5 DEF PipeCloseWrite, PipeCloseRead
  <2>2. Within' /\ Ring' = Ring
    BY <2>1 DEF Within, Count, Ring
  <2>3. Fifo!CloseWrite \/ Fifo!CloseRead
    BY <1>5, <1>a, <2>1, <2>2
    DEF PipeCloseWrite, PipeCloseRead, LastOf, Descriptors, Fifo!CloseWrite, Fifo!CloseRead, Ring
  <2> QED  BY <2>2, <2>3 DEF Fifo!Next
<1>6. ASSUME NEW p \in Procs,
             \/ \E k \in 0..MaxCount : Call(p, k)
             \/ Acquire(p) \/ WriteDone(p) \/ WriteFail(p) \/ WriteFull(p) \/ WriteSleep(p)
             \/ ReadFail(p) \/ ReadEmpty(p) \/ ReadSleep(p) \/ ReadReady(p) \/ ReadDone(p)
             \/ CloseOther(p) \/ Kill(p)
      PROVE  UNCHANGED pipeVars
  BY <1>6 DEF Call, Acquire, WriteDone, WriteFail, WriteFull, WriteSleep, ReadFail,
              ReadEmpty, ReadSleep, ReadReady, ReadDone, CloseOther, Kill
<1> QED
  BY <1>1, <1>2, <1>3, <1>4, <1>5, <1>6 DEF Next, Step, Close

\* pipe.c implements the bounded queue: no byte is lost, duplicated,
\* overwritten or read out of order, for every ring size, across the
\* wrap-around of the index and of the counters.
THEOREM PipeIsFifo == Spec => IsFifo
<1>1. Init => Within /\ Fifo!Init
  <2> SUFFICES ASSUME Init PROVE Within /\ Fifo!Init
    OBVIOUS
  <2>1. Count = 0  BY DEF Init, Count
  <2>2. Ring = <<>>
    <3>1. 1..Count = {}  BY <2>1
    <3> QED  BY <3>1 DEF Ring
  <2> QED  BY <2>1, <2>2, SizeAssumption DEF Init, Within, Fifo!Init, Ring
<1>2. IInv /\ IInv' /\ Within /\ [Next]_vars => Within' /\ [Fifo!Next]_(Fifo!vars)
  BY FifoStep
<1> QED  BY <1>1, <1>2, PipeInvariance, PTL DEF Spec, IsFifo, Fifo!Spec
=============================================================================
