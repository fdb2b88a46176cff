----------------------------- MODULE LogProofs -----------------------------
(***************************************************************************)
(* Proofs about Log, for any number of processes and blocks and any sizes  *)
(* that satisfy the assumptions of that module: the space a call needs is  *)
(* reserved, and the log, with a crash at any disk write and during        *)
(* recovery, implements a disk with atomic transactions.                   *)
(***************************************************************************)
EXTENDS Log, FiniteSetTheorems, SequenceTheorems, TLAPS

\* The provers a leaf is tried with unless it names its own.
USE ZenonT(4), SMT, Z3T(20), ZenonT(40)

USE DEF BeforeCommit, Commits, Running

-----------------------------------------------------------------------------
(***************************************************************************)
(* Facts about the operators the invariant is made of.                     *)
(***************************************************************************)

\* The calls in progress and their reservation are finite sets.
LEMMA ActiveFinite ==
  /\ IsFiniteSet(Active)
  /\ Cardinality(Active) \in Nat
BY FiniteAssumption, FS_Subset, FS_CardinalityType DEF Active

\* The blocks all processes may reserve are finitely many.
LEMMA PairsFinite == IsFiniteSet(Procs \X (1..MAXOPBLOCKS))
<1>1. IsFiniteSet(1..MAXOPBLOCKS)
  BY SizesAssumption, FS_Interval
<1> QED
  BY <1>1, FiniteAssumption, FS_Product, Zenon

\* So are the ones begin_op has reserved.
LEMMA ReserveFinite ==
  /\ IsFiniteSet(Reserve)
  /\ Cardinality(Reserve) \in Nat
<1>1. Reserve \subseteq Procs \X (1..MAXOPBLOCKS)
  BY DEF Reserve
<1> QED
  BY <1>1, PairsFinite, FS_Subset, FS_CardinalityType

\* Space for whole calls is a natural number of blocks.
LEMMA NatProduct == \A a, b \in Nat : a * b \in Nat
OBVIOUS

\* The empty log is a sequence of blocks.
LEMMA EmptyLog == <<>> \in Seq(Blocks) /\ Len(<<>>) = 0
OBVIOUS

\* A set of blocks is finite.
LEMMA BlockSetFinite ==
  ASSUME NEW S \in SUBSET Blocks
  PROVE  IsFiniteSet(S) /\ Cardinality(S) \in Nat
BY FiniteAssumption, FS_Subset, FS_CardinalityType

-----------------------------------------------------------------------------
\* The initial state satisfies the inductive invariant.
LEMMA InitIInv == Init => IInv
<1> SUFFICES ASSUME Init PROVE IInv
  OBVIOUS
<1>1. TypeOK
  BY ValuesAssumption, SizesAssumption, EmptyLog, Zenon DEF Init, TypeOK, Contents
<1>2. Active = {}
  BY DEF Init, Active
<1>3. Counted
  BY <1>2, FS_EmptySet DEF Init, Counted
<1>4. CommitFlag /\ CommitAlone /\ Quiet /\ NoLostWakeup
  BY <1>2 DEF Init, CommitFlag, CommitAlone, Quiet, NoLostWakeup
<1>5. Budget
  BY FS_EmptySet, SizesAssumption DEF Init, Budget
<1>6. WroteLogged
  BY <1>2 DEF WroteLogged
<1>7. Cursor /\ SpaceReserved
  BY SizesAssumption DEF Init, Cursor, SpaceReserved
<1>8. LogIdle
  BY DEF Init, LogIdle
<1> QED
  BY <1>1, <1>3, <1>4, <1>5, <1>6, <1>7, <1>8 DEF IInv

\* Every step keeps the variables in their types.
LEMMA TypeStep == IInv /\ [Next]_vars => TypeOK'
<1> SUFFICES ASSUME IInv, [Next]_vars PROVE TypeOK'
  OBVIOUS
<1> USE DEF Contents, diskVars
<1>1. ASSUME NEW p \in Procs, CallBeginOp(p) PROVE TypeOK'
  BY <1>1 DEF IInv, TypeOK, CallBeginOp
<1>2. ASSUME NEW p \in Procs, BeginOpSleep(p) PROVE TypeOK'
  BY <1>2 DEF IInv, TypeOK, BeginOpSleep
<1>3. ASSUME NEW p \in Procs, BeginOp(p) PROVE TypeOK'
  BY <1>3 DEF IInv, TypeOK, BeginOp
<1>4. ASSUME NEW p \in Procs, NEW b \in Blocks, NEW v \in Values, Modify(p, b, v)
      PROVE  TypeOK'
  BY <1>4, Zenon DEF IInv, TypeOK, Modify
<1>5. ASSUME NEW p \in Procs, LogWrite(p) PROVE TypeOK'
  <2>1. want[p] \in Blocks
    BY <1>5 DEF IInv, Budget, LogWrite
  <2> QED
    BY <1>5, <2>1 DEF IInv, TypeOK, LogWrite
<1>6. ASSUME NEW p \in Procs, EndOp(p) PROVE TypeOK'
  <2>1. Cardinality(Active) > 0
    <3>1. p \in Active
      BY <1>6 DEF EndOp, Active
    <3> QED
      BY <3>1, ActiveFinite, FS_EmptySet
  <2>2. outstanding - 1 \in Nat
    <3>1. outstanding = Cardinality(Active)
      BY DEF IInv, Counted
    <3> QED
      BY <2>1, <3>1, ActiveFinite
  <2>3. pc' \in [Procs -> BeforeCommit \cup Commits]
    BY <1>6, Zenon DEF IInv, TypeOK, EndOp, Wakeup
  <2> QED
    BY <1>6, <2>2, <2>3, Zenon DEF IInv, TypeOK, EndOp
<1>7. ASSUME NEW p \in Procs, WriteLog(p) PROVE TypeOK'
  <2>1. tail \in Nat /\ tail < Len(lh) /\ lh \in Seq(Blocks)
    BY <1>7 DEF IInv, TypeOK, Cursor, WriteLog
  <2>2. lh[tail + 1] \in Blocks
    BY <2>1
  <2> QED
    <3>1. logblk' \in [1..LOGSIZE -> Contents]
      BY <1>7, <2>2, Zenon DEF IInv, TypeOK, WriteLog
    <3>2. tail' \in Nat /\ pc' \in [Procs -> BeforeCommit \cup Commits]
      BY <1>7, <2>1 DEF IInv, TypeOK, WriteLog
    <3> QED
      BY <1>7, <3>1, <3>2 DEF IInv, TypeOK, WriteLog
<1>8. ASSUME NEW p \in Procs, WriteHead(p) PROVE TypeOK'
  BY <1>8 DEF IInv, TypeOK, WriteHead
<1>9. ASSUME InstallBlock, tail < Len(lh)
      PROVE  disk' \in [Blocks -> Contents] /\ cache' \in [Blocks -> Contents]
  <2>1. tail + 1 \in 1..LOGSIZE
    <3>1. tail \in Nat /\ Len(lh) \in Nat /\ Len(lh) <= LOGSIZE
      <4>1. tail \in Nat /\ lh \in Seq(Blocks)
        BY Zenon DEF IInv, TypeOK
      <4>2. Len(lh) <= LOGSIZE
        BY DEF IInv, Cursor
      <4> QED
        BY <4>1, <4>2
    <3> QED
      BY <1>9, <3>1, SizesAssumption
  <2> QED
    BY <1>9, <2>1, Zenon DEF IInv, TypeOK, InstallBlock
<1>10. ASSUME NEW p \in Procs, InstallTrans(p) PROVE TypeOK'
  <2>1. InstallBlock /\ tail < Len(lh)
    BY <1>10 DEF IInv, Cursor, InstallTrans
  <2> QED
    BY <1>9, <1>10, <2>1 DEF IInv, TypeOK, InstallTrans
<1>11. ASSUME NEW p \in Procs, ClearLog(p) PROVE TypeOK'
  BY <1>11, EmptyLog DEF IInv, TypeOK, ClearLog
<1>12. ASSUME NEW p \in Procs, EndCommit(p) PROVE TypeOK'
  BY <1>12, Zenon DEF IInv, TypeOK, EndCommit, Wakeup
<1>13. CASE ReadHead
  BY <1>13, Zenon DEF IInv, TypeOK, ReadHead
<1>14. CASE RecoverInstall
  <2>1. InstallBlock /\ tail < Len(lh)
    BY <1>14 DEF IInv, Cursor, RecoverInstall
  <2> QED
    <3>1. disk' \in [Blocks -> Contents] /\ cache' \in [Blocks -> Contents]
      BY <1>9, <2>1
    <3>2. tail' \in Nat /\ sys' \in {"boot", "up", "rinst", "rclear"}
      <4>1. tail \in Nat /\ sys = "rinst"
        BY <1>14, Zenon DEF IInv, TypeOK, RecoverInstall
      <4> QED
        BY <1>14, <4>1 DEF RecoverInstall
    <3> QED
      BY <1>14, <3>1, <3>2, Zenon DEF IInv, TypeOK, RecoverInstall
<1>15. CASE RecoverClear
  BY <1>15, EmptyLog, Zenon DEF IInv, TypeOK, RecoverClear
<1>16. CASE Crash
  <2>1. disk' \in [Blocks -> Contents] /\ logblk' \in [1..LOGSIZE -> Contents]
    BY <1>16, Zenon DEF IInv, TypeOK, Crash
  <2> QED
    BY <1>16, <2>1, EmptyLog, Zenon DEF IInv, TypeOK, Crash
<1>17. CASE UNCHANGED vars
  BY <1>17, Zenon DEF IInv, TypeOK, vars
<1> QED
  BY <1>1, <1>2, <1>3, <1>4, <1>5, <1>6, <1>7, <1>8, <1>10, <1>11, <1>12,
     <1>13, <1>14, <1>15, <1>16, <1>17 DEF Next, Commit, Recover

-----------------------------------------------------------------------------
(***************************************************************************)
(* How the set of calls in progress changes.                               *)
(***************************************************************************)

\* begin_op adds the caller, end_op removes it, a crash removes everyone,
\* and no other step changes who is inside a call.
LEMMA ActiveStep ==
  ASSUME TypeOK, Quiet
  PROVE  /\ \A p \in Procs : BeginOp(p) => Active' = Active \cup {p} /\ p \notin Active
         /\ \A p \in Procs : EndOp(p) /\ ~committing
                                => Active' = Active \ {p} /\ p \in Active
         /\ \A p \in Procs :
              (CallBeginOp(p) \/ BeginOpSleep(p) \/ LogWrite(p) \/ Commit(p))
                => Active' = Active
         /\ \A p \in Procs, b \in Blocks, v \in Values :
              Modify(p, b, v) => Active' = Active
         /\ Recover => Active' = Active
         /\ Crash => Active' = {}
<1>1. ASSUME NEW p \in Procs, BeginOp(p)
      PROVE  Active' = Active \cup {p} /\ p \notin Active
  BY <1>1 DEF TypeOK, BeginOp, Active
<1>2. ASSUME NEW p \in Procs, EndOp(p), ~committing
      PROVE  Active' = Active \ {p} /\ p \in Active
  BY <1>2 DEF TypeOK, EndOp, Active, Wakeup
<1>3. ASSUME NEW p \in Procs, CallBeginOp(p) \/ BeginOpSleep(p) \/ LogWrite(p)
      PROVE  Active' = Active
  BY <1>3, Zenon DEF TypeOK, CallBeginOp, BeginOpSleep, LogWrite, Active
<1>4. ASSUME NEW p \in Procs, NEW b \in Blocks, NEW v \in Values, Modify(p, b, v)
      PROVE  Active' = Active
  BY <1>4, Zenon DEF TypeOK, Modify, Active
<1>5. ASSUME NEW p \in Procs, Commit(p)
      PROVE  Active' = Active
  BY <1>5, Zenon DEF TypeOK, Commit, WriteLog, WriteHead, InstallTrans, ClearLog,
              EndCommit, Wakeup, Active
<1>6. Recover => Active' = Active
  BY DEF Recover, ReadHead, RecoverInstall, RecoverClear, Active
<1>7. Crash => Active' = {}
  BY DEF Crash, Active
<1> QED
  BY <1>1, <1>2, <1>3, <1>4, <1>5, <1>6, <1>7

\* Every step keeps the control state consistent: the count of calls, the
\* committing flag, the exclusion of calls during a commit, and the absence
\* of a sleeper that nobody will wake.
ControlInv ==
  Counted /\ CommitFlag /\ CommitAlone /\ Quiet /\ LogIdle /\ NoLostWakeup

\* Every step keeps the part of the invariant about who is where.
LEMMA ControlStep == IInv /\ [Next]_vars => ControlInv'
<1> SUFFICES ASSUME IInv, [Next]_vars PROVE ControlInv'
  OBVIOUS
<1>a. /\ TypeOK /\ Counted /\ CommitFlag /\ CommitAlone /\ Quiet /\ LogIdle
      /\ NoLostWakeup /\ Cursor
  BY DEF IInv
<1> USE DEF ControlInv
<1>b. ASSUME Active' = Active, UNCHANGED outstanding PROVE Counted'
  BY <1>a, <1>b DEF Counted
<1>1. ASSUME NEW p \in Procs, CallBeginOp(p) PROVE ControlInv'
  <2>1. Active' = Active
    BY <1>a, <1>1, ActiveStep
  <2> QED
    BY <1>a, <1>b, <1>1, <2>1
       DEF TypeOK, CallBeginOp, CommitFlag, CommitAlone, Quiet, LogIdle, NoLostWakeup
<1>2. ASSUME NEW p \in Procs, BeginOpSleep(p) PROVE ControlInv'
  <2>1. Active' = Active
    BY <1>a, <1>2, ActiveStep
  <2>2. Active # {} \/ \E q \in Procs : pc[q] \in Commits
    <3> SUFFICES ASSUME Active = {}, \A q \in Procs : pc[q] \notin Commits
                 PROVE  FALSE
      OBVIOUS
    <3>1. outstanding = 0
      BY <1>a, FS_EmptySet DEF Counted
    <3>2. sys = "up" /\ Len(lh) + (outstanding + 1) * MAXOPBLOCKS > LOGSIZE
      BY <1>a, <1>2 DEF BeginOpSleep, MustWait, CommitFlag
    <3>3. \A q \in Procs : pc[q] \in {"user", "begin", "asleep", "fin"}
      BY <1>a, Zenon DEF TypeOK, Active
    <3>4. Len(lh) = 0
      BY <1>a, <3>2, <3>3 DEF LogIdle
    <3> QED
      BY <3>1, <3>2, <3>4, SizesAssumption
  <2> QED
    BY <1>a, <1>b, <1>2, <2>1, <2>2
       DEF TypeOK, BeginOpSleep, CommitFlag, CommitAlone, Quiet, LogIdle, NoLostWakeup
<1>3. ASSUME NEW p \in Procs, BeginOp(p) PROVE ControlInv'
  <2>1. Active' = Active \cup {p} /\ p \notin Active
    BY <1>a, <1>3, ActiveStep
  <2>2. Counted'
    BY <1>a, <1>3, <2>1, ActiveFinite, FS_AddElement, Zenon DEF Counted, BeginOp
  <2>3. \A q \in Procs : pc[q] \notin Commits
    BY <1>a, <1>3 DEF BeginOp, MustWait, CommitFlag
  <2>4. \A q \in Procs : pc'[q] \notin Commits
    BY <1>a, <1>3, <2>3 DEF TypeOK, BeginOp
  <2>5. CommitFlag' /\ CommitAlone' /\ NoLostWakeup' /\ Quiet'
    BY <1>a, <1>3, <2>1, <2>3, <2>4
       DEF BeginOp, MustWait, CommitFlag, CommitAlone, Quiet, NoLostWakeup
  <2>6. LogIdle'
    BY <1>a, <1>3 DEF TypeOK, BeginOp, LogIdle
  <2> QED
    BY <2>2, <2>5, <2>6
<1>4. ASSUME NEW p \in Procs, NEW b \in Blocks, NEW v \in Values, Modify(p, b, v)
      PROVE  ControlInv'
  <2>1. Active' = Active
    BY <1>a, <1>4, ActiveStep
  <2> QED
    BY <1>a, <1>b, <1>4, <2>1, ZenonT(30)
       DEF TypeOK, Modify, CommitFlag, CommitAlone, Quiet, LogIdle, NoLostWakeup
<1>5. ASSUME NEW p \in Procs, LogWrite(p) PROVE ControlInv'
  <2>1. Active' = Active
    BY <1>a, <1>5, ActiveStep
  <2> QED
    BY <1>a, <1>b, <1>5, <2>1
       DEF TypeOK, LogWrite, CommitFlag, CommitAlone, Quiet, LogIdle, NoLostWakeup
<1>6. ASSUME NEW p \in Procs, EndOp(p) PROVE ControlInv'
  <2>1. ~committing /\ \A q \in Procs : pc[q] \notin Commits
    <3>1. p \in Active
      BY <1>6 DEF EndOp, Active
    <3> QED
      BY <1>a, <3>1 DEF CommitFlag, CommitAlone
  <2>2. Active' = Active \ {p} /\ p \in Active
    BY <1>a, <1>6, <2>1, ActiveStep
  <2>3. Counted'
    BY <1>a, <1>6, <2>2, ActiveFinite, FS_RemoveElement, Zenon DEF Counted, EndOp
  <2>4. CASE outstanding' = 0
    <3>1. Active' = {}
      <4>1. IsFiniteSet(Active')
        BY <2>2, ActiveFinite, FS_RemoveElement
      <4> QED
        BY <2>3, <2>4, <4>1, FS_EmptySet, Zenon DEF Counted
    <3>2. /\ committing' = TRUE
          /\ pc' = [pc EXCEPT ![p] = IF lh = <<>> THEN "fin" ELSE "wlog"]
          /\ sys' = sys /\ lh' = lh /\ sys = "up"
      BY <1>6, <2>1, <2>4, Zenon DEF EndOp
    <3>3. pc'[p] \in Commits /\ \A q \in Procs \ {p} : pc'[q] \notin Commits
      BY <1>a, <2>1, <3>2, Zenon DEF TypeOK
    <3>4. CommitFlag' /\ CommitAlone' /\ NoLostWakeup' /\ Quiet'
      BY <3>1, <3>2, <3>3 DEF CommitFlag, CommitAlone, NoLostWakeup, Quiet
    <3>5. LogIdle'
      BY <1>a, <3>2, Zenon DEF TypeOK, LogIdle
    <3> QED
      BY <2>3, <3>4, <3>5
  <2>5. CASE outstanding' # 0
    <3>1. /\ committing' = committing
          /\ pc' = Wakeup([pc EXCEPT ![p] = "user"])
          /\ sys' = sys /\ sys = "up" /\ lh' = lh
      BY <1>6, <2>1, <2>5 DEF EndOp
    <3>2. \A q \in Procs : pc'[q] # "asleep" /\ pc'[q] \notin Commits
      BY <1>a, <2>1, <3>1, Zenon DEF TypeOK, Wakeup
    <3>3. Active' # {}
      BY <2>3, <2>5, FS_EmptySet DEF Counted
    <3>4. CommitFlag' /\ CommitAlone' /\ NoLostWakeup' /\ Quiet'
      BY <2>1, <3>1, <3>2, Zenon DEF CommitFlag, CommitAlone, NoLostWakeup, Quiet
    <3>5. LogIdle'
      BY <3>3 DEF LogIdle, Active
    <3> QED
      BY <2>3, <3>4, <3>5
  <2> QED
    BY <2>4, <2>5
<1>7. ASSUME NEW p \in Procs, WriteLog(p) \/ WriteHead(p) \/ InstallTrans(p)
      PROVE  ControlInv'
  <2>1. Active' = Active /\ outstanding' = outstanding
    BY <1>a, <1>7, ActiveStep DEF Commit, WriteLog, WriteHead, InstallTrans
  <2>2. /\ pc[p] \in {"wlog", "whead", "inst"}
        /\ pc'[p] \in {"wlog", "whead", "inst", "clear"}
        /\ \A q \in Procs \ {p} : pc'[q] = pc[q]
        /\ UNCHANGED <<committing, sys, lh>>
    BY <1>a, <1>7, Zenon DEF TypeOK, WriteLog, WriteHead, InstallTrans
  <2> QED
    BY <1>a, <1>b, <2>1, <2>2
       DEF CommitFlag, CommitAlone, Quiet, LogIdle, NoLostWakeup
<1>8. ASSUME NEW p \in Procs, ClearLog(p) PROVE ControlInv'
  <2>1. Active' = Active /\ outstanding' = outstanding
    BY <1>a, <1>8, ActiveStep, Zenon DEF Commit, ClearLog
  <2>2. /\ pc[p] = "clear" /\ pc'[p] = "fin"
        /\ \A q \in Procs \ {p} : pc'[q] = pc[q]
        /\ UNCHANGED <<committing, sys>> /\ lh' = <<>>
    BY <1>a, <1>8 DEF TypeOK, ClearLog
  <2> QED
    BY <1>a, <1>b, <2>1, <2>2
       DEF CommitFlag, CommitAlone, Quiet, LogIdle, NoLostWakeup
<1>9. ASSUME NEW p \in Procs, EndCommit(p) PROVE ControlInv'
  <2>1. Active' = Active /\ outstanding' = outstanding
    BY <1>a, <1>9, ActiveStep, Zenon DEF Commit, EndCommit
  <2>2. Active = {} /\ \A q \in Procs \ {p} : pc[q] \notin Commits
    BY <1>a, <1>9 DEF EndCommit, CommitAlone
  <2>3. \A q \in Procs : pc'[q] \in {"user", "begin"}
    BY <1>a, <1>9, <2>2 DEF TypeOK, EndCommit, Wakeup, Active
  <2>4. lh = <<>>
    <3>1. \A q \in Procs : pc[q] \in {"user", "begin", "asleep", "fin"}
      BY <1>a, <1>9, <2>2 DEF TypeOK, EndCommit, Active
    <3> QED
      BY <1>a, <1>9, <3>1 DEF EndCommit, LogIdle
  <2> QED
    BY <1>a, <1>b, <1>9, <2>1, <2>3, <2>4, ZenonT(30)
       DEF EndCommit, CommitFlag, CommitAlone, Quiet, LogIdle, NoLostWakeup
<1>10. CASE Recover
  <2>1. Active' = Active /\ outstanding' = outstanding
    BY <1>a, <1>10, ActiveStep DEF Recover, ReadHead, RecoverInstall, RecoverClear
  <2>2. sys # "up" /\ pc' = pc /\ committing' = committing
        /\ (sys' = "up" => lh' = <<>>)
    BY <1>10 DEF Recover, ReadHead, RecoverInstall, RecoverClear
  <2> QED
    BY <1>a, <1>b, <2>1, <2>2
       DEF CommitFlag, CommitAlone, Quiet, LogIdle, NoLostWakeup
<1>11. CASE Crash
  <2>1. Active' = {}
    BY <1>a, <1>11, ActiveStep
  <2> QED
    BY <1>11, <2>1, FS_EmptySet
       DEF Crash, Counted, CommitFlag, CommitAlone, Quiet, LogIdle, NoLostWakeup
<1>12. CASE UNCHANGED vars
  <2>1. Active' = Active
    BY <1>12 DEF vars, Active
  <2> QED
    BY <1>a, <1>b, <1>12, <2>1
       DEF vars, CommitFlag, CommitAlone, Quiet, LogIdle, NoLostWakeup
<1> QED
  BY <1>1, <1>2, <1>3, <1>4, <1>5, <1>6, <1>7, <1>8, <1>9, <1>10, <1>11, <1>12
     DEF Next, Commit

-----------------------------------------------------------------------------
(***************************************************************************)
(* Log space.                                                              *)
(***************************************************************************)

\* A step that leaves the calls in progress and what they wrote alone leaves
\* the reservation alone.
LEMMA ReserveSame ==
  ASSUME Active' = Active, wrote' = wrote
  PROVE  Reserve' = Reserve
BY DEF Reserve

\* A step that touches neither the log nor the calls in progress keeps
\* every fact about log space.
SpaceInv == Budget /\ WroteLogged /\ Cursor /\ SpaceReserved

\* Every step keeps each call within its budget and the log within the
\* space begin_op reserved.
LEMMA SpaceStep == IInv /\ [Next]_vars => SpaceInv'
<1> SUFFICES ASSUME IInv, [Next]_vars PROVE SpaceInv'
  OBVIOUS
<1>a. /\ TypeOK /\ Counted /\ CommitAlone /\ Quiet
      /\ Budget /\ WroteLogged /\ Cursor /\ SpaceReserved
  BY DEF IInv
<1>b. lh \in Seq(Blocks) /\ Len(lh) \in Nat /\ tail \in Nat /\ head \in Seq(Blocks)
  <2>1. lh \in Seq(Blocks) /\ tail \in Nat /\ head \in Seq(Blocks)
    BY <1>a, Zenon DEF TypeOK
  <2> QED
    BY <2>1
<1> USE DEF SpaceInv
<1>c. ASSUME Active' = Active, UNCHANGED <<wrote, lh, head>>, sys' = "up", sys = "up"
      PROVE  WroteLogged' /\ SpaceReserved'
  BY <1>a, <1>c, ReserveSame DEF WroteLogged, Logged, SpaceReserved
<1>1. ASSUME NEW p \in Procs, CallBeginOp(p) \/ BeginOpSleep(p) PROVE SpaceInv'
  <2>1. Active' = Active
    BY <1>a, <1>1, ActiveStep
  <2>2. WroteLogged' /\ SpaceReserved'
    BY <1>c, <1>1, <2>1 DEF CallBeginOp, BeginOpSleep, diskVars
  <2> QED
    BY <1>a, <1>1, <2>2, Zenon
       DEF TypeOK, CallBeginOp, BeginOpSleep, diskVars, Budget, Cursor
<1>2. ASSUME NEW p \in Procs, BeginOp(p) PROVE SpaceInv'
  <2>1. Active' = Active \cup {p} /\ p \notin Active
    BY <1>a, <1>2, ActiveStep
  <2>2. IsFiniteSet(Active') /\ Cardinality(Active') = outstanding + 1
    BY <1>a, <2>1, ActiveFinite, FS_AddElement DEF Counted
  <2>3. Cardinality(Active') * MAXOPBLOCKS \in Nat
    <3>0. outstanding \in Nat
      BY <1>a, Zenon DEF TypeOK
    <3>1. outstanding + 1 \in Nat /\ MAXOPBLOCKS \in Nat
      BY <3>0, SizesAssumption
    <3> QED
      BY <2>2, <3>1, NatProduct
  <2>4. Len(lh) + Cardinality(Active') * MAXOPBLOCKS <= LOGSIZE
    <3>1. ~(Len(lh) + (outstanding + 1) * MAXOPBLOCKS > LOGSIZE)
      BY <1>2 DEF BeginOp, MustWait
    <3> DEFINE x == Cardinality(Active') * MAXOPBLOCKS
    <3>2. ~(Len(lh) + x > LOGSIZE)
      BY <2>2, <3>1
    <3>3. x \in Nat
      BY <2>3
    <3> HIDE DEF x
    <3>4. Len(lh) + x <= LOGSIZE
      BY <1>b, <3>2, <3>3, SizesAssumption
    <3> QED
      BY <3>4 DEF x
  <2>5. Cardinality(Reserve') <= Cardinality(Active') * MAXOPBLOCKS
    <3>1. Reserve' \subseteq Active' \X (1..MAXOPBLOCKS)
      BY DEF Reserve
    <3>2. /\ IsFiniteSet(1..MAXOPBLOCKS)
          /\ Cardinality(1..MAXOPBLOCKS) = MAXOPBLOCKS
      BY SizesAssumption, FS_Interval
    <3>3. /\ IsFiniteSet(Active' \X (1..MAXOPBLOCKS))
          /\ Cardinality(Active' \X (1..MAXOPBLOCKS))
               = Cardinality(Active') * MAXOPBLOCKS
      BY <2>2, <3>2, FS_Product, Zenon
    <3> QED
      BY <3>1, <3>3, FS_Subset
  <2>6. Cardinality(Reserve') \in Nat
    <3>1. Reserve' \subseteq Procs \X (1..MAXOPBLOCKS)
      BY DEF Reserve
    <3> QED
      BY <3>1, PairsFinite, FS_Subset, FS_CardinalityType
  <2>7. SpaceReserved'
    <3>1. lh' = lh
      BY <1>2 DEF BeginOp
    <3> QED
      BY <1>b, <2>4, <2>5, <2>6, <2>3, <3>1, SizesAssumption DEF SpaceReserved
  <2>8. Budget'
    BY <1>a, <1>2, FS_EmptySet, SizesAssumption DEF TypeOK, Budget, BeginOp
  <2>9. WroteLogged'
    BY <1>a, <1>2, <2>1 DEF TypeOK, WroteLogged, Logged, BeginOp
  <2>10. Cursor'
    BY <1>a, <1>2 DEF TypeOK, Cursor, BeginOp, diskVars
  <2> QED
    BY <2>7, <2>8, <2>9, <2>10
<1>3. ASSUME NEW p \in Procs, NEW b \in Blocks, NEW v \in Values, Modify(p, b, v)
      PROVE  SpaceInv'
  <2>1. Active' = Active
    BY <1>a, <1>3, ActiveStep
  <2>2. WroteLogged' /\ SpaceReserved'
    BY <1>c, <1>3, <2>1, Zenon DEF Modify, diskVars
  <2> QED
    BY <1>a, <1>3, <2>2, Zenon DEF TypeOK, Modify, diskVars, Budget, Cursor
<1>4. ASSUME NEW p \in Procs, LogWrite(p) PROVE SpaceInv'
  <2> DEFINE w == want[p]
             c == Cardinality(wrote[p])
  <2>1. Active' = Active /\ p \in Active
    BY <1>a, <1>4, ActiveStep DEF LogWrite, Active
  <2>2. /\ w \in Blocks /\ (w \in wrote[p] \/ c < MAXOPBLOCKS) /\ c <= MAXOPBLOCKS
        /\ wrote[p] \in SUBSET Blocks /\ wrote[p] \subseteq Logged
    BY <1>a, <1>4, <2>1 DEF TypeOK, Budget, LogWrite, WroteLogged
  <2>3. IsFiniteSet(wrote[p]) /\ c \in Nat
    BY <2>2, BlockSetFinite
  <2>4. /\ wrote' = [wrote EXCEPT ![p] = @ \cup {w}]
        /\ lh' = IF w \in Logged THEN lh ELSE Append(lh, w)
        /\ pc' = [pc EXCEPT ![p] = "op"] /\ want' = [want EXCEPT ![p] = NoBlock]
        /\ UNCHANGED <<head, tail, sys>> /\ sys = "up"
    BY <1>4 DEF LogWrite, diskVars
  <2>5. wrote'[p] = wrote[p] \cup {w} /\ \A q \in Procs \ {p} : wrote'[q] = wrote[q]
    BY <1>a, <2>4, Zenon DEF TypeOK
  <2>6. Cardinality(wrote'[p]) = IF w \in wrote[p] THEN c ELSE c + 1
    BY <2>3, <2>5, FS_AddElement, ZenonT(30)
  <2>7. Logged' = Logged \cup {w}
    BY <1>b, <2>2, <2>4 DEF Logged
  <2>8. Budget'
    <3>1. Cardinality(wrote'[p]) <= MAXOPBLOCKS
      BY <2>2, <2>3, <2>6, SizesAssumption
    <3>2. pc'[p] = "op" /\ \A q \in Procs \ {p} : pc'[q] = pc[q] /\ want'[q] = want[q]
      BY <1>a, <2>4, Zenon DEF TypeOK
    <3> QED
      BY <1>a, <2>5, <3>1, <3>2, Zenon DEF Budget
  <2>9. WroteLogged'
    BY <1>a, <2>1, <2>5, <2>7 DEF WroteLogged, Active
  <2>10. SpaceReserved'
    <3>1. CASE w \in wrote[p]
      <4>1. wrote' = wrote /\ lh' = lh
        BY <1>a, <2>2, <2>4, <3>1, Zenon DEF TypeOK
      <4> QED
        BY <1>c, <2>1, <2>4, <4>1
    <3>2. CASE w \notin wrote[p]
      <4> DEFINE t == <<p, c + 1>>
      <4>1. c + 1 \in 1..MAXOPBLOCKS
        BY <2>2, <2>3, <3>2, SizesAssumption
      <4>2. t \in Reserve
        BY <2>1, <2>3, <4>1 DEF Reserve
      <4>3. Reserve' = Reserve \ {t}
        <5>1. \A k \in 1..MAXOPBLOCKS : k > Cardinality(wrote'[p])
                                          <=> k > c /\ k # c + 1
          BY <2>3, <2>6, <3>2
        <5>2. ASSUME NEW q \in Procs, NEW k \in 1..MAXOPBLOCKS
              PROVE  <<q, k>> \in Reserve' <=> <<q, k>> \in Reserve \ {t}
          BY <2>1, <2>5, <5>1 DEF Reserve
        <5> QED
          BY <5>2 DEF Reserve
      <4>4. Cardinality(Reserve') = Cardinality(Reserve) - 1
        BY <4>2, <4>3, ReserveFinite, FS_RemoveElement, Zenon
      <4>5. Len(lh') <= Len(lh) + 1 /\ Len(lh') \in Nat
        BY <1>b, <2>2, <2>4
      <4> QED
        BY <1>a, <1>b, <2>4, <4>4, <4>5, ReserveFinite, SizesAssumption
           DEF SpaceReserved
    <3> QED
      BY <3>1, <3>2
  <2>11. Cursor'
    <3>1. Len(lh') <= LOGSIZE
      <4>1. lh' \in Seq(Blocks) /\ Len(lh') \in Nat
        BY <1>b, <2>2, <2>4
      <4>2. Cardinality(Reserve') \in Nat
        <5>1. Reserve' \subseteq Procs \X (1..MAXOPBLOCKS)
          BY DEF Reserve
        <5> QED
          BY <5>1, PairsFinite, FS_Subset, FS_CardinalityType
      <4> QED
        BY <2>4, <2>10, <4>1, <4>2, SizesAssumption DEF SpaceReserved
    <3>2. \A q \in Procs : pc'[q] \notin Commits
      <4>1. \A q \in Procs : pc[q] \notin Commits
        BY <1>a, <2>1 DEF CommitAlone
      <4> QED
        BY <1>a, <2>4, <4>1, Zenon DEF TypeOK
    <3> QED
      BY <1>a, <2>4, <3>1, <3>2 DEF Cursor
  <2> QED
    BY <2>8, <2>9, <2>10, <2>11
<1>5. ASSUME NEW p \in Procs, EndOp(p) PROVE SpaceInv'
  <2>1. p \in Active /\ ~committing
    <3>1. p \in Active
      BY <1>5 DEF EndOp, Active
    <3>2. CommitFlag
      BY DEF IInv
    <3> QED
      BY <1>a, <3>1, <3>2 DEF CommitFlag, CommitAlone
  <2>2. Active' = Active \ {p}
    BY <1>a, <1>5, <2>1, ActiveStep
  <2>3. /\ \A q \in Procs \ {p} : wrote'[q] = wrote[q]
        /\ wrote'[p] = {}
        /\ UNCHANGED <<lh, head, sys, want>> /\ sys = "up"
    BY <1>a, <1>5 DEF TypeOK, EndOp, diskVars
  <2>4. WroteLogged'
    BY <1>a, <2>2, <2>3 DEF WroteLogged, Logged, Active
  <2>5. Reserve' \subseteq Reserve
    <3> SUFFICES ASSUME NEW t \in Reserve' PROVE t \in Reserve
      OBVIOUS
    <3>1. t[1] \in Active \ {p} /\ t[2] > Cardinality(wrote'[t[1]])
          /\ t \in Procs \X (1..MAXOPBLOCKS)
      BY <2>2 DEF Reserve
    <3> QED
      BY <2>3, <3>1 DEF Reserve
  <2>6. SpaceReserved'
    <3>1. Cardinality(Reserve') <= Cardinality(Reserve) /\ Cardinality(Reserve') \in Nat
      BY <2>5, ReserveFinite, FS_Subset, FS_CardinalityType
    <3> QED
      BY <1>a, <1>b, <2>3, <3>1, ReserveFinite, SizesAssumption DEF SpaceReserved
  <2>7. /\ \A q \in Procs \ {p} : pc'[q] = pc[q] \/ pc'[q] = "begin"
        /\ pc'[p] \in {"user", "fin", "wlog"}
        /\ pc'[p] = "wlog" => tail' = 0 /\ lh # <<>>
    BY <1>a, <1>5, <2>1 DEF TypeOK, EndOp, Wakeup
  <2>8. Budget'
    <3>1. Cardinality(wrote'[p]) <= MAXOPBLOCKS /\ pc'[p] # "add"
      BY <2>3, <2>7, FS_EmptySet, SizesAssumption
    <3> QED
      BY <1>a, <2>3, <2>7, <3>1, Zenon DEF Budget
  <2>9. Cursor'
    <3>1. \A q \in Procs : pc[q] \notin Commits
      BY <1>a, <2>1 DEF CommitAlone
    <3>2. lh # <<>> => Len(lh) > 0
      BY <1>b
    <3> QED
      BY <1>a, <2>3, <2>7, <3>1, <3>2 DEF Cursor
  <2> QED
    BY <2>4, <2>6, <2>8, <2>9
<1>6. ASSUME NEW p \in Procs, WriteLog(p) \/ WriteHead(p) \/ InstallTrans(p)
      PROVE  SpaceInv'
  <2>1. Active' = Active
    BY <1>a, <1>6, ActiveStep DEF Commit
  <2>2. /\ pc[p] \in {"wlog", "whead", "inst"} /\ pc'[p] # "add"
        /\ \A q \in Procs \ {p} : pc'[q] = pc[q]
        /\ UNCHANGED <<wrote, want, lh, sys>> /\ sys = "up" /\ head' \in {head, lh}
    BY <1>a, <1>6, Zenon DEF TypeOK, WriteLog, WriteHead, InstallTrans
  <2>3. WroteLogged' /\ SpaceReserved'
    BY <1>a, <2>1, <2>2, ReserveSame DEF WroteLogged, Logged, SpaceReserved
  <2>4. Budget'
    BY <1>a, <2>2 DEF Budget
  <2>5. \A q \in Procs \ {p} : pc[q] \notin Commits
    BY <1>a, <2>2 DEF CommitAlone
  <2>6. /\ pc'[p] \in {"wlog", "inst"} => tail' < Len(lh)
        /\ pc'[p] = "whead" => tail' = 0 /\ Len(lh) > 0
    <3>1. CASE WriteLog(p)
      BY <1>a, <1>b, <3>1 DEF TypeOK, WriteLog, Cursor
    <3>2. CASE WriteHead(p)
      BY <1>a, <1>b, <3>2 DEF TypeOK, WriteHead, Cursor
    <3>3. CASE InstallTrans(p)
      BY <1>a, <1>b, <3>3 DEF TypeOK, InstallTrans, Cursor
    <3> QED
      BY <1>6, <3>1, <3>2, <3>3
  <2>7. Cursor'
    BY <1>a, <2>2, <2>5, <2>6 DEF Cursor
  <2> QED
    BY <2>3, <2>4, <2>7
<1>d. ASSUME Active' = {}, lh' = <<>> PROVE WroteLogged' /\ SpaceReserved'
  <2>1. Reserve' = {}
    BY <1>d DEF Reserve
  <2> QED
    BY <1>d, <2>1, EmptyLog, FS_EmptySet, SizesAssumption DEF WroteLogged, SpaceReserved
<1>7. ASSUME NEW p \in Procs, ClearLog(p) PROVE SpaceInv'
  <2>1. Active' = {} /\ lh' = <<>> /\ head' = <<>>
    BY <1>a, <1>7, ActiveStep, Zenon DEF Commit, ClearLog, CommitAlone
  <2>2. \A q \in Procs \ {p} : pc[q] \notin Commits
    BY <1>a, <1>7 DEF ClearLog, CommitAlone
  <2>3. pc'[p] = "fin" /\ \A q \in Procs \ {p} : pc'[q] = pc[q]
    BY <1>a, <1>7 DEF TypeOK, ClearLog
  <2>4. Budget'
    BY <1>a, <1>7, <2>3 DEF ClearLog, Budget
  <2>5. Cursor'
    BY <1>7, <2>1, <2>2, <2>3, EmptyLog, SizesAssumption DEF ClearLog, Cursor
  <2> QED
    BY <1>d, <2>1, <2>4, <2>5
<1>8. ASSUME NEW p \in Procs, EndCommit(p) PROVE SpaceInv'
  <2>1. Active' = Active
    BY <1>a, <1>8, ActiveStep DEF Commit
  <2>2. WroteLogged' /\ SpaceReserved'
    BY <1>c, <1>8, <2>1 DEF EndCommit, diskVars
  <2>3. \A q \in Procs : pc'[q] = pc[q] \/ pc'[q] \in {"user", "begin"}
    BY <1>a, <1>8 DEF TypeOK, EndCommit, Wakeup
  <2> QED
    BY <1>a, <1>8, <2>2, <2>3, Zenon DEF EndCommit, diskVars, Budget, Cursor
<1>9. CASE Recover
  <2>1. Active' = {}
    BY <1>a, <1>9, ActiveStep
       DEF Recover, ReadHead, RecoverInstall, RecoverClear, Quiet, Active
  <2>2. pc' = pc /\ wrote' = wrote /\ want' = want /\ \A q \in Procs : pc[q] = "user"
    BY <1>a, <1>9 DEF Recover, ReadHead, RecoverInstall, RecoverClear, Quiet
  <2>3. WroteLogged' /\ Budget'
    BY <1>a, <2>1, <2>2 DEF WroteLogged, Budget
  <2>4. CASE ReadHead
    BY <1>a, <1>b, <2>2, <2>3, <2>4 DEF ReadHead, diskVars, Cursor, SpaceReserved
  <2>5. CASE RecoverInstall
    BY <1>a, <1>b, <2>2, <2>3, <2>5 DEF RecoverInstall, Cursor, SpaceReserved
  <2>6. CASE RecoverClear
    BY <1>a, <1>d, <2>1, <2>2, <2>3, <2>6, EmptyLog, SizesAssumption
       DEF RecoverClear, Cursor
  <2> QED
    BY <1>9, <2>4, <2>5, <2>6 DEF Recover
<1>10. CASE Crash
  <2>1. Active' = {}
    BY <1>a, <1>10, ActiveStep
  <2>2. lh' = <<>> /\ head' = head /\ sys' = "boot"
        /\ \A q \in Procs : pc'[q] = "user" /\ wrote'[q] = {}
    BY <1>10 DEF Crash
  <2>3. WroteLogged' /\ SpaceReserved'
    BY <1>d, <2>1, <2>2
  <2>4. Budget'
    <3>1. Cardinality({}) <= MAXOPBLOCKS
      BY FS_EmptySet, SizesAssumption
    <3> QED  BY <2>2, <3>1, Zenon DEF Budget
  <2>5. Cursor'
    BY <1>a, <2>2, EmptyLog, SizesAssumption DEF Cursor
  <2> QED
    BY <2>3, <2>4, <2>5
<1>11. CASE UNCHANGED vars
  <2>1. Active' = Active /\ Reserve' = Reserve /\ Logged' = Logged
    BY <1>11 DEF vars, Active, Reserve, Logged
  <2> QED
    BY <1>a, <1>11, <2>1 DEF vars, Budget, WroteLogged, Cursor, SpaceReserved
<1> QED
  BY <1>1, <1>2, <1>3, <1>4, <1>5, <1>6, <1>7, <1>8, <1>9, <1>10, <1>11
     DEF Next, Commit

-----------------------------------------------------------------------------
(***************************************************************************)
(* The theorems.                                                           *)
(***************************************************************************)

\* The inductive invariant holds in every reachable state of the log.
THEOREM Invariance == Spec => []IInv
<1>1. IInv /\ [Next]_vars => IInv'
  BY TypeStep, ControlStep, SpaceStep DEF IInv, ControlInv, SpaceInv
<1> QED
  BY InitIInv, <1>1, PTL DEF Spec

\* log.c keeps its variables in range, never lets the log outgrow the space
\* begin_op reserved, commits only when no call is in progress, and never
\* leaves a sleeper in begin_op that nobody will wake.
THEOREM LogSafety ==
  Spec => [](TypeOK /\ SpaceReserved /\ CommitAlone /\ NoLostWakeup)
<1>1. IInv => TypeOK /\ SpaceReserved /\ CommitAlone /\ NoLostWakeup
  BY DEF IInv
<1> QED
  BY Invariance, <1>1, PTL

\* begin_op and end_op never panic, and log_write does only when the calls in
\* progress have logged all that begin_op reserved for them, but for what the
\* log on disk lacks of the size of the header, whatever these sizes are.
THEOREM LogPanicsOnlyFull == Spec => []PanicsOnlyFull
<1>1. Init => PanicsOnlyFull
  BY DEF Init, PanicsOnlyFull
<1>2. IInv /\ PanicsOnlyFull /\ [Next]_vars => PanicsOnlyFull'
  <2> SUFFICES ASSUME IInv, PanicsOnlyFull, [Next]_vars PROVE PanicsOnlyFull'
    OBVIOUS
  <2>1. ASSUME NEW p \in Procs, NEW b \in Blocks, NEW v \in Values, Modify(p, b, v)
        PROVE  PanicsOnlyFull'
    <3>1. p \in Active /\ sys = "up"
      BY <2>1, Zenon DEF Modify, Active
    <3>2. outstanding >= 1
      <4>1. outstanding = Cardinality(Active)
        BY DEF IInv, Counted
      <4> QED
        BY <3>1, <4>1, ActiveFinite, FS_EmptySet
    <3>3. outstanding \in Nat /\ Len(lh) \in Nat
      <4>1. outstanding \in Nat /\ lh \in Seq(Blocks)
        BY Zenon DEF IInv, TypeOK
      <4> QED
        BY <4>1
    <3>4. Reserve' = Reserve
      <4>1. Active' = Active /\ wrote' = wrote
        BY <2>1 DEF Modify, Active, IInv, TypeOK
      <4> QED
        BY <4>1 DEF Reserve
    <3>5. CASE Len(lh) >= LOGSIZE \/ Len(lh) >= NLOG - 1
      <4>1. Len(lh) + Cardinality(Reserve) <= LOGSIZE
        BY <3>1 DEF IInv, SpaceReserved
      <4>2. Cardinality(Reserve) <= Missing
        BY <3>3, <3>5, <4>1, ReserveFinite, SizesAssumption DEF Missing
      <4>3. panic' = "too big"
        BY <2>1, <3>5 DEF Modify
      <4> QED
        BY <3>4, <4>2, <4>3 DEF PanicsOnlyFull, Missing
    <3>6. CASE ~(Len(lh) >= LOGSIZE \/ Len(lh) >= NLOG - 1)
      <4>1. ~(outstanding < 1)
        BY <3>2, <3>3
      <4> QED
        BY <2>1, <3>6, <4>1 DEF Modify, PanicsOnlyFull
    <3> QED
      BY <3>5, <3>6
  <2>2. ASSUME NEW p \in Procs, EndOp(p) PROVE PanicsOnlyFull'
    <3>1. panic = "none" /\ ~committing
      BY <2>2 DEF IInv, EndOp, CommitFlag, CommitAlone, Active
    <3> QED
      BY <2>2, <3>1 DEF EndOp, PanicsOnlyFull
  <2>3. ASSUME NEW p \in Procs,
               CallBeginOp(p) \/ BeginOpSleep(p) \/ BeginOp(p) \/ LogWrite(p) \/ Commit(p)
        PROVE  PanicsOnlyFull'
    <3>1. panic' = "none"
      BY <2>3 DEF CallBeginOp, BeginOpSleep, BeginOp, LogWrite, Commit, WriteLog,
                  WriteHead, InstallTrans, ClearLog, EndCommit
    <3> QED
      BY <3>1 DEF PanicsOnlyFull
  <2>4. CASE Recover
    <3>1. panic' = panic /\ pc' = pc /\ wrote' = wrote
      BY <2>4 DEF Recover, ReadHead, RecoverInstall, RecoverClear
    <3> QED
      BY <3>1 DEF PanicsOnlyFull, Reserve, Active, Missing
  <2>5. CASE Crash
    BY <2>5 DEF Crash, PanicsOnlyFull
  <2>6. CASE UNCHANGED vars
    BY <2>6 DEF vars, PanicsOnlyFull, Reserve, Active, Missing
  <2> QED
    BY <2>1, <2>2, <2>3, <2>4, <2>5, <2>6 DEF Next
<1> QED
  BY Invariance, <1>1, <1>2, PTL DEF Spec

-----------------------------------------------------------------------------
(***************************************************************************)
(* Crashes and recovery: the log implements AtomicDisk.                    *)
(***************************************************************************)
HIDE DEF BeforeCommit, Commits, Running

Distinct(s) == \A i, j \in 1..Len(s) : s[i] = s[j] => i = j

At(S) == \E p \in Procs : pc[p] \in S

\* A block whose cached contents the disk need not have.
Dirty(b) == b \in Logged \/ \E q \in Procs : want[q] = b

\* The committed header is the log in memory, from write_head to the second
\* one and while recovery installs it; no block is in it twice.
Header ==
  /\ Distinct(lh) /\ Distinct(head)
  /\ sys = "up" => head = IF At({"inst", "clear"}) THEN lh ELSE <<>>
  /\ sys \in {"rinst", "rclear"} => head = lh

\* What is not in the log is on disk; at boot the cache has nothing else.
Clean ==
  /\ \A q \in Procs : want[q] # NoBlock => pc[q] = "add"
  /\ sys # "up" => cache = disk
  /\ sys = "up" => \A b \in Blocks : Dirty(b) \/ cache[b] = disk[b]

\* The first blocks of the log have the cached contents (write_log), and the
\* first blocks of the log are installed (install_trans).
Copied ==
  /\ At({"wlog"}) => \A i \in 1..tail : logblk[i] = cache[lh[i]]
  /\ At({"whead", "inst", "clear"}) => \A i \in 1..Len(lh) : logblk[i] = cache[lh[i]]

Installed ==
  /\ sys = "rinst" \/ At({"inst"}) => \A i \in 1..tail : disk[lh[i]] = logblk[i]
  /\ sys = "rclear" \/ At({"clear"}) => \A i \in 1..Len(lh) : disk[lh[i]] = logblk[i]

DataInv == Header /\ Clean /\ Copied /\ Installed

-----------------------------------------------------------------------------
\* Recovered, as a function of what it is made of.
Overlay(h, l, d) ==
  [b \in Blocks |-> IF \E i \in 1..Len(h) : h[i] = b
                      THEN l[CHOOSE i \in 1..Len(h) : h[i] = b] ELSE d[b]]

\* The overlay is c if c has the logged contents where the header says so and
\* those of the disk elsewhere.
LEMMA OverlayIs ==
  ASSUME NEW h, NEW l, NEW d, NEW c \in [Blocks -> Contents],
         \A i \in 1..Len(h) : l[i] = c[h[i]],
         \A b \in Blocks : (\E i \in 1..Len(h) : h[i] = b) \/ d[b] = c[b]
  PROVE  Overlay(h, l, d) = c
<1>1. ASSUME NEW b \in Blocks PROVE Overlay(h, l, d)[b] = c[b]
  <2>1. CASE \E i \in 1..Len(h) : h[i] = b
    <3> DEFINE k == CHOOSE i \in 1..Len(h) : h[i] = b
    <3>1. k \in 1..Len(h) /\ h[k] = b  BY <2>1
    <3>2. Overlay(h, l, d)[b] = l[k]  BY <2>1 DEF Overlay
    <3> QED  BY <3>1, <3>2
  <2>2. CASE ~ \E i \in 1..Len(h) : h[i] = b
    BY <2>2 DEF Overlay
  <2> QED  BY <2>1, <2>2
<1> QED  BY <1>1 DEF Overlay

\* It does not see what the header covers.
LEMMA OverlaySame ==
  ASSUME NEW h, NEW l, NEW d, NEW e,
         \A b \in Blocks : (\E i \in 1..Len(h) : h[i] = b) \/ d[b] = e[b]
  PROVE  Overlay(h, l, d) = Overlay(h, l, e)
BY DEF Overlay

\* What a restart finds is the header on disk overlaid on the home blocks.
LEMMA RecoveredIs == Recovered = Overlay(head, logblk, disk)
                     /\ Recovered' = Overlay(head', logblk', disk')
BY DEF Recovered, Overlay

\* With no committed log a restart finds the disk.
LEMMA OverlayEmpty ==
  ASSUME NEW l, NEW d \in [Blocks -> Contents]
  PROVE  Overlay(<<>>, l, d) = d
<1>1. Len(<<>>) = 0 /\ \A i \in 1..0 : FALSE  BY EmptyLog
<1> QED  BY <1>1, OverlayIs

-----------------------------------------------------------------------------
\* The lengths of the two headers are numbers.
LEMMA Lengths ==
  ASSUME TypeOK
  PROVE  lh \in Seq(Blocks) /\ Len(lh) \in Nat /\ Len(head) \in Nat /\ tail \in Nat
<1>1. lh \in Seq(Blocks) /\ head \in Seq(Blocks) /\ tail \in Nat  BY Zenon DEF TypeOK
<1> QED  BY <1>1, LenProperties

\* Who commits is alone: nobody has a block in hand.
LEMMA Alone ==
  ASSUME IInv, NEW p \in Procs, pc[p] \in Commits
  PROVE  /\ sys = "up" /\ Active = {}
         /\ \A q \in Procs \ {p} : pc[q] \in {"user", "begin", "asleep"}
<1>1. TypeOK /\ CommitAlone /\ Quiet  BY DEF IInv
<1>2. sys = "up" /\ Active = {} /\ \A q \in Procs \ {p} : pc[q] \notin Commits
  BY <1>1 DEF CommitAlone, Quiet, Commits
<1> QED  BY <1>1, <1>2, Zenon DEF TypeOK, Active, BeforeCommit, Commits

\* While a call is in progress nobody commits.
LEMMA NoCommit ==
  ASSUME IInv, NEW p \in Active
  PROVE  sys = "up" /\ ~committing /\ \A q \in Procs : pc[q] \notin Commits
<1>1. CommitAlone /\ Quiet /\ CommitFlag  BY DEF IInv
<1>2. p \in Procs /\ pc[p] \in {"op", "add"}  BY DEF Active
<1> QED  BY <1>1, <1>2 DEF CommitAlone, CommitFlag, Quiet

\* The abstract disk does not see a step that leaves its parts alone.
LEMMA Unseen ==
  ASSUME UNCHANGED <<disk, logblk, head, cache, sys>>, Active' = Active
  PROVE  UNCHANGED Abstract!vars
BY DEF Abstract!vars, Recovered

-----------------------------------------------------------------------------
\* begin_op, and sleeping in it.
LEMMA StepBegin ==
  ASSUME IInv, DataInv, NEW p \in Procs,
         CallBeginOp(p) \/ BeginOpSleep(p) \/ BeginOp(p)
  PROVE  DataInv' /\ [Abstract!Next]_(Abstract!vars)
<1>1. TypeOK /\ Quiet /\ Header /\ Clean /\ Copied /\ Installed
  BY DEF IInv, DataInv
<1>2. UNCHANGED <<disk, logblk, head, cache, lh, want, tail, sys>>
  BY DEF CallBeginOp, BeginOpSleep, BeginOp, diskVars
<1>3. \A q \in Procs : /\ pc[q] \in Commits \/ pc'[q] \in Commits => pc'[q] = pc[q]
                       /\ pc[q] = "add" => pc'[q] = "add"
  BY <1>1, Zenon DEF CallBeginOp, BeginOpSleep, BeginOp, TypeOK, Commits
<1>4. \A S \in SUBSET Commits : At(S)' = At(S)
  BY <1>3 DEF At
<1>5. DataInv'
  BY <1>1, <1>2, <1>3, <1>4 DEF DataInv, Header, Clean, Copied, Installed, Commits, Dirty, Logged
<1>6. [Abstract!Next]_(Abstract!vars)
  <2>1. CASE BeginOp(p)
    <3>1. Active' = Active \cup {p} /\ p \notin Active  BY <1>1, <2>1, ActiveStep
    <3>2. Recovered' = Recovered  BY <1>2 DEF Recovered
    <3>3. Abstract!Begin(p)  BY <1>2, <3>1, <3>2 DEF Abstract!Begin
    <3> QED  BY <3>3 DEF Abstract!Next
  <2>2. CASE CallBeginOp(p) \/ BeginOpSleep(p)
    <3>1. Active' = Active  BY <1>1, <2>2, ActiveStep
    <3> QED  BY <1>2, <3>1, Unseen
  <2> QED  BY <2>1, <2>2
<1> QED  BY <1>5, <1>6

\* The change of a block, and its addition to the log.
LEMMA StepModify ==
  ASSUME IInv, DataInv, NEW p \in Procs, NEW b \in Blocks, NEW v \in Values, Modify(p, b, v)
  PROVE  DataInv' /\ [Abstract!Next]_(Abstract!vars)
<1>1. TypeOK /\ Quiet /\ Header /\ Clean
  BY DEF IInv, DataInv
<1>2. UNCHANGED <<disk, logblk, head, lh, tail, sys>> /\ cache' = [cache EXCEPT ![b] = v]
      /\ want' = [want EXCEPT ![p] = b] /\ pc' = [pc EXCEPT ![p] = "add"]
      /\ pc[p] = "op" /\ p \in Active
  BY Zenon DEF Modify, diskVars, Active
<1>3. sys = "up" /\ \A q \in Procs : pc[q] \notin Commits
  BY <1>2, NoCommit
<1>4. \A q \in Procs : pc'[q] \notin Commits
  BY <1>1, <1>2, <1>3, Zenon DEF TypeOK, Commits
<1>5. \A S \in SUBSET Commits : ~At(S) /\ ~At(S)'
  BY <1>3, <1>4 DEF At
<1>6. Header' /\ Copied' /\ Installed'
  BY <1>1, <1>2, <1>3, <1>5 DEF Header, Copied, Installed, Commits
<1>7. Clean'
  <2>1. \A q \in Procs : want'[q] # NoBlock => pc'[q] = "add"
    BY <1>1, <1>2, Zenon DEF Clean, TypeOK
  <2>2. \A c \in Blocks : Dirty(c)' \/ cache'[c] = disk'[c]
    <3> SUFFICES ASSUME NEW c \in Blocks PROVE Dirty(c)' \/ cache'[c] = disk'[c]
      OBVIOUS
    <3>1. CASE c = b  BY <1>1, <1>2, <3>1, Zenon DEF Dirty, TypeOK
    <3>2. CASE c # b
      <4>1. cache'[c] = cache[c]  BY <1>1, <1>2, <3>2, Zenon DEF TypeOK
      <4>2. want[p] = NoBlock  BY <1>1, <1>2 DEF Clean
      <4>3. Dirty(c) => Dirty(c)'
        BY <1>1, <1>2, <4>2, ValuesAssumption, Zenon DEF Dirty, Logged, TypeOK
      <4> QED  BY <1>1, <1>2, <1>3, <4>1, <4>3 DEF Clean
    <3> QED  BY <3>1, <3>2
  <2> QED  BY <1>2, <1>3, <2>1, <2>2 DEF Clean
<1>8. Abstract!Write(p, b, v)
  <2>1. Active' = Active  BY <1>1, ActiveStep
  <2>2. Recovered' = Recovered  BY <1>2 DEF Recovered
  <2> QED  BY <1>2, <1>3, <2>1, <2>2 DEF Abstract!Write
<1> QED  BY <1>6, <1>7, <1>8 DEF DataInv, Abstract!Next

\* log_write: absorption keeps the block numbers in the log distinct.
LEMMA StepLogWrite ==
  ASSUME IInv, DataInv, NEW p \in Procs, LogWrite(p)
  PROVE  DataInv' /\ [Abstract!Next]_(Abstract!vars)
<1>1. TypeOK /\ Quiet /\ Header /\ Clean /\ Budget
  BY DEF IInv, DataInv
<1>2. UNCHANGED <<disk, logblk, head, cache, tail, sys>> /\ pc[p] = "add"
      /\ want' = [want EXCEPT ![p] = NoBlock] /\ pc' = [pc EXCEPT ![p] = "op"]
      /\ lh' = (IF want[p] \in Logged THEN lh ELSE Append(lh, want[p])) /\ p \in Active
  BY DEF LogWrite, diskVars, Active
<1>3. sys = "up" /\ \A q \in Procs : pc[q] \notin Commits
  BY <1>2, NoCommit
<1>4. \A q \in Procs : pc'[q] \notin Commits
  BY <1>1, <1>2, <1>3, Zenon DEF TypeOK, Commits
<1>5. \A S \in SUBSET Commits : ~At(S) /\ ~At(S)'
  BY <1>3, <1>4 DEF At
<1>6. want[p] \in Blocks /\ lh \in Seq(Blocks) /\ Len(lh) \in Nat
  BY <1>1, <1>2, Lengths DEF Budget
<1>7. Distinct(lh') /\ Logged \subseteq Logged' /\ want[p] \in Logged'
  <2>1. CASE want[p] \in Logged
    BY <1>1, <1>2, <2>1 DEF Header, Logged
  <2>2. CASE want[p] \notin Logged
    <3>1. /\ lh' = Append(lh, want[p]) /\ Len(lh') = Len(lh) + 1
          /\ \A i \in 1..Len(lh) : lh'[i] = lh[i]
          /\ lh'[Len(lh) + 1] = want[p]
      BY <1>2, <1>6, <2>2
    <3>2. \A i \in 1..Len(lh) : lh[i] # want[p]
      BY <2>2 DEF Logged
    <3>3. \A i \in 1..Len(lh') : i \in 1..Len(lh) \/ i = Len(lh) + 1
      BY <1>6, <3>1
    <3>4. Distinct(lh')
      BY <1>1, <3>1, <3>2, <3>3 DEF Distinct, Header
    <3>5. Len(lh) + 1 \in 1..Len(lh') /\ \A i \in 1..Len(lh) : i \in 1..Len(lh')
      BY <1>6, <3>1
    <3> QED  BY <3>1, <3>4, <3>5 DEF Logged
  <2> QED  BY <2>1, <2>2
<1>8. Header' /\ Copied' /\ Installed'
  BY <1>1, <1>2, <1>3, <1>5, <1>7 DEF Header, Copied, Installed, Commits
<1>9. Clean'
  <2>1. \A q \in Procs : want'[q] # NoBlock => pc'[q] = "add"
    BY <1>1, <1>2, Zenon DEF Clean, TypeOK
  <2>2. \A c \in Blocks : Dirty(c) => Dirty(c)'
    BY <1>1, <1>2, <1>7, Zenon DEF Dirty, TypeOK
  <2> QED  BY <1>1, <1>2, <1>3, <2>1, <2>2 DEF Clean
<1>10. UNCHANGED Abstract!vars
  <2>1. Active' = Active  BY <1>1, ActiveStep
  <2> QED  BY <1>2, <2>1, Unseen
<1> QED  BY <1>8, <1>9, <1>10 DEF DataInv

\* end_op, up to the commit it may start.
LEMMA StepEnd ==
  ASSUME IInv, DataInv, NEW p \in Procs, EndOp(p)
  PROVE  DataInv' /\ [Abstract!Next]_(Abstract!vars)
<1>1. TypeOK /\ Quiet /\ Header /\ Clean
  BY DEF IInv, DataInv
<1>2. UNCHANGED <<disk, logblk, head, cache, lh, want, sys>> /\ pc[p] = "op" /\ p \in Active
  BY DEF EndOp, diskVars, Active
<1>3. sys = "up" /\ ~committing /\ \A q \in Procs : pc[q] \notin Commits
  BY <1>2, NoCommit
<1>4. \A q \in Procs : /\ pc'[q] \in Commits => pc'[q] \in {"fin", "wlog"} /\ tail' = 0
                       /\ pc[q] = "add" => pc'[q] = "add"
  BY <1>1, <1>2, <1>3, Zenon DEF EndOp, TypeOK, Commits, Wakeup
<1>5. ~At({"inst", "clear"}) /\ ~At({"inst", "clear"})' /\ ~At({"whead", "inst", "clear"})'
      /\ ~At({"inst"})' /\ ~At({"clear"})' /\ (At({"wlog"})' => tail' = 0)
  BY <1>3, <1>4 DEF At, Commits
<1>6. Header' /\ Copied' /\ Installed'
  BY <1>1, <1>2, <1>3, <1>5 DEF Header, Copied, Installed
<1>7. Clean'
  BY <1>1, <1>2, <1>4 DEF Clean, Dirty, Logged
<1>8. Abstract!End(p)
  <2>1. Active' = Active \ {p}  BY <1>1, <1>3, ActiveStep
  <2>2. Recovered' = Recovered  BY <1>2 DEF Recovered
  <2> QED  BY <1>2, <2>1, <2>2 DEF Abstract!End
<1> QED  BY <1>6, <1>7, <1>8 DEF DataInv, Abstract!Next

-----------------------------------------------------------------------------
\* Where the process that commits is decides what At says.
LEMMA OnlyOne ==
  ASSUME IInv, IInv', NEW p \in Procs, pc[p] \in Commits,
         \A q \in Procs \ {p} : pc'[q] \notin Commits
  PROVE  \A S \in SUBSET Commits : (At(S) <=> pc[p] \in S) /\ (At(S)' <=> pc'[p] \in S)
<1>1. \A q \in Procs \ {p} : pc[q] \notin Commits
  BY Alone DEF Commits
<1> QED  BY <1>1 DEF At

\* write_log fills the log while the header on disk still is empty.
LEMMA StepWriteLog ==
  ASSUME IInv, IInv', DataInv, NEW p \in Procs, WriteLog(p)
  PROVE  DataInv' /\ [Abstract!Next]_(Abstract!vars)
<1>1. TypeOK /\ Quiet /\ Cursor /\ Header /\ Clean /\ Copied
  BY DEF IInv, DataInv
<1>2. UNCHANGED <<disk, head, cache, lh, want, sys>> /\ pc[p] = "wlog"
      /\ logblk' = [logblk EXCEPT ![tail + 1] = cache[lh[tail + 1]]]
  BY DEF WriteLog
<1>3. sys = "up" /\ \A q \in Procs \ {p} : pc[q] \in {"user", "begin", "asleep"}
  BY <1>2, Alone DEF Commits
<1>4. \A q \in Procs \ {p} : pc'[q] = pc[q]
  BY <1>1, Zenon DEF WriteLog, TypeOK
<1>5. \/ tail + 1 < Len(lh) /\ tail' = tail + 1 /\ pc'[p] = "wlog"
      \/ ~(tail + 1 < Len(lh)) /\ tail' = 0 /\ pc'[p] = "whead"
  BY <1>1, <1>2, Zenon DEF WriteLog, TypeOK
<1>6. \A S \in SUBSET Commits : (At(S) <=> pc[p] \in S) /\ (At(S)' <=> pc'[p] \in S)
  BY <1>2, <1>3, <1>4, OnlyOne DEF Commits
<1>7. ~At({"inst", "clear"}) /\ ~At({"inst", "clear"})' /\ ~At({"inst"})' /\ ~At({"clear"})'
      /\ At({"wlog"}) /\ (At({"wlog"})' <=> pc'[p] = "wlog")
      /\ (At({"whead", "inst", "clear"})' <=> pc'[p] = "whead")
  BY <1>2, <1>5, <1>6 DEF Commits
<1>8. tail \in Nat /\ Len(lh) \in Nat /\ tail < Len(lh) /\ Len(lh) <= LOGSIZE
  BY <1>1, <1>2, Lengths DEF Cursor
<1>9. logblk'[tail + 1] = cache[lh[tail + 1]] /\ \A i \in 1..tail : logblk'[i] = logblk[i]
  <2>1. tail + 1 \in 1..LOGSIZE /\ \A i \in 1..tail : i \in 1..LOGSIZE /\ i # tail + 1
    BY <1>8, SizesAssumption
  <2> QED  BY <1>1, <1>2, <2>1, Zenon DEF TypeOK
<1>10. \A i \in 1..(tail + 1) : logblk'[i] = cache[lh[i]]
  <2>1. \A i \in 1..(tail + 1) : i \in 1..tail \/ i = tail + 1  BY <1>8
  <2> QED  BY <1>1, <1>7, <1>9, <2>1 DEF Copied
<1>11. Copied'
  <2>1. ~(tail + 1 < Len(lh)) => Len(lh) = tail + 1  BY <1>8
  <2> QED  BY <1>2, <1>5, <1>7, <1>10, <2>1 DEF Copied
<1>12. Header' /\ Installed'
  BY <1>1, <1>2, <1>3, <1>7 DEF Header, Installed
<1>13. Clean'
  BY <1>1, <1>2, <1>3, <1>4 DEF Clean, Dirty, Logged
<1>14. UNCHANGED Abstract!vars
  <2>1. Active' = Active  BY <1>1, ActiveStep DEF Commit
  <2>2. head = <<>> /\ head' = <<>>  BY <1>1, <1>2, <1>3, <1>7 DEF Header
  <2>3. Recovered' = Recovered
    BY <1>1, <1>2, <2>2, RecoveredIs, OverlayEmpty, Zenon DEF TypeOK
  <2> QED  BY <1>2, <2>1, <2>3 DEF Abstract!vars
<1> QED  BY <1>11, <1>12, <1>13, <1>14 DEF DataInv

\* The first write_head commits everything that was written.
LEMMA StepWriteHead ==
  ASSUME IInv, IInv', DataInv, NEW p \in Procs, WriteHead(p)
  PROVE  DataInv' /\ [Abstract!Next]_(Abstract!vars)
<1>1. TypeOK /\ Quiet /\ Cursor /\ Header /\ Clean /\ Copied
  BY DEF IInv, DataInv
<1>2. UNCHANGED <<disk, logblk, cache, lh, want, tail, sys>> /\ pc[p] = "whead"
      /\ head' = lh /\ pc' = [pc EXCEPT ![p] = "inst"]
  BY DEF WriteHead
<1>3. sys = "up" /\ Active = {} /\ \A q \in Procs \ {p} : pc[q] \in {"user", "begin", "asleep"}
  BY <1>2, Alone DEF Commits
<1>4. pc'[p] = "inst" /\ \A q \in Procs \ {p} : pc'[q] = pc[q]
  BY <1>1, <1>2, Zenon DEF TypeOK
<1>5. \A S \in SUBSET Commits : (At(S) <=> pc[p] \in S) /\ (At(S)' <=> pc'[p] \in S)
  BY <1>2, <1>3, <1>4, OnlyOne DEF Commits
<1>6. At({"inst", "clear"})' /\ ~At({"wlog"})' /\ ~At({"clear"})' /\ At({"whead", "inst", "clear"})
  BY <1>2, <1>4, <1>5 DEF Commits
<1>7. tail = 0
  BY <1>1, <1>2 DEF Cursor
<1>8. Header' /\ Copied' /\ Installed'
  BY <1>1, <1>2, <1>3, <1>6, <1>7 DEF Header, Copied, Installed
<1>9. Clean'
  BY <1>1, <1>2, <1>3, <1>4 DEF Clean, Dirty, Logged
<1>10. Recovered' = cache
  <2>1. cache \in [Blocks -> Contents] /\ \A i \in 1..Len(lh) : logblk[i] = cache[lh[i]]
    BY <1>1, <1>6, Zenon DEF TypeOK, Copied
  <2>2. \A q \in Procs : want[q] = NoBlock
    BY <1>1, <1>2, <1>3 DEF Clean
  <2>3. \A b \in Blocks : (\E i \in 1..Len(lh) : lh[i] = b) \/ disk[b] = cache[b]
    BY <1>1, <1>3, <2>2, ValuesAssumption DEF Clean, Dirty, Logged
  <2>4. Overlay(lh, logblk, disk) = cache  BY <2>1, <2>3, OverlayIs
  <2> QED  BY <1>2, <2>4, RecoveredIs
<1>11. Abstract!Commit
  <2>1. Active' = Active  BY <1>1, ActiveStep DEF Commit
  <2> QED  BY <1>2, <1>3, <1>10, <2>1 DEF Abstract!Commit
<1> QED  BY <1>8, <1>9, <1>11 DEF DataInv, Abstract!Next

\* install_trans writes one logged block home: the next of those not
\* installed, and none of the ones that are.
LEMMA Install ==
  ASSUME TypeOK, Cursor, Distinct(lh), tail < Len(lh), InstallBlock,
         \A i \in 1..tail : disk[lh[i]] = logblk[i]
  PROVE  /\ \A i \in 1..(tail + 1) : disk'[lh[i]] = logblk[i]
         /\ \A b \in Blocks : (\E i \in 1..Len(lh) : lh[i] = b) \/ disk'[b] = disk[b]
         /\ ~(tail + 1 < Len(lh)) => Len(lh) = tail + 1
<1>1. lh \in Seq(Blocks) /\ Len(lh) \in Nat /\ tail \in Nat /\ tail + 1 \in 1..Len(lh)
  BY Lengths
<1>2. lh[tail + 1] \in Blocks /\ disk' = [disk EXCEPT ![lh[tail + 1]] = logblk[tail + 1]]
  BY <1>1, ElementOfSeq DEF InstallBlock
<1>3. ASSUME NEW i \in 1..tail PROVE disk'[lh[i]] = logblk[i]
  <2>1. i \in 1..Len(lh) /\ i # tail + 1  BY <1>1
  <2>2. lh[i] # lh[tail + 1] /\ lh[i] \in Blocks  BY <1>1, <2>1, ElementOfSeq DEF Distinct
  <2> QED  BY <1>2, <2>2, Zenon DEF TypeOK
<1>4. disk'[lh[tail + 1]] = logblk[tail + 1]
  BY <1>2, Zenon DEF TypeOK
<1>5. \A i \in 1..(tail + 1) : i \in 1..tail \/ i = tail + 1
  BY <1>1
<1>6. \A b \in Blocks : b = lh[tail + 1] \/ disk'[b] = disk[b]
  BY <1>2, Zenon DEF TypeOK
<1> QED  BY <1>1, <1>3, <1>4, <1>5, <1>6

\* install_trans and bunpin at commit: a restart finds the same contents.
LEMMA StepInstall ==
  ASSUME IInv, IInv', DataInv, NEW p \in Procs, InstallTrans(p)
  PROVE  DataInv' /\ [Abstract!Next]_(Abstract!vars)
<1>1. TypeOK /\ Quiet /\ Cursor /\ Header /\ Clean /\ Copied /\ Installed
  BY DEF IInv, DataInv
<1>2. UNCHANGED <<logblk, head, lh, want, sys>> /\ pc[p] = "inst" /\ InstallBlock
  BY DEF InstallTrans
<1>3. sys = "up" /\ \A q \in Procs \ {p} : pc[q] \in {"user", "begin", "asleep"}
  BY <1>2, Alone DEF Commits
<1>4. \A q \in Procs \ {p} : pc'[q] = pc[q]
  BY <1>1, Zenon DEF InstallTrans, TypeOK
<1>5. \/ tail + 1 < Len(lh) /\ tail' = tail + 1 /\ pc'[p] = "inst"
      \/ ~(tail + 1 < Len(lh)) /\ tail' = 0 /\ pc'[p] = "clear"
  BY <1>1, <1>2, Zenon DEF InstallTrans, TypeOK
<1>6. \A S \in SUBSET Commits : (At(S) <=> pc[p] \in S) /\ (At(S)' <=> pc'[p] \in S)
  BY <1>2, <1>3, <1>4, OnlyOne DEF Commits
<1>7. At({"inst", "clear"}) /\ At({"inst", "clear"})' /\ At({"whead", "inst", "clear"})
      /\ ~At({"wlog"})' /\ At({"inst"})
      /\ (At({"inst"})' <=> pc'[p] = "inst") /\ (At({"clear"})' <=> pc'[p] = "clear")
  BY <1>2, <1>5, <1>6 DEF Commits
<1>8. tail \in Nat /\ Len(lh) \in Nat /\ tail < Len(lh) /\ lh \in Seq(Blocks)
  BY <1>1, <1>2, Lengths DEF Cursor
<1>9. cache' = cache
  <2>1. tail + 1 \in 1..Len(lh)  BY <1>8
  <2>2. logblk[tail + 1] = cache[lh[tail + 1]]  BY <1>1, <1>7, <2>1 DEF Copied
  <2> QED  BY <1>1, <1>2, <2>2, Zenon DEF InstallBlock, TypeOK
<1>10. /\ \A i \in 1..(tail + 1) : disk'[lh[i]] = logblk[i]
       /\ \A b \in Blocks : (\E i \in 1..Len(lh) : lh[i] = b) \/ disk'[b] = disk[b]
       /\ ~(tail + 1 < Len(lh)) => Len(lh) = tail + 1
  BY <1>1, <1>2, <1>7, <1>8, Install DEF Header, Installed
<1>11. Header' /\ Copied'
  BY <1>1, <1>2, <1>3, <1>7, <1>9 DEF Header, Copied
<1>12. Installed'
  BY <1>2, <1>3, <1>5, <1>7, <1>10 DEF Installed
<1>13. Clean'
  <2>1. \A b \in Blocks : b \in Logged \/ disk'[b] = disk[b]  BY <1>10 DEF Logged
  <2> QED  BY <1>1, <1>2, <1>3, <1>4, <1>9, <2>1 DEF Clean, Dirty, Logged
<1>14. UNCHANGED Abstract!vars
  <2>1. Active' = Active  BY <1>1, ActiveStep DEF Commit
  <2>2. head = lh  BY <1>1, <1>3, <1>7 DEF Header
  <2>3. Overlay(lh, logblk, disk) = Overlay(lh, logblk, disk')  BY <1>10, OverlaySame
  <2>4. Recovered' = Recovered  BY <1>2, <2>2, <2>3, RecoveredIs
  <2> QED  BY <1>2, <1>9, <2>1, <2>4 DEF Abstract!vars
<1> QED  BY <1>11, <1>12, <1>13, <1>14 DEF DataInv

\* An empty header has nothing twice.
LEMMA EmptyDistinct == Distinct(<<>>) /\ \A i \in 1..Len(<<>>) : FALSE
BY EmptyLog DEF Distinct

\* The second write_head, when everything is installed, and the end of
\* end_op.
LEMMA StepClear ==
  ASSUME IInv, IInv', DataInv, NEW p \in Procs, ClearLog(p) \/ EndCommit(p)
  PROVE  DataInv' /\ [Abstract!Next]_(Abstract!vars)
<1>1. TypeOK /\ Quiet /\ Cursor /\ Header /\ Clean /\ Copied /\ Installed
  BY DEF IInv, DataInv
<1>2. UNCHANGED <<disk, logblk, cache, want, sys>> /\ pc[p] \in {"clear", "fin"}
  BY DEF ClearLog, EndCommit, diskVars
<1>3. sys = "up" /\ Active = {} /\ \A q \in Procs \ {p} : pc[q] \in {"user", "begin", "asleep"}
  BY <1>2, Alone DEF Commits
<1>4. pc'[p] \in {"fin", "user"} /\ \A q \in Procs \ {p} : pc'[q] \in {"user", "begin", "asleep"}
  BY <1>1, <1>3, Zenon DEF ClearLog, EndCommit, Wakeup, TypeOK
<1>5. \A S \in SUBSET Commits : (At(S) <=> pc[p] \in S) /\ (At(S)' <=> pc'[p] \in S)
  BY <1>2, <1>3, <1>4, OnlyOne DEF Commits
<1>6. ~At({"inst", "clear"})' /\ ~At({"whead", "inst", "clear"})' /\ ~At({"wlog"})'
      /\ ~At({"inst"})' /\ ~At({"clear"})'
  BY <1>4, <1>5 DEF Commits
<1>7. Copied' /\ Installed'
  BY <1>2, <1>3, <1>6 DEF Copied, Installed
<1>8. Active' = Active
  BY <1>1, ActiveStep DEF Commit
<1>9. \A q \in Procs : want[q] = NoBlock
  BY <1>1, <1>2, <1>3 DEF Clean
<1>10. CASE ClearLog(p)
  <2>1. pc[p] = "clear" /\ lh' = <<>> /\ head' = <<>>
    BY <1>10 DEF ClearLog
  <2>2. head = lh /\ (\A i \in 1..Len(lh) : logblk[i] = cache[lh[i]])
        /\ \A i \in 1..Len(lh) : disk[lh[i]] = logblk[i]
    BY <1>1, <1>3, <1>5, <2>1 DEF Header, Copied, Installed, Commits
  <2>3. \A b \in Blocks : cache[b] = disk[b]
    BY <1>1, <1>3, <1>9, <2>2, ValuesAssumption DEF Clean, Dirty, Logged
  <2>4. Clean'
    BY <1>2, <1>3, <1>9, <2>3 DEF Clean
  <2>5. Header'
    BY <1>2, <1>3, <1>6, <2>1, EmptyDistinct DEF Header
  <2>6. Recovered = disk /\ Recovered' = disk
    <3>1. disk \in [Blocks -> Contents]  BY <1>1, Zenon DEF TypeOK
    <3>2. Overlay(lh, logblk, disk) = disk  BY <2>2, <3>1, OverlayIs
    <3>3. Overlay(<<>>, logblk, disk) = disk  BY <3>1, OverlayEmpty
    <3> QED  BY <1>2, <2>1, <2>2, <3>2, <3>3, RecoveredIs
  <2>7. UNCHANGED Abstract!vars
    BY <1>2, <1>8, <2>6 DEF Abstract!vars
  <2> QED  BY <1>7, <2>4, <2>5, <2>7 DEF DataInv
<1>11. CASE EndCommit(p)
  <2>1. UNCHANGED <<lh, head>> /\ pc[p] = "fin"
    BY <1>11 DEF EndCommit, diskVars
  <2>2. ~At({"inst", "clear"})
    BY <1>5, <2>1 DEF Commits
  <2>3. Header'
    BY <1>1, <1>2, <1>3, <1>6, <2>1, <2>2 DEF Header
  <2>4. Clean'
    BY <1>1, <1>2, <1>3, <1>9, <2>1 DEF Clean, Dirty, Logged
  <2>5. UNCHANGED Abstract!vars
    BY <1>2, <1>8, <2>1, Unseen
  <2> QED  BY <1>7, <2>3, <2>4, <2>5 DEF DataInv
<1> QED  BY <1>10, <1>11

\* Recovery installs what the header on disk says and nothing else; a second
\* crash in its middle finds the same contents.
LEMMA StepRecover ==
  ASSUME IInv, DataInv, Recover
  PROVE  DataInv' /\ [Abstract!Next]_(Abstract!vars)
<1>1. TypeOK /\ Quiet /\ Cursor /\ Header /\ Clean /\ Copied /\ Installed
  BY DEF IInv, DataInv
<1>2. sys # "up" /\ UNCHANGED <<logblk, pc, want>>
  BY DEF Recover, ReadHead, RecoverInstall, RecoverClear, diskVars
<1>3. \A q \in Procs : pc[q] = "user" /\ want[q] = NoBlock
  BY <1>1, <1>2 DEF Quiet, Clean
<1>4. \A S \in SUBSET Commits : ~At(S) /\ ~At(S)'
  BY <1>2, <1>3 DEF At, Commits
<1>5. cache = disk /\ disk \in [Blocks -> Contents]
  BY <1>1, <1>2, Zenon DEF Clean, TypeOK
<1>6. Active' = Active
  BY <1>1, ActiveStep
<1>7. Copied'
  BY <1>4 DEF Copied, Commits
<1>8. CASE ReadHead
  <2>1. UNCHANGED <<disk, head, cache>> /\ lh' = head /\ tail' = 0
        /\ sys' = IF head = <<>> THEN "rclear" ELSE "rinst"
    BY <1>8 DEF ReadHead, diskVars
  <2>2. Header' /\ Clean'
    BY <1>1, <1>2, <1>3, <1>5, <2>1 DEF Header, Clean
  <2>3. Installed'
    BY <1>2, <1>4, <2>1, EmptyDistinct DEF Installed, Commits
  <2>4. UNCHANGED Abstract!vars
    <3>1. Recovered' = Recovered  BY <1>2, <2>1 DEF Recovered
    <3> QED  BY <1>2, <1>6, <2>1, <3>1 DEF Abstract!vars
  <2> QED  BY <1>7, <2>2, <2>3, <2>4 DEF DataInv
<1>9. CASE RecoverInstall
  <2>1. UNCHANGED <<head, lh>> /\ sys = "rinst" /\ InstallBlock /\ tail < Len(lh) /\ head = lh
        /\ \/ tail + 1 < Len(lh) /\ tail' = tail + 1 /\ sys' = "rinst"
           \/ ~(tail + 1 < Len(lh)) /\ tail' = 0 /\ sys' = "rclear"
    BY <1>1, <1>9 DEF RecoverInstall, Cursor, Header
  <2>2. /\ \A i \in 1..(tail + 1) : disk'[lh[i]] = logblk[i]
        /\ \A b \in Blocks : (\E i \in 1..Len(lh) : lh[i] = b) \/ disk'[b] = disk[b]
        /\ ~(tail + 1 < Len(lh)) => Len(lh) = tail + 1
    BY <1>1, <2>1, Install DEF Header, Installed
  <2>3. Header'
    BY <1>1, <2>1 DEF Header
  <2>4. Clean'
    BY <1>2, <1>3, <1>5, <2>1 DEF Clean, InstallBlock
  <2>5. Installed'
    BY <1>2, <1>4, <2>1, <2>2 DEF Installed, Commits
  <2>6. UNCHANGED Abstract!vars
    <3>1. Overlay(lh, logblk, disk) = Overlay(lh, logblk, disk')  BY <2>2, OverlaySame
    <3>2. Recovered' = Recovered  BY <1>2, <2>1, <3>1, RecoveredIs
    <3> QED  BY <1>2, <1>6, <2>1, <3>2 DEF Abstract!vars
  <2> QED  BY <1>7, <2>3, <2>4, <2>5, <2>6 DEF DataInv
<1>10. CASE RecoverClear
  <2>1. UNCHANGED <<disk, cache>> /\ sys = "rclear" /\ sys' = "up" /\ lh' = <<>> /\ head' = <<>>
    BY <1>10 DEF RecoverClear
  <2>2. head = lh /\ \A i \in 1..Len(lh) : disk[lh[i]] = logblk[i]
    BY <1>1, <2>1 DEF Header, Installed
  <2>3. Header' /\ Clean' /\ Installed'
    BY <1>2, <1>3, <1>4, <1>5, <2>1, EmptyDistinct DEF Header, Clean, Installed, Commits
  <2>4. Recovered = disk /\ Recovered' = disk
    <3>1. Overlay(lh, logblk, disk) = disk  BY <1>5, <2>2, OverlayIs
    <3>2. Overlay(<<>>, logblk, disk) = disk  BY <1>5, OverlayEmpty
    <3> QED  BY <1>2, <2>1, <2>2, <3>1, <3>2, RecoveredIs
  <2>5. UNCHANGED Abstract!vars
    BY <1>2, <1>5, <1>6, <2>1, <2>4 DEF Abstract!vars
  <2> QED  BY <1>7, <2>3, <2>5 DEF DataInv
<1> QED  BY <1>8, <1>9, <1>10 DEF Recover

\* A crash, with or without a torn block, leaves what the header commits to.
LEMMA StepCrash ==
  ASSUME IInv, DataInv, Crash
  PROVE  DataInv' /\ [Abstract!Next]_(Abstract!vars)
<1>1. TypeOK /\ Quiet /\ Cursor /\ Header
  BY DEF IInv, DataInv
<1>2. head' = head /\ cache' = disk' /\ lh' = <<>> /\ sys' = "boot"
      /\ \A q \in Procs : want'[q] = NoBlock /\ pc'[q] = "user"
  BY DEF Crash
<1>3. \A S \in SUBSET Commits : ~At(S)'
  BY <1>2 DEF At, Commits
<1>4. DataInv'
  BY <1>1, <1>2, <1>3, EmptyDistinct DEF DataInv, Header, Clean, Copied, Installed, Commits
<1>5. Recovered' = Recovered
  <2>1. CASE UNCHANGED <<disk, logblk>>
    BY <1>2, <2>1 DEF Recovered
  <2>2. CASE LogInFlight /\ disk' = disk
    <3>1. PICK p \in Procs : sys = "up" /\ pc[p] = "wlog"  BY <2>2 DEF LogInFlight
    <3>2. \A q \in Procs : pc[q] \notin {"inst", "clear"}  BY <3>1, Alone DEF Commits
    <3>3. head = <<>>  BY <1>1, <3>1, <3>2 DEF Header, At
    <3> QED  BY <1>1, <1>2, <2>2, <3>3, RecoveredIs, OverlayEmpty, Zenon DEF TypeOK
  <2>3. CASE /\ HomeInFlight /\ logblk' = logblk
             /\ disk' = [disk EXCEPT ![lh[tail + 1]] = Torn]
    <3>1. head = lh /\ tail < Len(lh)
      BY <1>1, <2>3 DEF HomeInFlight, Header, At, Cursor
    <3>2. tail + 1 \in 1..Len(lh)  BY <1>1, <3>1, Lengths
    <3>3. \A b \in Blocks : (\E i \in 1..Len(lh) : lh[i] = b) \/ disk'[b] = disk[b]
      BY <1>1, <2>3, <3>2, Zenon DEF TypeOK
    <3>4. Overlay(lh, logblk, disk) = Overlay(lh, logblk, disk')  BY <3>3, OverlaySame
    <3> QED  BY <1>2, <2>3, <3>1, <3>4, RecoveredIs
  <2> QED  BY <2>1, <2>2, <2>3 DEF Crash
<1>6. Abstract!Crash
  <2>1. Active' = {}  BY <1>1, ActiveStep
  <2> QED  BY <1>2, <1>5, <2>1 DEF Abstract!Crash
<1> QED  BY <1>4, <1>6 DEF Abstract!Next

-----------------------------------------------------------------------------
\* log.c implements the abstract disk: what a crash and recovery would leave
\* changes in one step, at write_head, to what all calls that have ended had
\* written, and at no other time.
THEOREM LogIsAtomic == Spec => AtomicTransactions
<1>1. Init => DataInv /\ Abstract!Init
  <2> SUFFICES ASSUME Init PROVE DataInv /\ Abstract!Init
    OBVIOUS
  <2>1. disk \in [Blocks -> Contents] /\ head = <<>> /\ lh = <<>> /\ sys = "boot"
    BY ValuesAssumption DEF Init, Contents
  <2>2. \A S \in SUBSET Commits : ~At(S)
    BY DEF Init, At, Commits
  <2>3. DataInv
    BY <2>1, <2>2, EmptyDistinct DEF Init, DataInv, Header, Clean, Copied, Installed, Commits
  <2>4. Recovered = disk
    BY <2>1, RecoveredIs, OverlayEmpty
  <2>5. Active = {}
    BY DEF Init, Active
  <2> QED  BY <2>1, <2>3, <2>4, <2>5 DEF Init, Abstract!Init
<1>2. IInv /\ IInv' /\ DataInv /\ [Next]_vars => DataInv' /\ [Abstract!Next]_(Abstract!vars)
  <2> SUFFICES ASSUME IInv, IInv', DataInv, [Next]_vars
               PROVE  DataInv' /\ [Abstract!Next]_(Abstract!vars)
    OBVIOUS
  <2>1. CASE UNCHANGED vars
    <3>1. Active' = Active  BY <2>1 DEF vars, Active
    <3>2. UNCHANGED Abstract!vars  BY <2>1, <3>1, Unseen DEF vars
    <3>3. Header' /\ Copied'
      BY <2>1 DEF vars, DataInv, Header, Copied, At
    <3>4. Clean'
      BY <2>1 DEF vars, DataInv, Clean, Dirty, Logged
    <3>5. Installed'
      BY <2>1 DEF vars, DataInv, Installed, At
    <3> QED  BY <3>2, <3>3, <3>4, <3>5 DEF DataInv
  <2> QED
    BY <2>1, StepBegin, StepModify, StepLogWrite, StepEnd, StepWriteLog, StepWriteHead,
       StepInstall, StepClear, StepRecover, StepCrash
    DEF Next, Commit
<1> QED
  BY <1>1, <1>2, Invariance, PTL DEF Spec, AtomicTransactions, Abstract!Spec
=============================================================================
