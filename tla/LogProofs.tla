------------------------------ MODULE LogProofs -------------------------------
(***************************************************************************)
(* Proofs about kernel/log.c for any number of processes and blocks and    *)
(* any LOGBLOCKS, MAXOPBLOCKS: types, and the log space reservation.       *)
(***************************************************************************)
EXTENDS Log, FiniteSetTheorems, TLAPS

\* Where processes can be when fsinit() has not returned, and when the last
\* operation has ended and its process commits.
ControlInv ==
  /\ boot # "up" => outstanding = 0 /\ \A p \in Proc : pc[p] = "idle"
  /\ outstanding = Cardinality(active)
  /\ committing => active = {}
  /\ \A p \in Proc : pc[p] \in InCommit => committing
  /\ \A p, q \in Proc : pc[p] \in InCommit /\ pc[q] \in InCommit => p = q

\* The block of a process inside log_write() is in the log already, or there
\* is room for it in what the operation may still add.
BufInv ==
  \A p \in Proc : pc[p] = "modified" =>
    buf[p] \in Block /\ (buf[p] \in logged \/ used[p] < OPBLOCKS)

LengthInv == Len(lh) <= LOGBLOCKS /\ Len(dhead) <= LOGBLOCKS

SpaceInv == TypeOK /\ ControlInv /\ BufInv /\ LengthInv /\ LogSpace

-------------------------------------------------------------------------------
(* Facts about sets of processes and their reservations.                   *)

(* The processes in an operation form a finite set.                        *)
LEMMA ActiveFinite ==
  ASSUME NEW A \in SUBSET Proc
  PROVE  IsFiniteSet(A) /\ Cardinality(A) \in Nat
BY Zenon, LogAssumption, FS_Subset, FS_CardinalityType

(* A reservation never exceeds MAXOPBLOCKS blocks per running operation,   *)
(* which is what begin_op() counts with.                                   *)
LEMMA ReservedBound ==
  ASSUME NEW A \in SUBSET Proc, NEW u
  PROVE  /\ IsFiniteSet(ReservedBy(A, u))
         /\ Cardinality(ReservedBy(A, u)) \in Nat
         /\ Cardinality(ReservedBy(A, u)) <= Cardinality(A) * MAXOPBLOCKS
<1> DEFINE W == 1..MAXOPBLOCKS
           R == ReservedBy(A, u)
<1>1. IsFiniteSet(W) /\ Cardinality(W) = MAXOPBLOCKS
  BY LogAssumption, FS_Interval
<1>2. /\ IsFiniteSet(A \X W)
      /\ Cardinality(A \X W) = Cardinality(A) * Cardinality(W)
  BY Zenon, <1>1, ActiveFinite, FS_Product
<1>3. R \in SUBSET (A \X W) BY Zenon DEF ReservedBy
<1> HIDE DEF W, R
<1>4. /\ IsFiniteSet(R)
      /\ Cardinality(R) <= Cardinality(A \X W)
  BY Zenon, <1>2, <1>3, FS_Subset
<1>5. Cardinality(R) \in Nat BY Zenon, <1>4, FS_CardinalityType
<1> QED BY Zenon, <1>1, <1>2, <1>4, <1>5 DEF R

(* Logging one more block uses up exactly one reserved block.              *)
LEMMA TakeReserved ==
  ASSUME NEW A \in SUBSET Proc, NEW u \in [Proc -> 0..OPBLOCKS],
         NEW p \in A, u[p] < OPBLOCKS
  PROVE  Cardinality(ReservedBy(A, [u EXCEPT ![p] = @ + 1])) =
         Cardinality(ReservedBy(A, u)) - 1
<1> DEFINE w == [u EXCEPT ![p] = @ + 1]
           R == ReservedBy(A, u)
           S == ReservedBy(A, w)
           t == <<p, u[p] + 1>>
<1>1. t \in R BY LogAssumption DEF ReservedBy
<1>2. S = R \ {t}
  <2>1. ASSUME NEW r \in A \X (1..MAXOPBLOCKS)
        PROVE  r \in S <=> r \in R /\ r # t
    <3>1. CASE r[1] = p BY <3>1, LogAssumption DEF ReservedBy
    <3>2. CASE r[1] # p BY <3>2, LogAssumption DEF ReservedBy
    <3> QED BY Zenon, <3>1, <3>2
  <2> QED BY Zenon, <2>1 DEF ReservedBy
<1>3. IsFiniteSet(R) BY Zenon, ReservedBound
<1> HIDE DEF R, S, t
<1>4. Cardinality(S) = Cardinality(R) - 1 BY Zenon, <1>1, <1>2, <1>3, FS_RemoveElement
<1> QED BY Zenon, <1>4 DEF R, S

(* Ending an operation gives reserved blocks back, and takes none.         *)
LEMMA ReservedMonotone ==
  ASSUME NEW A \in SUBSET Proc, NEW B \in SUBSET A, NEW u
  PROVE  Cardinality(ReservedBy(B, u)) <= Cardinality(ReservedBy(A, u))
<1>1. ReservedBy(B, u) \in SUBSET ReservedBy(A, u) BY Zenon DEF ReservedBy
<1> QED BY Zenon, <1>1, ReservedBound, FS_Subset

-------------------------------------------------------------------------------
(* SpaceInv is inductive.                                                  *)

(* After mkfs, before recover_from_log() runs, nothing is in the log.      *)
LEMMA SpaceInitial == Init => SpaceInv
<1> SUFFICES ASSUME Init PROVE SpaceInv BY Zenon
<1> USE LogAssumption DEF Init
<1>1. TypeOK
  <2>1. dhead \in Seq(Block) /\ lh \in Seq(Block) OBVIOUS
  <2>2. used \in [Proc -> 0..OPBLOCKS] OBVIOUS
  <2>3. outstanding \in Nat /\ tail \in Nat \ {0} /\ crashes \in Nat OBVIOUS
  <2> QED BY <2>1, <2>2, <2>3, Zenon DEF TypeOK
<1>2. active = {} BY Zenon DEF active, InOp
<1>3. ControlInv BY Zenon, <1>2, FS_EmptySet DEF ControlInv, InCommit
<1>4. BufInv /\ LengthInv /\ LogSpace BY DEF BufInv, LengthInv, LogSpace
<1> QED BY Zenon, <1>1, <1>3, <1>4 DEF SpaceInv

(* Steps that move no process into, inside or out of an operation and keep *)
(* the log header preserve everything but the types.                       *)
LEMMA QuietStep ==
  ASSUME SpaceInv, UNCHANGED <<lh, outstanding, committing, procVars, boot>>
  PROVE  ControlInv' /\ BufInv' /\ LogSpace'
<1>1. active' = active /\ logged' = logged /\ Reserved' = Reserved
  BY Zenon DEF active, logged, Reserved, procVars
<1> QED BY Zenon, <1>1 DEF SpaceInv, ControlInv, BufInv, LogSpace, procVars

(* What bread() returns is the contents of a block.                        *)
LEMMA DataType == ASSUME TypeOK, NEW b \in Block PROVE Data(b) \in Val
BY Zenon, LogAssumption DEF TypeOK, Data

(* Every step of log.c keeps the types.                                    *)
LEMMA TypeStep == SpaceInv /\ [Next]_vars => TypeOK'
<1> SUFFICES ASSUME SpaceInv, [Next]_vars PROVE TypeOK' BY Zenon
<1> USE LogAssumption DEF SpaceInv, diskVars, logVars, procVars
<1> USE DEF InOp, InCommit
<1>1. CASE read_head BY <1>1 DEF read_head, TypeOK
<1>2. CASE recover_block
  <2>1. lh[tail] \in Block /\ dlog[tail] \in Val
    BY <1>2 DEF recover_block, TypeOK, LengthInv
  <2> QED BY <1>2, <2>1 DEF recover_block, TypeOK
<1>3. CASE recover_clear BY <1>3 DEF recover_clear, TypeOK
<1>4. ASSUME NEW b \in Block, Fetch(b) PROVE TypeOK'
  BY Zenon, <1>4 DEF Fetch, TypeOK
<1>5. ASSUME NEW b \in Block, Evict(b) PROVE TypeOK'
  BY Zenon, <1>5 DEF Evict, TypeOK
<1>6. ASSUME NEW p \in Proc, Start(p) PROVE TypeOK'
  BY Zenon, <1>6 DEF Start, TypeOK
<1>7. ASSUME NEW p \in Proc, begin_op(p) PROVE TypeOK'
  <2>1. CASE MustWait BY Zenon, <1>7, <2>1 DEF begin_op, TypeOK
  <2>2. CASE ~MustWait
    <3>1. used' \in [Proc -> 0..OPBLOCKS] BY <1>7, <2>2 DEF begin_op, TypeOK
    <3>2. outstanding' \in Nat BY <1>7, <2>2 DEF begin_op, TypeOK
    <3> QED BY Zenon, <1>7, <2>2, <3>1, <3>2 DEF begin_op, TypeOK
  <2> QED BY Zenon, <2>1, <2>2
<1>8. ASSUME NEW p \in Proc, NEW b \in Block, NEW v \in Val, modify(p, b, v)
      PROVE  TypeOK'
  BY Zenon, <1>8 DEF modify, TypeOK
<1>9. ASSUME NEW p \in Proc, log_write(p) PROVE TypeOK'
  <2>1. CASE buf[p] \in logged BY Zenon, <1>9, <2>1 DEF log_write, TypeOK
  <2>2. CASE buf[p] \notin logged
    <3>1. buf[p] \in Block /\ used[p] + 1 \in 0..OPBLOCKS
      BY <1>9, <2>2 DEF log_write, BufInv, TypeOK
    <3>2. used' \in [Proc -> 0..OPBLOCKS]
      BY Zenon, <1>9, <2>2, <3>1 DEF log_write, TypeOK
    <3>3. lh' = Append(lh, buf[p]) BY <1>9, <2>2, Zenon DEF log_write
    <3>4. lh' \in Seq(Block) BY <3>1, <3>3 DEF TypeOK
    <3> QED BY <1>9, <2>2, <3>1, <3>2, <3>4 DEF log_write, TypeOK
  <2> QED BY Zenon, <2>1, <2>2
<1>10. ASSUME NEW p \in Proc, end_op(p) PROVE TypeOK'
  <2>1. outstanding' \in Nat
    <3>1. p \in active /\ active \in SUBSET Proc
      BY Zenon, <1>10 DEF end_op, active
    <3>2. Cardinality(active) # 0
      BY Zenon, <3>1, ActiveFinite, FS_EmptySet
    <3> QED BY <1>10, <3>2 DEF end_op, ControlInv, TypeOK
  <2>2. CASE outstanding' = 0
    <3>1. pc' \in [Proc -> {"idle", "begin_op", "asleep"} \cup InOp \cup InCommit]
      BY <1>10, <2>2 DEF end_op, TypeOK
    <3>2. committing' = TRUE /\ tail' = 1
      BY <1>10, <2>2, Zenon DEF end_op
    <3> QED BY <1>10, <2>1, <3>1, <3>2 DEF end_op, TypeOK
  <2>3. CASE outstanding' # 0 BY Zenon, <1>10, <2>1, <2>3 DEF end_op, TypeOK, Woken
  <2> QED BY Zenon, <2>2, <2>3
<1>11. ASSUME NEW p \in Proc, commit(p) PROVE TypeOK'
  <2>1. CASE write_log(p)
    <3>1. lh[tail] \in Block BY <2>1 DEF write_log, TypeOK
    <3>2. Data(lh[tail]) \in Val BY Zenon, <3>1, DataType
    <3>3. dlog' \in [1..LOGBLOCKS -> Val]
      BY Zenon, <2>1, <3>2 DEF write_log, TypeOK
    <3>4. cache' \in [Block -> Val \cup {None}]
      BY Zenon, <2>1, <3>2 DEF write_log, TypeOK
    <3> QED BY <2>1, <3>3, <3>4 DEF write_log, TypeOK
  <2>2. CASE write_head(p) BY <2>2 DEF write_head, TypeOK
  <2>3. CASE install_trans(p)
    <3>1. lh[tail] \in Block /\ dlog[tail] \in Val
      BY <2>3 DEF install_trans, TypeOK, LengthInv
    <3> QED BY <2>3, <3>1 DEF install_trans, TypeOK
  <2>4. CASE erase(p) BY <2>4 DEF erase, TypeOK
  <2> QED BY Zenon, <1>11, <2>1, <2>2, <2>3, <2>4 DEF commit
<1>12. ASSUME NEW p \in Proc, committed(p) PROVE TypeOK'
  BY Zenon, <1>12 DEF committed, TypeOK, Woken
<1>13. CASE Crash
  <2>1. lh' \in Seq(Block) BY <1>13 DEF Crash
  <2>2. used' \in [Proc -> 0..OPBLOCKS] BY <1>13 DEF Crash
  <2>3. outstanding' \in Nat /\ tail' \in Nat \ {0} /\ crashes' \in Nat
    BY <1>13 DEF Crash, TypeOK
  <2> QED BY <1>13, <2>1, <2>2, <2>3, Zenon DEF Crash, TypeOK
<1>14. CASE UNCHANGED vars BY Zenon, <1>14 DEF vars, TypeOK
<1> QED
  BY Zenon, <1>1, <1>2, <1>3, <1>4, <1>5, <1>6, <1>7, <1>8, <1>9, <1>10, <1>11,
     <1>12, <1>13, <1>14 DEF Next, recover_from_log

(* Every step keeps outstanding equal to the number of running operations  *)
(* and keeps operations, commit and recovery apart.                        *)
LEMMA ControlStep == SpaceInv /\ [Next]_vars => ControlInv'
<1> SUFFICES ASSUME SpaceInv, [Next]_vars PROVE ControlInv' BY Zenon
<1> USE DEF SpaceInv, TypeOK, diskVars, logVars, procVars
<1>1. CASE read_head
  <2>1. active' = active BY Zenon, <1>1 DEF read_head, active
  <2> QED BY Zenon, <1>1, <2>1 DEF read_head, ControlInv
<1>2. CASE recover_block BY Zenon, <1>2, QuietStep DEF recover_block
<1>3. CASE recover_clear
  <2>1. active' = active BY Zenon, <1>3 DEF recover_clear, active
  <2> QED BY Zenon, <1>3, <2>1 DEF recover_clear, ControlInv
<1>4. ASSUME NEW b \in Block, Fetch(b) PROVE ControlInv'
  BY Zenon, <1>4, QuietStep DEF Fetch
<1>5. ASSUME NEW b \in Block, Evict(b) PROVE ControlInv'
  BY Zenon, <1>5, QuietStep DEF Evict
<1>6. ASSUME NEW p \in Proc, Start(p) PROVE ControlInv'
  <2>1. active' = active BY Zenon, <1>6 DEF Start, active, InOp
  <2> QED BY Zenon, <1>6, <2>1 DEF Start, ControlInv, InCommit
<1>7. ASSUME NEW p \in Proc, begin_op(p) PROVE ControlInv'
  <2>1. boot = "up" BY Zenon, <1>7 DEF begin_op, ControlInv
  <2>2. CASE MustWait
    <3>1. active' = active BY Zenon, <1>7, <2>2 DEF begin_op, active, InOp
    <3> QED BY <1>7, <2>1, <2>2, <3>1 DEF begin_op, ControlInv, InCommit
  <2>3. CASE ~MustWait
    <3>1. active' = active \cup {p} /\ p \notin active
      BY <1>7, <2>3 DEF begin_op, active, InOp
    <3>2. active \in SUBSET Proc BY Zenon DEF active
    <3>3. Cardinality(active') = Cardinality(active) + 1
      BY Zenon, <3>1, <3>2, ActiveFinite, FS_AddElement
    <3>4. ~committing BY Zenon, <2>3 DEF MustWait
    <3> QED BY <1>7, <2>1, <2>3, <3>3, <3>4 DEF begin_op, ControlInv, InCommit
  <2> QED BY Zenon, <2>2, <2>3
<1>8. ASSUME NEW p \in Proc, NEW b \in Block, NEW v \in Val, modify(p, b, v)
      PROVE  ControlInv'
  <2>1. active' = active BY Zenon, <1>8 DEF modify, active, InOp
  <2> QED BY <1>8, <2>1 DEF modify, ControlInv, InCommit
<1>9. ASSUME NEW p \in Proc, log_write(p) PROVE ControlInv'
  <2>1. active' = active BY Zenon, <1>9 DEF log_write, active, InOp
  <2> QED BY <1>9, <2>1 DEF log_write, ControlInv, InCommit
<1>10. ASSUME NEW p \in Proc, end_op(p) PROVE ControlInv'
  <2>1. boot = "up" /\ ~committing BY Zenon, <1>10 DEF end_op, ControlInv
  <2>2. active' = active \ {p} /\ p \in active
    <3>1. CASE outstanding' = 0
      BY Zenon, <1>10, <3>1 DEF end_op, active, InOp
    <3>2. CASE outstanding' # 0
      BY Zenon, <1>10, <3>2 DEF end_op, active, InOp, Woken
    <3> QED BY Zenon, <3>1, <3>2
  <2>3. active \in SUBSET Proc BY Zenon DEF active
  <2>4. /\ Cardinality(active') = Cardinality(active) - 1
        /\ IsFiniteSet(active')
    BY Zenon, <2>2, <2>3, ActiveFinite, FS_RemoveElement
  <2>5. outstanding' = Cardinality(active')
    BY Zenon, <1>10, <2>4 DEF end_op, ControlInv
  <2>6. CASE outstanding' = 0
    <3>1. active' = {} BY Zenon, <2>4, <2>5, <2>6, FS_EmptySet
    <3> QED BY <1>10, <2>1, <2>5, <2>6, <3>1 DEF end_op, ControlInv, InCommit
  <2>7. CASE outstanding' # 0
    BY <1>10, <2>1, <2>5, <2>7 DEF end_op, ControlInv, InCommit, Woken
  <2> QED BY Zenon, <2>6, <2>7
<1>11. ASSUME NEW p \in Proc, commit(p) PROVE ControlInv'
  <2>1. CASE write_log(p) BY Zenon, <2>1, QuietStep DEF write_log
  <2>2. CASE write_head(p)
    <3>1. active' = active BY Zenon, <2>2 DEF write_head, active, InOp
    <3> QED BY <2>2, <3>1 DEF write_head, ControlInv, InCommit
  <2>3. CASE install_trans(p) BY Zenon, <2>3, QuietStep DEF install_trans
  <2>4. CASE erase(p)
    <3>1. active' = active BY Zenon, <2>4 DEF erase, active, InOp
    <3> QED BY Zenon, <2>4, <3>1 DEF erase, ControlInv, InCommit
  <2> QED BY Zenon, <1>11, <2>1, <2>2, <2>3, <2>4 DEF commit
<1>12. ASSUME NEW p \in Proc, committed(p) PROVE ControlInv'
  <2>1. active' = active BY Zenon, <1>12 DEF committed, active, InOp, Woken
  <2> QED BY Zenon, <1>12, <2>1 DEF committed, ControlInv, InCommit, Woken
<1>13. CASE Crash
  <2>1. active' = {} BY Zenon, <1>13 DEF Crash, active, InOp
  <2> QED BY Zenon, <1>13, <2>1, FS_EmptySet DEF Crash, ControlInv, InCommit
<1>14. CASE UNCHANGED vars BY Zenon, <1>14, QuietStep DEF vars
<1> QED
  BY Zenon, <1>1, <1>2, <1>3, <1>4, <1>5, <1>6, <1>7, <1>8, <1>9, <1>10, <1>11,
     <1>12, <1>13, <1>14 DEF Next, recover_from_log

(* Outside operations, and so during recovery and commit, a change of the  *)
(* log header that keeps it short enough is harmless.                      *)
LEMMA IdleStep ==
  ASSUME SpaceInv, active = {}, active' = {}, Len(lh)' <= LOGBLOCKS,
         Len(dhead)' <= LOGBLOCKS, Len(lh)' \in Nat
  PROVE  BufInv' /\ LengthInv' /\ LogSpace'
<1>1. Reserved' = {} BY Zenon DEF Reserved, ReservedBy
<1>2. Cardinality(Reserved') = 0 BY Zenon, <1>1, FS_EmptySet
<1> QED BY <1>2, LogAssumption DEF BufInv, LengthInv, LogSpace, active, InOp

(* No step of an operation, a commit, a crash or a recovery takes more of  *)
(* the log than is reserved for it.                                        *)
LEMMA SpaceStep == SpaceInv /\ [Next]_vars => BufInv' /\ LengthInv' /\ LogSpace'
<1> DEFINE Goal == BufInv' /\ LengthInv' /\ LogSpace'
<1> SUFFICES ASSUME SpaceInv, [Next]_vars PROVE Goal BY Zenon
<1> USE LogAssumption DEF SpaceInv, TypeOK, diskVars, logVars, procVars
<1>a. active \in SUBSET Proc /\ active' \in SUBSET Proc BY Zenon DEF active
<1>b. /\ Cardinality(Reserved) \in Nat
      /\ Cardinality(Reserved') \in Nat
      /\ Cardinality(Reserved') <= Cardinality(active') * MAXOPBLOCKS
  BY <1>a, ReservedBound, Zenon DEF Reserved
<1>1. CASE read_head
  <2>1. active = {} /\ active' = {} BY <1>1 DEF read_head, ControlInv, active, InOp
  <2> QED BY <1>1, <2>1, IdleStep DEF read_head, LengthInv
<1>2. CASE recover_block BY Zenon, <1>2, QuietStep DEF recover_block, LengthInv
<1>3. CASE recover_clear
  <2>1. active = {} /\ active' = {}
    BY <1>3 DEF recover_clear, ControlInv, active, InOp
  <2> QED BY <1>3, <2>1, IdleStep DEF recover_clear, LengthInv
<1>4. ASSUME NEW b \in Block, Fetch(b) PROVE Goal
  BY Zenon, <1>4, QuietStep DEF Fetch, LengthInv
<1>5. ASSUME NEW b \in Block, Evict(b) PROVE Goal
  BY Zenon, <1>5, QuietStep DEF Evict, LengthInv
<1>6. ASSUME NEW p \in Proc, Start(p) PROVE Goal
  <2>1. Reserved' = Reserved BY Zenon, <1>6 DEF Start, Reserved, active, InOp
  <2> QED BY Zenon, <1>6, <2>1 DEF Start, BufInv, LengthInv, LogSpace, logged
<1>7. ASSUME NEW p \in Proc, begin_op(p) PROVE Goal
  <2>1. BufInv' /\ LengthInv'
    <3>1. CASE MustWait
      BY <1>7, <3>1 DEF begin_op, BufInv, LengthInv, logged
    <3>2. CASE ~MustWait
      BY <1>7, <3>2 DEF begin_op, BufInv, LengthInv, logged
    <3> QED BY Zenon, <3>1, <3>2
  <2>2. LogSpace'
    <3>1. CASE MustWait
      <4>1. Reserved' = Reserved
        BY Zenon, <1>7, <3>1 DEF begin_op, Reserved, active, InOp
      <4> QED BY Zenon, <1>7, <3>1, <4>1 DEF begin_op, LogSpace
    <3>2. CASE ~MustWait
      <4>1. outstanding' = Cardinality(active') BY Zenon, ControlStep DEF ControlInv
      <4>2. outstanding' = outstanding + 1 /\ lh' = lh
        BY Zenon, <1>7, <3>2 DEF begin_op
      <4>3. Cardinality(Reserved') <= (outstanding + 1) * MAXOPBLOCKS
        BY Zenon, <1>b, <4>1, <4>2
      <4>4. Len(lh) + (outstanding + 1) * MAXOPBLOCKS <= LOGBLOCKS
        <5>1. ~(Len(lh) + (outstanding + 1) * MAXOPBLOCKS > LOGBLOCKS)
          BY Zenon, <3>2 DEF MustWait
        <5>2. Len(lh) \in Nat /\ (outstanding + 1) * MAXOPBLOCKS \in Nat OBVIOUS
        <5> QED BY <5>1, <5>2
      <4> QED BY <1>b, <4>2, <4>3, <4>4 DEF LogSpace
    <3> QED BY Zenon, <3>1, <3>2
  <2> QED BY Zenon, <2>1, <2>2
<1>8. ASSUME NEW p \in Proc, NEW b \in Block, NEW v \in Val, modify(p, b, v)
      PROVE  Goal
  <2>1. Reserved' = Reserved BY Zenon, <1>8 DEF modify, Reserved, active, InOp
  <2> QED BY Zenon, <1>8, <2>1 DEF modify, BufInv, LengthInv, LogSpace, logged
<1>9. ASSUME NEW p \in Proc, log_write(p) PROVE Goal
  <2>0. active' = active /\ p \in active
    BY Zenon, <1>9 DEF log_write, active, InOp
  <2>1. CASE buf[p] \in logged
    <3>1. Reserved' = Reserved BY Zenon, <1>9, <2>0, <2>1 DEF log_write, Reserved
    <3> QED BY <1>9, <2>1, <3>1 DEF log_write, BufInv, LengthInv, LogSpace, logged
  <2>2. CASE buf[p] \notin logged
    <3>1. buf[p] \in Block /\ used[p] < OPBLOCKS /\ boot = "up"
      BY Zenon, <1>9, <2>2 DEF log_write, BufInv, ControlInv
    <3>2. lh' = Append(lh, buf[p]) /\ used' = [used EXCEPT ![p] = @ + 1]
      BY <1>9, <2>2, Zenon DEF log_write
    <3>3. Cardinality(Reserved') = Cardinality(Reserved) - 1
      BY <2>0, <3>1, <3>2, TakeReserved DEF Reserved, active
    <3>4. Len(lh') = Len(lh) + 1 BY <3>1, <3>2
    <3>5. LogSpace' /\ LengthInv'
      <4>1. Len(lh) + Cardinality(Reserved) <= LOGBLOCKS BY Zenon, <3>1 DEF LogSpace
      <4>2. Len(lh') + Cardinality(Reserved') <= LOGBLOCKS
        BY <3>3, <3>4, <4>1, <1>b
      <4>3. dhead' = dhead BY Zenon, <1>9 DEF log_write
      <4> QED BY <4>2, <4>3, <3>4, <1>b DEF LogSpace, LengthInv
    <3>6. BufInv'
      <4>1. \A i \in 1..Len(lh) : lh'[i] = lh[i] BY <3>1, <3>2
      <4>2. logged \subseteq logged' BY <3>4, <4>1 DEF logged
      <4>3. ASSUME NEW q \in Proc, pc'[q] = "modified"
            PROVE  buf'[q] = buf[q] /\ used'[q] = used[q] /\ pc[q] = "modified"
        <5>1. q # p BY Zenon, <1>9, <4>3 DEF log_write
        <5> QED BY Zenon, <1>9, <4>3, <5>1, <3>2 DEF log_write
      <4> QED BY Zenon, <4>2, <4>3 DEF BufInv
    <3> QED BY Zenon, <3>5, <3>6
  <2> QED BY Zenon, <2>1, <2>2
<1>10. ASSUME NEW p \in Proc, end_op(p) PROVE Goal
  <2>1. active' \in SUBSET active /\ lh' = lh /\ used' = used /\ boot' = boot
    <3>1. CASE outstanding' = 0
      BY Zenon, <1>10, <3>1 DEF end_op, active, InOp
    <3>2. CASE outstanding' # 0
      BY Zenon, <1>10, <3>2 DEF end_op, active, InOp, Woken
    <3> QED BY Zenon, <3>1, <3>2
  <2>2. Cardinality(Reserved') <= Cardinality(Reserved)
    BY Zenon, <1>a, <2>1, ReservedMonotone DEF Reserved
  <2>3. LogSpace' BY <1>b, <2>1, <2>2 DEF LogSpace
  <2>4. BufInv'
    <3>1. ASSUME NEW q \in Proc, pc'[q] = "modified" PROVE pc[q] = "modified"
      <4>1. CASE outstanding' = 0
        BY Zenon, <1>10, <4>1, <3>1 DEF end_op
      <4>2. CASE outstanding' # 0
        BY Zenon, <1>10, <4>2, <3>1 DEF end_op, Woken
      <4> QED BY Zenon, <4>1, <4>2
    <3> QED BY <1>10, <2>1, <3>1 DEF end_op, BufInv, logged
  <2> QED BY Zenon, <1>10, <2>1, <2>3, <2>4 DEF end_op, LengthInv
<1>11. ASSUME NEW p \in Proc, commit(p) PROVE Goal
  <2>1. CASE write_log(p) BY Zenon, <2>1, QuietStep DEF write_log, LengthInv
  <2>2. CASE write_head(p)
    <3>1. active = {} /\ active' = {}
      BY Zenon, <2>2 DEF write_head, ControlInv, InCommit, active, InOp
    <3> QED BY <2>2, <3>1, IdleStep DEF write_head, LengthInv
  <2>3. CASE install_trans(p) BY Zenon, <2>3, QuietStep DEF install_trans, LengthInv
  <2>4. CASE erase(p)
    <3>1. active = {} /\ active' = {}
      BY <2>4 DEF erase, ControlInv, InCommit, active, InOp
    <3> QED BY <2>4, <3>1, IdleStep DEF erase, LengthInv
  <2> QED BY Zenon, <1>11, <2>1, <2>2, <2>3, <2>4 DEF commit
<1>12. ASSUME NEW p \in Proc, committed(p) PROVE Goal
  <2>1. active = {} /\ active' = {}
    BY <1>12 DEF committed, ControlInv, InCommit, active, InOp, Woken
  <2> QED BY <1>12, <2>1, IdleStep DEF committed, LengthInv
<1>13. CASE Crash
  <2>1. active' = {} BY Zenon, <1>13 DEF Crash, active, InOp
  <2>2. Reserved' = {} BY Zenon, <2>1 DEF Reserved, ReservedBy
  <2> QED BY <1>13, <2>1, <2>2, FS_EmptySet
          DEF Crash, BufInv, LengthInv, LogSpace
<1>14. CASE UNCHANGED vars BY Zenon, <1>14, QuietStep DEF vars, LengthInv
<1> HIDE DEF Goal
<1> QED
  BY Zenon, <1>1, <1>2, <1>3, <1>4, <1>5, <1>6, <1>7, <1>8, <1>9, <1>10, <1>11,
     <1>12, <1>13, <1>14 DEF Next, recover_from_log

-------------------------------------------------------------------------------
(* The theorems.                                                           *)

(* The inductive invariant holds in every state.                           *)
THEOREM SpaceInvariant == Spec => []SpaceInv
<1>1. SpaceInv /\ [Next]_vars => SpaceInv'
  BY Zenon, TypeStep, ControlStep, SpaceStep DEF SpaceInv
<1> QED BY SpaceInitial, <1>1, PTL DEF Spec

(* Type correctness of the log's state: in particular the number of        *)
(* outstanding operations is never negative and no operation adds more     *)
(* than OPBLOCKS blocks to the log.                                        *)
THEOREM LogTypes == Spec => []TypeOK
BY SpaceInvariant, PTL DEF SpaceInv

(* The reservation of begin_op() is enough, for any number of processes,   *)
(* any log size and any MAXOPBLOCKS: the log never overflows.              *)
THEOREM LogSpaceReserved == Spec => []LogSpace
BY SpaceInvariant, PTL DEF SpaceInv

(* If operations use less than they reserve, no panic of log.c is ever     *)
(* reached.                                                                *)
THEOREM LogNeverPanics ==
  ASSUME OPBLOCKS < MAXOPBLOCKS
  PROVE  Spec => []NoPanic
<1>1. SpaceInv => NoPanic
  <2> SUFFICES ASSUME SpaceInv PROVE NoPanic BY Zenon
  <2>1. ASSUME NEW p \in Proc, pc[p] = "modified" PROVE LogWriteOK
    <3>1. p \in active /\ active \in SUBSET Proc /\ boot = "up"
      BY Zenon, <2>1 DEF active, InOp, SpaceInv, ControlInv
    <3>2. outstanding \in Nat /\ outstanding # 0
      BY Zenon, <3>1, ActiveFinite, FS_EmptySet DEF SpaceInv, ControlInv
    <3>3. <<p, MAXOPBLOCKS>> \in Reserved
      BY <3>1, LogAssumption DEF Reserved, ReservedBy, SpaceInv, TypeOK
    <3>4. IsFiniteSet(Reserved) /\ Cardinality(Reserved) \in Nat
      BY Zenon, <3>1, ReservedBound DEF Reserved
    <3>5. Cardinality(Reserved) # 0 BY Zenon, <3>3, <3>4, FS_EmptySet
    <3>6. Len(lh) \in Nat /\ Len(lh) + Cardinality(Reserved) <= LOGBLOCKS
      BY <3>1 DEF SpaceInv, LogSpace, TypeOK
    <3> QED BY <3>2, <3>4, <3>5, <3>6, LogAssumption DEF LogWriteOK
  <2>2. ASSUME NEW p \in Proc, pc[p] = "op" PROVE ~committing
    BY Zenon, <2>2 DEF SpaceInv, ControlInv, active, InOp
  <2> QED BY Zenon, <2>1, <2>2 DEF NoPanic
<1> QED BY <1>1, SpaceInvariant, PTL

-------------------------------------------------------------------------------
(* kernel/log.c implements AtomicDisk.                                     *)

Positions(s) == 1..Len(s)

NoRepeats(s) == \A i, j \in Positions(s) : s[i] = s[j] => i = j

installing == \E p \in Proc : pc[p] = "install_trans"

\* The blocks that wait to be copied to their place on the disk.
Pending == {lh[i] : i \in {j \in Positions(lh) : installing => j >= tail}}

\* A block is in the log once, and in the header on the disk from the commit
\* point until it is installed.
HeaderInv ==
  /\ NoRepeats(lh) /\ NoRepeats(dhead)
  /\ boot = "install_trans" => lh = dhead
  /\ boot = "up" => dhead = IF installing THEN lh ELSE <<>>
  /\ boot = "up" /\ outstanding = 0 /\ ~committing => lh = <<>>
  /\ \A p \in Proc : pc[p] = "committed" => lh = <<>>

\* A buffer that differs from its block on the disk is pinned or locked.
CacheInv ==
  /\ pinned = IF boot = "up" THEN Pending ELSE {}
  /\ \A p \in Proc : buf[p] # None => pc[p] = "modified"
  /\ \A b \in Block : b \notin pinned /\ ~Held(b) /\ cache[b] # None => cache[b] = disk[b]

\* What the loops of write_log() and install_trans() have done so far.
LoopInv ==
  /\ \A p \in Proc : pc[p] = "write_log" =>
       \A i \in Positions(lh) : i < tail => dlog[i] = Data(lh[i])
  /\ installing => \A i \in Positions(lh) : dlog[i] = Data(lh[i])
  /\ installing \/ boot = "install_trans" =>
       \A i \in Positions(lh) : i < tail => disk[lh[i]] = dlog[i]

AtomInv == HeaderInv /\ CacheInv /\ LoopInv

-------------------------------------------------------------------------------
(* What a crash would leave, and what running operations see.              *)

(* A block that is in the header may be written to its place unseen.       *)
LEMMA SameDurable ==
  ASSUME UNCHANGED <<dhead, dlog>>,
         \A b \in Block : (\A i \in Positions(dhead) : dhead[i] # b) => disk'[b] = disk[b]
  PROVE  Durable' = Durable
BY Zenon DEF Durable, Positions

(* Erasing the header of an installed log changes nothing.                 *)
LEMMA ErasedDurable ==
  ASSUME dhead' = <<>>, disk' = disk, \A i \in Positions(dhead) : disk[dhead[i]] = dlog[i]
  PROVE  Durable' = Durable
<1>1. Durable' = [b \in Block |-> disk[b]]
  <2>1. 1..Len(dhead') = {} OBVIOUS
  <2> QED BY Zenon, <2>1 DEF Durable
<1>2. ASSUME NEW b \in Block PROVE Durable[b] = disk[b]
  <2>1. CASE \E i \in 1..Len(dhead) : dhead[i] = b
    <3> DEFINE c == CHOOSE i \in 1..Len(dhead) : dhead[i] = b
    <3>1. c \in 1..Len(dhead) /\ dhead[c] = b BY Zenon, <2>1
    <3>2. Durable[b] = dlog[c] BY Zenon, <2>1 DEF Durable
    <3> HIDE DEF c
    <3> QED BY Zenon, <3>1, <3>2 DEF Positions
  <2>2. CASE ~(\E i \in 1..Len(dhead) : dhead[i] = b) BY Zenon, <2>2 DEF Durable
  <2> QED BY Zenon, <2>1, <2>2
<1> QED BY <1>1, <1>2 DEF Durable

(* Writing the header of a complete log makes everything durable.          *)
LEMMA WrittenDurable ==
  ASSUME dhead' = lh, UNCHANGED <<disk, dlog>>,
         \A i \in Positions(lh) : dlog[i] = Data(lh[i]),
         \A b \in Block : (\A i \in Positions(lh) : lh[i] # b) => disk[b] = Data(b)
  PROVE  Durable' = [b \in Block |-> Data(b)]
<1>1. ASSUME NEW b \in Block PROVE Durable'[b] = Data(b)
  <2>1. CASE \E i \in 1..Len(lh) : lh[i] = b
    <3> DEFINE c == CHOOSE i \in 1..Len(lh) : lh[i] = b
    <3>1. c \in 1..Len(lh) /\ lh[c] = b BY Zenon, <2>1
    <3>2. Durable'[b] = dlog[c] BY Zenon, <2>1 DEF Durable
    <3> HIDE DEF c
    <3> QED BY Zenon, <3>1, <3>2 DEF Positions
  <2>2. CASE ~(\E i \in 1..Len(lh) : lh[i] = b) BY Zenon, <2>2 DEF Durable, Positions
  <2> QED BY Zenon, <2>1, <2>2
<1> QED BY <1>1 DEF Durable

(* With an empty header the disk is what a crash leaves.                   *)
LEMMA EmptyDurable == ASSUME dhead = <<>> PROVE Durable = [b \in Block |-> disk[b]]
<1>1. 1..Len(dhead) = {} OBVIOUS
<1> QED BY Zenon, <1>1 DEF Durable

(* A step that leaves all three as they are is a stutter of AtomicDisk.    *)
LEMMA Stutter ==
  ASSUME Current' = Current, Durable' = Durable, active' = active
  PROVE  UNCHANGED AD!vars
BY Zenon DEF AD!vars

-------------------------------------------------------------------------------
(* Recovery: the header on the disk is installed, and nothing is running.  *)

(* fsinit() is the only one that runs.                                     *)
LEMMA Booting ==
  ASSUME SpaceInv, boot # "up"
  PROVE  active = {} /\ ~installing /\ \A p \in Proc : pc[p] = "idle"
BY Zenon DEF SpaceInv, ControlInv, active, InOp, installing

(* read_head() takes over the header of the disk.                          *)
LEMMA ReadHeadStep ==
  ASSUME SpaceInv, AtomInv, read_head PROVE AtomInv' /\ UNCHANGED AD!vars
<1> USE DEF read_head, diskVars, procVars
<1>1. boot # "up" /\ boot' # "up" BY Zenon
<1>2. Durable' = Durable /\ active' = active BY Zenon, SameDurable DEF active
<1>3. Current' = Current BY Zenon, <1>1, <1>2 DEF Current
<1>4. ~installing /\ ~installing' /\ \A p \in Proc : pc'[p] = "idle"
  BY Zenon, <1>1, Booting DEF installing
<1>5. HeaderInv' BY <1>4 DEF AtomInv, HeaderInv, NoRepeats, Positions
<1>6. CacheInv' BY Zenon, <1>4 DEF AtomInv, CacheInv, Held
<1>7. LoopInv'
  <2>1. \A i \in Positions(lh') : ~(i < tail') BY DEF Positions
  <2> QED BY Zenon, <1>4, <2>1 DEF LoopInv
<1> QED BY Zenon, <1>2, <1>3, <1>5, <1>6, <1>7, Stutter DEF AtomInv

(* install_trans(1) writes a block that recovery would write again.        *)
LEMMA RecoverBlockStep ==
  ASSUME SpaceInv, AtomInv, recover_block PROVE AtomInv' /\ UNCHANGED AD!vars
<1> USE DEF recover_block, diskVars, procVars, logVars
<1>1. boot # "up" /\ boot' # "up" /\ boot = "install_trans" BY Zenon
<1>2. lh = dhead /\ tail \in Positions(lh) /\ lh \in Seq(Block) /\ tail \in Nat
  BY DEF AtomInv, HeaderInv, SpaceInv, TypeOK, Positions
<1>3. Durable' = Durable /\ active' = active
  <2>1. ASSUME NEW b \in Block, \A i \in Positions(dhead) : dhead[i] # b PROVE disk'[b] = disk[b]
    BY Zenon, <1>2, <2>1 DEF SpaceInv, TypeOK
  <2> QED BY Zenon, <2>1, SameDurable DEF active
<1>4. Current' = Current BY Zenon, <1>1, <1>3 DEF Current
<1>5. ~installing /\ ~installing' /\ \A p \in Proc : pc'[p] = "idle"
  BY Zenon, <1>1, Booting DEF installing
<1>6. HeaderInv' BY <1>5 DEF AtomInv, HeaderInv, NoRepeats, Positions
<1>7. CacheInv'
  <2>1. ASSUME NEW b \in Block, b \notin pinned', ~Held(b)', cache'[b] # None
        PROVE cache'[b] = disk'[b]
    <3>1. CASE b = lh[tail] BY Zenon, <1>2, <3>1 DEF SpaceInv, TypeOK
    <3>2. CASE b # lh[tail] BY Zenon, <1>2, <2>1, <3>2 DEF AtomInv, CacheInv, SpaceInv, TypeOK, Held
    <3> QED BY Zenon, <3>1, <3>2
  <2> QED BY Zenon, <1>1, <1>5, <2>1 DEF AtomInv, CacheInv
<1>8. LoopInv'
  <2>1. ASSUME NEW i \in Positions(lh'), i < tail' PROVE disk'[lh'[i]] = dlog'[i]
    <3>1. CASE i = tail BY <1>2, <3>1 DEF SpaceInv, TypeOK
    <3>2. CASE i # tail
      <4>1. i \in Positions(lh) /\ i < tail BY <1>2, <2>1, <3>2 DEF Positions
      <4>2. lh[i] # lh[tail] BY Zenon, <1>2, <3>2, <4>1 DEF AtomInv, HeaderInv, NoRepeats
      <4>3. lh[i] \in Block BY <1>2, <4>1 DEF Positions
      <4> QED BY Zenon, <1>1, <4>1, <4>2, <4>3 DEF AtomInv, LoopInv, SpaceInv, TypeOK
    <3> QED BY Zenon, <3>1, <3>2
  <2> QED BY Zenon, <1>5, <2>1 DEF LoopInv
<1> QED BY Zenon, <1>3, <1>4, <1>6, <1>7, <1>8, Stutter DEF AtomInv

(* The header is erased when all its blocks are in their place.            *)
LEMMA RecoverClearStep ==
  ASSUME SpaceInv, AtomInv, recover_clear PROVE AtomInv' /\ UNCHANGED AD!vars
<1> USE DEF recover_clear, diskVars, procVars
<1>1. boot = "install_trans" /\ boot' = "up" /\ lh' = <<>> /\ dhead' = <<>> BY Zenon
<1>2. lh = dhead /\ lh \in Seq(Block) /\ tail \in Nat BY Zenon DEF AtomInv, HeaderInv, SpaceInv, TypeOK
<1>3. \A i \in Positions(dhead) : disk[dhead[i]] = dlog[i]
  BY <1>1, <1>2 DEF AtomInv, LoopInv, Positions
<1>4. Durable' = Durable /\ active' = active BY Zenon, <1>3, ErasedDurable DEF active
<1>5. ~installing /\ ~installing' /\ \A p \in Proc : pc'[p] = "idle"
  BY Zenon, <1>1, Booting DEF installing
<1>6. Positions(lh') = {} /\ Positions(dhead') = {} BY <1>1 DEF Positions
<1>7. \A b \in Block : ~Held(b)
  BY Zenon, <1>1, Booting, LogAssumption DEF Held, AtomInv, CacheInv
<1>8. \A b \in Block : cache[b] # None => cache[b] = disk[b]
  BY Zenon, <1>1, <1>7 DEF AtomInv, CacheInv
<1>9. Current' = Current
  <2>1. Durable' = [b \in Block |-> disk[b]] BY <1>1, EmptyDurable DEF Durable
  <2>2. Current' = [b \in Block |-> disk[b]] BY Zenon, <1>1, <1>8 DEF Current, Data
  <2> QED BY Zenon, <1>1, <1>4, <2>1, <2>2 DEF Current
<1>10. HeaderInv' BY Zenon, <1>1, <1>5, <1>6 DEF HeaderInv, NoRepeats
<1>11. CacheInv'
  <2>1. pinned' = {} /\ Pending' = {} BY Zenon, <1>1, <1>6 DEF Pending, AtomInv, CacheInv
  <2> QED BY Zenon, <1>1, <1>8, <2>1 DEF AtomInv, CacheInv
<1>12. LoopInv' BY Zenon, <1>5, <1>6 DEF LoopInv
<1> QED BY Zenon, <1>4, <1>9, <1>10, <1>11, <1>12, Stutter DEF AtomInv

-------------------------------------------------------------------------------
(* The buffer cache: a clean buffer comes and goes.                        *)

(* A step of the cache that keeps what bread() returns.                    *)
LEMMA CacheStep ==
  ASSUME SpaceInv, AtomInv, \A b \in Block : Data(b)' = Data(b),
         \A b \in Block : cache'[b] # None => cache'[b] = cache[b] \/ cache'[b] = disk[b],
         UNCHANGED <<diskVars, pinned, logVars, procVars, tail, boot>>
  PROVE  AtomInv' /\ UNCHANGED AD!vars
<1> USE DEF diskVars, procVars, logVars
<1>1. Durable' = Durable /\ active' = active BY Zenon, SameDurable DEF active
<1>2. Current' = Current BY Zenon, <1>1 DEF Current
<1>3. installing' = installing /\ (\A b \in Block : Held(b)' = Held(b)) /\ Pending' = Pending
  BY Zenon DEF installing, Held, Pending, Positions
<1>4. HeaderInv' BY <1>3 DEF AtomInv, HeaderInv, NoRepeats, Positions
<1>5. CacheInv' BY Zenon, <1>3 DEF AtomInv, CacheInv, SpaceInv, TypeOK, Data
<1>6. LoopInv'
  <2>1. \A i \in Positions(lh) : lh[i] \in Block BY DEF SpaceInv, TypeOK, Positions
  <2>2. \A i \in Positions(lh) : Data(lh[i])' = Data(lh[i]) BY Zenon, <2>1
  <2>3. Positions(lh') = Positions(lh) BY Zenon DEF Positions
  <2> QED BY Zenon, <1>3, <2>2, <2>3 DEF AtomInv, LoopInv
<1> QED BY Zenon, <1>1, <1>2, <1>4, <1>5, <1>6, Stutter DEF AtomInv

(* bread() of a process outside the log.                                   *)
LEMMA FetchStep ==
  ASSUME SpaceInv, AtomInv, NEW c \in Block, Fetch(c) PROVE AtomInv' /\ UNCHANGED AD!vars
<1>1. \A b \in Block : Data(b)' = Data(b) BY Zenon, LogAssumption DEF Fetch, Data, SpaceInv, TypeOK, diskVars
<1>2. \A b \in Block : cache'[b] # None => cache'[b] = cache[b] \/ cache'[b] = disk[b]
  BY Zenon DEF Fetch, SpaceInv, TypeOK
<1> QED BY Zenon, <1>1, <1>2, CacheStep DEF Fetch

(* A buffer without references is what is on the disk.                     *)
LEMMA EvictStep ==
  ASSUME SpaceInv, AtomInv, NEW c \in Block, Evict(c) PROVE AtomInv' /\ UNCHANGED AD!vars
<1>1. cache[c] = disk[c] BY Zenon DEF Evict, AtomInv, CacheInv
<1>2. \A b \in Block : Data(b)' = Data(b)
  BY Zenon, <1>1, LogAssumption DEF Evict, Data, SpaceInv, TypeOK, diskVars
<1>3. \A b \in Block : cache'[b] # None => cache'[b] = cache[b] \/ cache'[b] = disk[b]
  BY Zenon DEF Evict, SpaceInv, TypeOK
<1> QED BY Zenon, <1>2, <1>3, CacheStep DEF Evict

-------------------------------------------------------------------------------
(* Operations.                                                             *)

(* A step that moves processes only, and none into or inside a commit.     *)
LEMMA MoveStep ==
  ASSUME SpaceInv, AtomInv, UNCHANGED <<diskVars, cache, pinned, lh, buf, tail, boot>>,
         \A p \in Proc : pc'[p] \in {"write_log", "install_trans", "committed"} => pc'[p] = pc[p],
         \A p \in Proc : pc[p] \in {"install_trans", "modified"} => pc'[p] = pc[p],
         boot = "up" /\ outstanding' = 0 /\ ~committing' => lh = <<>>
  PROVE  AtomInv' /\ Current' = Current /\ Durable' = Durable
<1> USE DEF diskVars
<1>1. installing' = installing BY Zenon DEF installing
<1>2. (\A b \in Block : Held(b)' = Held(b) /\ Data(b)' = Data(b)) /\ Pending' = Pending
  BY Zenon, <1>1 DEF Held, Data, Pending, Positions
<1>3. Durable' = Durable BY Zenon, SameDurable
<1>4. Current' = Current BY Zenon, <1>2, <1>3 DEF Current
<1>5. HeaderInv' BY <1>1 DEF AtomInv, HeaderInv, NoRepeats, Positions
<1>6. CacheInv' BY Zenon, <1>2 DEF AtomInv, CacheInv
<1>7. LoopInv'
  <2>1. Positions(lh') = Positions(lh) /\ \A i \in Positions(lh) : lh[i] \in Block
    BY DEF SpaceInv, TypeOK, Positions
  <2> QED BY <1>1, <1>2, <2>1 DEF AtomInv, LoopInv
<1> QED BY Zenon, <1>3, <1>4, <1>5, <1>6, <1>7 DEF AtomInv

(* A process enters begin_op().                                            *)
LEMMA StartStep ==
  ASSUME SpaceInv, AtomInv, NEW p \in Proc, Start(p) PROVE AtomInv' /\ UNCHANGED AD!vars
<1> USE DEF Start, logVars
<1>1. AtomInv' /\ Current' = Current /\ Durable' = Durable
  BY Zenon, MoveStep DEF SpaceInv, TypeOK, AtomInv, HeaderInv
<1>2. active' = active BY Zenon DEF active, InOp, SpaceInv, TypeOK
<1> QED BY Zenon, <1>1, <1>2, Stutter

(* begin_op() goes to sleep, or begins an operation.                       *)
LEMMA BeginStep ==
  ASSUME SpaceInv, AtomInv, NEW p \in Proc, begin_op(p) PROVE AtomInv' /\ [AD!Next]_AD!vars
<1>1. CASE MustWait
  <2>1. AtomInv' /\ Current' = Current /\ Durable' = Durable
    BY Zenon, <1>1, MoveStep DEF begin_op, SpaceInv, TypeOK, AtomInv, HeaderInv
  <2>2. active' = active BY Zenon, <1>1 DEF begin_op, active, InOp, SpaceInv, TypeOK
  <2> QED BY Zenon, <2>1, <2>2, Stutter
<1>2. CASE ~MustWait
  <2>1. outstanding' # 0 BY <1>2 DEF begin_op, SpaceInv, TypeOK
  <2>2. AtomInv' /\ Current' = Current /\ Durable' = Durable
    BY <1>2, <2>1, MoveStep DEF begin_op, SpaceInv, TypeOK
  <2>3. active' = active \cup {p} /\ p \notin active
    BY <1>2 DEF begin_op, active, InOp, SpaceInv, TypeOK
  <2>4. AD!Begin(p) BY Zenon, <2>2, <2>3 DEF AD!Begin
  <2> QED BY Zenon, <2>2, <2>4 DEF AD!Next
<1> QED BY Zenon, <1>1, <1>2

(* While an operation runs, nobody commits and the header is erased.       *)
LEMMA Running ==
  ASSUME SpaceInv, AtomInv, NEW p \in Proc, pc[p] \in InOp
  PROVE  /\ boot = "up" /\ p \in active /\ ~committing /\ ~installing
         /\ \A q \in Proc : pc[q] \notin InCommit
         /\ dhead = <<>> /\ Pending = logged
<1>1. boot = "up" /\ p \in active BY Zenon DEF SpaceInv, ControlInv, InOp, active
<1>2. ~committing BY Zenon, <1>1 DEF SpaceInv, ControlInv
<1>3. \A q \in Proc : pc[q] \notin InCommit BY Zenon, <1>2 DEF SpaceInv, ControlInv
<1>4. ~installing BY Zenon, <1>3 DEF installing, InCommit
<1>5. dhead = <<>> BY Zenon, <1>1, <1>4 DEF AtomInv, HeaderInv
<1>6. Pending = logged BY Zenon, <1>4 DEF Pending, logged, Positions
<1> QED BY Zenon, <1>1, <1>2, <1>3, <1>4, <1>5, <1>6

(* An operation changes a block in the cache, and nowhere else.            *)
LEMMA ModifyStep ==
  ASSUME SpaceInv, AtomInv, NEW p \in Proc, NEW c \in Block, NEW v \in Val, modify(p, c, v)
  PROVE  AtomInv' /\ [AD!Next]_AD!vars
<1> USE DEF modify, diskVars, logVars
<1>1. /\ boot = "up" /\ p \in active /\ ~committing /\ ~installing
      /\ \A q \in Proc : pc[q] \notin InCommit
  BY Zenon, Running DEF InOp
<1>2. ~installing' /\ \A q \in Proc : pc'[q] \notin InCommit
  BY Zenon, <1>1 DEF installing, InCommit, SpaceInv, TypeOK
<1>3. Durable' = Durable BY Zenon, SameDurable
<1>4. active' = active BY Zenon DEF active, InOp, SpaceInv, TypeOK
<1>5. Current' = [Current EXCEPT ![c] = v]
  BY Zenon, <1>1, LogAssumption DEF Current, Data, SpaceInv, TypeOK
<1>6. AD!Write(p, c, v) BY Zenon, <1>1, <1>3, <1>4, <1>5 DEF AD!Write
<1>7. HeaderInv' BY <1>1, <1>2 DEF AtomInv, HeaderInv, NoRepeats, Positions, InCommit
<1>8. CacheInv'
  <2>1. Pending' = Pending BY Zenon, <1>1, <1>2 DEF Pending, Positions
  <2>2. \A q \in Proc : buf'[q] # None => pc'[q] = "modified"
    BY Zenon DEF AtomInv, CacheInv, SpaceInv, TypeOK
  <2>3. ASSUME NEW b \in Block, b \notin pinned', ~Held(b)', cache'[b] # None
        PROVE cache'[b] = disk'[b]
    <3>1. b # c BY Zenon, <2>3 DEF Held, SpaceInv, TypeOK
    <3>2. ~Held(b)
      <4>1. buf[p] # b BY Zenon, LogAssumption DEF AtomInv, CacheInv
      <4> QED BY Zenon, <2>3, <4>1 DEF Held, SpaceInv, TypeOK
    <3> QED BY Zenon, <2>3, <3>1, <3>2 DEF AtomInv, CacheInv, SpaceInv, TypeOK
  <2> QED BY Zenon, <1>1, <2>1, <2>2, <2>3 DEF AtomInv, CacheInv
<1>9. LoopInv' BY Zenon, <1>1, <1>2 DEF LoopInv, InCommit
<1> QED BY Zenon, <1>6, <1>7, <1>8, <1>9 DEF AtomInv, AD!Next

(* log_write() pins the block, or finds it pinned.                         *)
LEMMA LogWriteStep ==
  ASSUME SpaceInv, AtomInv, NEW p \in Proc, log_write(p)
  PROVE  AtomInv' /\ UNCHANGED AD!vars
<1> USE DEF diskVars, logVars
<1>1. /\ boot = "up" /\ p \in active /\ ~committing /\ ~installing
      /\ \A q \in Proc : pc[q] \notin InCommit
      /\ dhead = <<>> /\ Pending = logged
  BY Zenon, Running DEF InOp, log_write
<1>2. ~installing' /\ \A q \in Proc : pc'[q] \notin InCommit
  BY Zenon, <1>1 DEF installing, InCommit, SpaceInv, TypeOK, log_write
<1>3. Durable' = Durable BY Zenon, SameDurable DEF log_write
<1>4. active' = active BY Zenon DEF active, InOp, SpaceInv, TypeOK, log_write
<1>5. Current' = Current BY Zenon, <1>1 DEF Current, Data, log_write
<1>6. Pending' = logged' BY Zenon, <1>2 DEF Pending, logged, Positions
<1>7. buf[p] \in Block BY Zenon DEF SpaceInv, BufInv, log_write
<1>8. /\ logged' = logged \cup {buf[p]} /\ pinned' = pinned \cup {buf[p]} /\ NoRepeats(lh')
  <2>1. CASE buf[p] \in logged
    <3>1. lh' = lh /\ pinned' = pinned BY Zenon, <2>1 DEF log_write
    <3>2. pinned = logged BY Zenon, <1>1 DEF AtomInv, CacheInv
    <3> QED BY Zenon, <2>1, <3>1, <3>2 DEF AtomInv, HeaderInv, logged
  <2>2. CASE buf[p] \notin logged
    <3>1. lh' = Append(lh, buf[p]) /\ pinned' = pinned \cup {buf[p]} BY <2>2, Zenon DEF log_write
    <3>2. /\ Len(lh') = Len(lh) + 1 /\ lh'[Len(lh) + 1] = buf[p] /\ Len(lh) \in Nat
          /\ \A i \in 1..Len(lh) : lh'[i] = lh[i]
      BY <1>7, <3>1 DEF SpaceInv, TypeOK
    <3>3. \A i \in 1..Len(lh') : i \in 1..Len(lh) \/ i = Len(lh) + 1 BY <3>2
    <3>4. logged' = logged \cup {buf[p]}
      <4>1. logged' \subseteq logged \cup {buf[p]} BY Zenon, <3>2, <3>3 DEF logged
      <4>2. logged \subseteq logged' BY <3>2 DEF logged
      <4>3. buf[p] \in logged' BY <3>2 DEF logged
      <4> QED BY Zenon, <4>1, <4>2, <4>3
    <3>5. NoRepeats(lh')
      <4>1. \A i \in 1..Len(lh) : lh[i] # buf[p] BY Zenon, <2>2 DEF logged
      <4>2. NoRepeats(lh) BY Zenon DEF AtomInv, HeaderInv
      <4> QED BY Zenon, <3>2, <3>3, <4>1, <4>2 DEF NoRepeats, Positions
    <3> QED BY Zenon, <3>1, <3>4, <3>5
  <2> QED BY Zenon, <2>1, <2>2
<1>9. HeaderInv'
  <2>1. outstanding' # 0 /\ dhead' = dhead /\ boot' = boot
    BY DEF log_write, LogWriteOK, SpaceInv, TypeOK
  <2> QED BY Zenon, <1>1, <1>2, <1>8, <2>1 DEF AtomInv, HeaderInv, InCommit
<1>10. CacheInv'
  <2>1. pinned = logged /\ boot' = "up" BY Zenon, <1>1 DEF AtomInv, CacheInv, log_write
  <2>2. \A q \in Proc : buf'[q] # None => pc'[q] = "modified"
    BY Zenon DEF AtomInv, CacheInv, SpaceInv, TypeOK, log_write
  <2>3. ASSUME NEW b \in Block, b \notin pinned', ~Held(b)', cache'[b] # None
        PROVE cache'[b] = disk'[b]
    <3>1. b # buf[p] /\ b \notin pinned BY Zenon, <1>8, <2>3
    <3>2. ~Held(b) BY Zenon, <2>3, <3>1 DEF Held, SpaceInv, TypeOK, log_write
    <3>3. cache' = cache /\ disk' = disk BY Zenon DEF log_write
    <3> QED BY Zenon, <2>3, <3>1, <3>2, <3>3 DEF AtomInv, CacheInv
  <2> QED BY Zenon, <1>6, <1>8, <2>1, <2>2, <2>3 DEF CacheInv
<1>11. LoopInv'
  <2>1. boot' = "up" BY Zenon, <1>1 DEF log_write
  <2> QED BY Zenon, <1>2, <2>1 DEF LoopInv, InCommit
<1> QED BY Zenon, <1>3, <1>4, <1>5, <1>9, <1>10, <1>11, Stutter DEF AtomInv

(* end_op() of the last operation starts the commit.                       *)
LEMMA EndStep ==
  ASSUME SpaceInv, AtomInv, NEW p \in Proc, end_op(p) PROVE AtomInv' /\ [AD!Next]_AD!vars
<1> USE DEF diskVars
<1>1. /\ boot = "up" /\ p \in active /\ ~committing /\ ~installing
      /\ \A q \in Proc : pc[q] \notin InCommit
      /\ dhead = <<>> /\ Pending = logged
  BY Zenon, Running DEF InOp, end_op
<1>2. active' = active \ {p}
  <2>1. CASE outstanding' = 0 BY Zenon, <2>1 DEF end_op, active, InOp, SpaceInv, TypeOK
  <2>2. CASE outstanding' # 0 BY Zenon, <2>2 DEF end_op, active, InOp, Woken, SpaceInv, TypeOK
  <2> QED BY Zenon, <2>1, <2>2
<1>3. AtomInv' /\ Current' = Current /\ Durable' = Durable
  <2>1. CASE outstanding' # 0
    <3>1. \A q \in Proc : pc'[q] \in {"write_log", "install_trans", "committed"} => pc'[q] = pc[q]
      BY Zenon, <2>1 DEF end_op, Woken, SpaceInv, TypeOK
    <3>2. \A q \in Proc : pc[q] \in {"install_trans", "modified"} => pc'[q] = pc[q]
      BY Zenon, <2>1 DEF end_op, Woken, SpaceInv, TypeOK
    <3> QED BY Zenon, <2>1, <3>1, <3>2, MoveStep DEF end_op
  <2>2. CASE outstanding' = 0
    <3>1. /\ committing' = TRUE /\ tail' = 1
          /\ pc' = [pc EXCEPT ![p] = IF lh = <<>> THEN "committed" ELSE "write_log"]
          /\ UNCHANGED <<disk, dlog, dhead, cache, pinned, lh, buf, boot>>
      BY <2>2, Zenon DEF end_op
    <3>2. ~installing' BY Zenon, <1>1, <3>1 DEF installing, SpaceInv, TypeOK
    <3>3. Durable' = Durable BY Zenon, <3>1, SameDurable
    <3>4. Current' = Current BY Zenon, <3>1, <3>3 DEF Current, Data
    <3>5. HeaderInv'
      <4>1. \A q \in Proc : pc'[q] = "committed" => lh = <<>>
        BY Zenon, <1>1, <3>1 DEF InCommit, SpaceInv, TypeOK
      <4> QED BY <1>1, <3>1, <3>2, <4>1 DEF AtomInv, HeaderInv, NoRepeats, Positions
    <3>6. CacheInv'
      <4>1. Pending' = Pending BY Zenon, <1>1, <3>1, <3>2 DEF Pending, Positions
      <4>2. \A q \in Proc : buf'[q] # None => pc'[q] = "modified"
        <5>1. pc[p] = "op" BY Zenon DEF end_op
        <5> QED BY Zenon, <3>1, <5>1 DEF AtomInv, CacheInv, SpaceInv, TypeOK
      <4>3. \A b \in Block : Held(b)' = Held(b) BY Zenon, <3>1 DEF Held
      <4> QED BY Zenon, <3>1, <4>1, <4>2, <4>3 DEF AtomInv, CacheInv
    <3>7. LoopInv'
      <4>1. \A i \in Positions(lh') : ~(i < tail') BY <3>1 DEF Positions
      <4> QED BY Zenon, <1>1, <3>1, <3>2, <4>1 DEF LoopInv
    <3> QED BY Zenon, <3>3, <3>4, <3>5, <3>6, <3>7 DEF AtomInv
  <2> QED BY Zenon, <2>1, <2>2
<1>4. AD!End(p) BY Zenon, <1>1, <1>2, <1>3 DEF AD!End
<1> QED BY Zenon, <1>3, <1>4 DEF AD!Next

-------------------------------------------------------------------------------
(* commit().                                                               *)

(* The process that commits is alone with the log.                         *)
LEMMA Committing ==
  ASSUME SpaceInv, AtomInv, NEW p \in Proc, pc[p] \in InCommit
  PROVE  /\ boot = "up" /\ active = {} /\ committing
         /\ installing <=> pc[p] = "install_trans"
         /\ \A q \in Proc : pc[q] \in InCommit => q = p
         /\ \A b \in Block : ~Held(b)
<1>1. committing /\ \A q \in Proc : pc[q] \in InCommit => q = p BY Zenon DEF SpaceInv, ControlInv
<1>2. boot = "up" /\ active = {} BY Zenon, <1>1 DEF SpaceInv, ControlInv, InCommit
<1>3. installing <=> pc[p] = "install_trans" BY Zenon, <1>1 DEF installing, InCommit
<1>4. ASSUME NEW b \in Block PROVE ~Held(b)
  <2>1. \A q \in Proc : pc[q] # "modified" BY Zenon, <1>2 DEF active, InOp
  <2> QED BY Zenon, <2>1, LogAssumption DEF Held, AtomInv, CacheInv
<1> QED BY Zenon, <1>1, <1>2, <1>3, <1>4

(* write_log() copies a block to a part of the disk nobody looks at yet.   *)
LEMMA WriteLogStep ==
  ASSUME SpaceInv, AtomInv, NEW p \in Proc, write_log(p) PROVE AtomInv' /\ UNCHANGED AD!vars
<1> USE DEF write_log, logVars, procVars
<1>1. /\ boot = "up" /\ ~installing /\ \A b \in Block : ~Held(b)
      /\ \A q \in Proc : pc[q] \in InCommit => q = p
  BY Zenon, Committing DEF InCommit
<1>2. tail \in Positions(lh) /\ lh[tail] \in Block /\ tail \in Nat /\ tail \in 1..LOGBLOCKS
      /\ lh \in Seq(Block) /\ Len(lh) \in Nat
  BY LogAssumption DEF SpaceInv, TypeOK, LengthInv, Positions
<1>3. \A b \in Block : Data(b)' = Data(b)
  BY Zenon, <1>2, DataType, LogAssumption DEF Data, SpaceInv, TypeOK
<1>4. dhead = <<>> /\ dhead' = <<>> /\ ~installing' BY Zenon, <1>1 DEF AtomInv, HeaderInv, installing
<1>5. Durable' = Durable
  <2>1. Durable = [b \in Block |-> disk[b]] BY Zenon, <1>4, EmptyDurable
  <2>2. Durable' = [b \in Block |-> disk'[b]] BY <1>4, EmptyDurable DEF Durable
  <2> QED BY Zenon, <2>1, <2>2
<1>6. Current' = Current BY Zenon, <1>1, <1>3 DEF Current
<1>7. active' = active BY Zenon DEF active
<1>8. HeaderInv' BY <1>1, <1>4 DEF AtomInv, HeaderInv, NoRepeats, Positions
<1>9. CacheInv'
  <2>1. Pending' = Pending /\ \A b \in Block : Held(b)' = Held(b)
    BY Zenon, <1>1, <1>4 DEF Pending, Positions, Held
  <2>2. lh[tail] \in pinned
    <3>1. lh[tail] \in Pending BY Zenon, <1>1, <1>2 DEF Pending
    <3> QED BY Zenon, <1>1, <3>1 DEF AtomInv, CacheInv
  <2>3. ASSUME NEW b \in Block, b \notin pinned', ~Held(b)', cache'[b] # None
        PROVE cache'[b] = disk'[b]
    <3>1. b # lh[tail] /\ b \notin pinned BY Zenon, <2>2, <2>3
    <3>2. cache'[b] = cache[b] BY Zenon, <3>1 DEF SpaceInv, TypeOK
    <3> QED BY Zenon, <2>1, <2>3, <3>1, <3>2 DEF AtomInv, CacheInv
  <2> QED BY Zenon, <2>1, <2>3 DEF AtomInv, CacheInv
<1>10. LoopInv'
  <2>1. Positions(lh') = Positions(lh) /\ \A i \in Positions(lh) : lh[i] \in Block /\ i \in Nat
    BY <1>2 DEF Positions
  <2>2. ASSUME NEW i \in Positions(lh), i < tail' PROVE dlog'[i] = Data(lh[i])'
    <3>1. CASE i = tail BY Zenon, <1>2, <1>3, <3>1 DEF SpaceInv, TypeOK
    <3>2. CASE i # tail
      <4>1. i < tail BY <1>2, <2>1, <2>2, <3>2
      <4>2. dlog[i] = Data(lh[i]) BY Zenon, <4>1 DEF AtomInv, LoopInv
      <4>3. Data(lh[i])' = Data(lh[i]) BY Zenon, <1>3, <2>1
      <4>4. dlog'[i] = dlog[i] BY <3>2 DEF SpaceInv, TypeOK
      <4> QED BY Zenon, <4>2, <4>3, <4>4
    <3> QED BY Zenon, <3>1, <3>2
  <2> QED BY Zenon, <1>1, <1>4, <2>1, <2>2 DEF LoopInv
<1> QED BY Zenon, <1>5, <1>6, <1>7, <1>8, <1>9, <1>10, Stutter DEF AtomInv

(* write_head() is the commit point: all of the log becomes durable.       *)
LEMMA WriteHeadStep ==
  ASSUME SpaceInv, AtomInv, NEW p \in Proc, write_head(p) PROVE AtomInv' /\ [AD!Next]_AD!vars
<1> USE DEF write_head, logVars
<1>1. /\ boot = "up" /\ active = {} /\ committing /\ ~installing /\ \A b \in Block : ~Held(b)
      /\ \A q \in Proc : pc[q] \in InCommit => q = p
  BY Zenon, Committing DEF InCommit
<1>2. tail \in Nat /\ Len(lh) \in Nat /\ \A i \in Positions(lh) : lh[i] \in Block /\ i < tail
  BY DEF SpaceInv, TypeOK, Positions
<1>3. \A i \in Positions(lh) : dlog[i] = Data(lh[i]) BY Zenon, <1>2 DEF AtomInv, LoopInv
<1>4. Pending = logged /\ pinned = logged BY Zenon, <1>1 DEF Pending, logged, Positions, AtomInv, CacheInv
<1>5. \A b \in Block : (\A i \in Positions(lh) : lh[i] # b) => disk[b] = Data(b)
  BY Zenon, <1>1, <1>4 DEF logged, Positions, AtomInv, CacheInv, Data
<1>6. Durable' = [b \in Block |-> Data(b)] BY Zenon, <1>3, <1>5, WrittenDurable
<1>7. Current = [b \in Block |-> Data(b)] /\ Current' = Current BY Zenon, <1>1 DEF Current, Data
<1>8. active' = active BY Zenon DEF active, InOp, SpaceInv, TypeOK
<1>9. AD!Commit BY Zenon, <1>1, <1>6, <1>7, <1>8 DEF AD!Commit
<1>10. installing' /\ \A q \in Proc : pc'[q] \in InCommit => pc'[q] = "install_trans"
  BY Zenon, <1>1 DEF installing, SpaceInv, TypeOK
<1>11. HeaderInv' BY <1>1, <1>10 DEF AtomInv, HeaderInv, NoRepeats, Positions, InCommit
<1>12. CacheInv'
  <2>0. lh' = lh /\ \A j \in 1..Len(lh) : j >= tail' BY <1>2
  <2>1. Pending' = logged BY <2>0, Zenon DEF Pending, logged, Positions
  <2>2. \A q \in Proc : buf'[q] # None => pc'[q] = "modified"
    BY Zenon DEF AtomInv, CacheInv, SpaceInv, TypeOK
  <2>3. \A b \in Block : Held(b)' = Held(b) BY Zenon DEF Held
  <2> QED BY Zenon, <1>1, <1>4, <2>1, <2>2, <2>3 DEF AtomInv, CacheInv
<1>13. LoopInv'
  <2>1. Positions(lh') = Positions(lh) /\ \A i \in Positions(lh) : ~(i < tail') BY DEF Positions
  <2>2. \A i \in Positions(lh) : dlog'[i] = Data(lh[i])' BY Zenon, <1>3 DEF Data
  <2>3. \A q \in Proc : pc'[q] # "write_log" BY Zenon, <1>10 DEF InCommit
  <2> QED BY Zenon, <2>1, <2>2, <2>3 DEF LoopInv
<1> QED BY Zenon, <1>9, <1>11, <1>12, <1>13 DEF AtomInv, AD!Next

(* install_trans() writes a block that a recovery would write too.         *)
LEMMA InstallStep ==
  ASSUME SpaceInv, AtomInv, NEW p \in Proc, install_trans(p) PROVE AtomInv' /\ UNCHANGED AD!vars
<1> USE DEF install_trans, logVars, procVars
<1>1. /\ boot = "up" /\ installing /\ installing' /\ \A b \in Block : ~Held(b)
      /\ \A q \in Proc : pc[q] \in InCommit => q = p
  BY Zenon, Committing DEF InCommit, installing
<1>2. /\ tail \in Positions(lh) /\ lh[tail] \in Block /\ tail \in Nat /\ lh = dhead
      /\ lh \in Seq(Block) /\ Len(lh) \in Nat /\ \A i \in Positions(lh) : lh[i] \in Block /\ i \in Nat
  BY <1>1 DEF SpaceInv, TypeOK, Positions, AtomInv, HeaderInv
<1>3. dlog[tail] = Data(lh[tail]) /\ dlog[tail] # None
  <2>1. Data(lh[tail]) \in Val BY Zenon, <1>2, DataType DEF SpaceInv
  <2>2. dlog[tail] = Data(lh[tail]) BY Zenon, <1>1, <1>2 DEF AtomInv, LoopInv
  <2> QED BY Zenon, <2>1, <2>2, LogAssumption
<1>4. \A b \in Block : Data(b)' = Data(b) BY Zenon, <1>2, <1>3 DEF Data, SpaceInv, TypeOK
<1>5. Current' = Current BY Zenon, <1>1, <1>4 DEF Current
<1>6. Durable' = Durable
  <2>1. ASSUME NEW b \in Block, \A i \in Positions(dhead) : dhead[i] # b PROVE disk'[b] = disk[b]
    BY Zenon, <1>2, <2>1 DEF SpaceInv, TypeOK
  <2> QED BY Zenon, <2>1, SameDurable
<1>7. active' = active BY Zenon DEF active
<1>8. HeaderInv' BY <1>1 DEF AtomInv, HeaderInv, NoRepeats, Positions
<1>9. CacheInv'
  <2>1. pinned = Pending /\ pinned' = Pending \ {lh[tail]} BY Zenon, <1>1 DEF AtomInv, CacheInv
  <2>2. Pending = {lh[i] : i \in {j \in Positions(lh) : j >= tail}} BY Zenon, <1>1 DEF Pending
  <2>3. Pending' = {lh[i] : i \in {j \in Positions(lh) : j >= tail + 1}}
    BY Zenon, <1>1 DEF Pending, Positions
  <2>4. Pending' = Pending \ {lh[tail]}
    <3>1. \A i \in Positions(lh) : lh[i] = lh[tail] => i = tail
      BY Zenon, <1>2 DEF AtomInv, HeaderInv, NoRepeats
    <3>2. \A i \in Positions(lh) : i >= tail + 1 <=> (i >= tail /\ i # tail) BY <1>2
    <3> QED BY Zenon, <2>2, <2>3, <3>1, <3>2
  <2>5. ASSUME NEW b \in Block, b \notin pinned', ~Held(b)', cache'[b] # None
        PROVE cache'[b] = disk'[b]
    <3>1. CASE b = lh[tail] BY Zenon, <3>1, <1>2 DEF SpaceInv, TypeOK
    <3>2. CASE b # lh[tail]
      <4>1. b \notin pinned /\ ~Held(b) BY Zenon, <1>1, <2>1, <2>5, <3>2
      <4>2. cache'[b] = cache[b] /\ disk'[b] = disk[b] BY Zenon, <3>2 DEF SpaceInv, TypeOK
      <4> QED BY Zenon, <2>5, <4>1, <4>2 DEF AtomInv, CacheInv
    <3> QED BY Zenon, <3>1, <3>2
  <2> QED BY Zenon, <1>1, <2>1, <2>4, <2>5 DEF AtomInv, CacheInv
<1>10. LoopInv'
  <2>1. Positions(lh') = Positions(lh) BY Zenon DEF Positions
  <2>2. \A i \in Positions(lh) : dlog'[i] = Data(lh[i])'
    BY Zenon, <1>1, <1>2, <1>4 DEF AtomInv, LoopInv
  <2>3. ASSUME NEW i \in Positions(lh), i < tail' PROVE disk'[lh[i]] = dlog'[i]
    <3>1. CASE i = tail BY Zenon, <1>2, <3>1 DEF SpaceInv, TypeOK
    <3>2. CASE i # tail
      <4>1. i < tail BY <1>2, <2>3, <3>2
      <4>2. lh[i] # lh[tail] BY Zenon, <1>2, <3>2 DEF AtomInv, HeaderInv, NoRepeats
      <4>3. disk[lh[i]] = dlog[i] BY Zenon, <1>1, <4>1 DEF AtomInv, LoopInv
      <4>4. lh[i] \in Block BY Zenon, <1>2
      <4> QED BY Zenon, <4>2, <4>3, <4>4 DEF SpaceInv, TypeOK
    <3> QED BY Zenon, <3>1, <3>2
  <2>4. \A q \in Proc : pc[q] # "write_log" BY Zenon, <1>1 DEF InCommit
  <2> QED BY Zenon, <2>1, <2>2, <2>3, <2>4 DEF LoopInv
<1> QED BY Zenon, <1>5, <1>6, <1>7, <1>8, <1>9, <1>10, Stutter DEF AtomInv

(* The header is erased when every block is in its place.                  *)
LEMMA EraseStep ==
  ASSUME SpaceInv, AtomInv, NEW p \in Proc, erase(p) PROVE AtomInv' /\ UNCHANGED AD!vars
<1> USE DEF erase
<1>1. /\ boot = "up" /\ installing /\ committing /\ \A b \in Block : ~Held(b)
      /\ \A q \in Proc : pc[q] \in InCommit => q = p
  BY Zenon, Committing DEF InCommit
<1>2. /\ tail \in Nat /\ lh = dhead /\ lh' = <<>> /\ dhead' = <<>>
      /\ \A i \in Positions(lh) : lh[i] \in Block /\ i < tail
  BY <1>1 DEF SpaceInv, TypeOK, Positions, AtomInv, HeaderInv
<1>3. \A i \in Positions(lh) : disk[lh[i]] = dlog[i] BY Zenon, <1>1, <1>2 DEF AtomInv, LoopInv
<1>4. Durable' = Durable BY Zenon, <1>2, <1>3, ErasedDurable
<1>5. Current' = Current BY Zenon, <1>1 DEF Current, Data
<1>6. active' = active BY Zenon DEF active, InOp, SpaceInv, TypeOK
<1>7. ~installing' /\ \A q \in Proc : pc'[q] # "write_log"
  BY Zenon, <1>1 DEF installing, InCommit, SpaceInv, TypeOK
<1>8. Positions(lh') = {} /\ Positions(dhead') = {} BY <1>2 DEF Positions
<1>9. HeaderInv' BY Zenon, <1>1, <1>2, <1>7, <1>8 DEF HeaderInv, NoRepeats
<1>10. CacheInv'
  <2>1. pinned = {} /\ Pending' = {}
    <3>1. \A i \in Positions(lh) : ~(i >= tail)
      <4>1. \A i \in Positions(lh) : i \in Nat BY DEF Positions
      <4> QED BY <1>2, <4>1
    <3>2. Pending = {} BY Zenon, <1>1, <3>1 DEF Pending
    <3> QED BY Zenon, <1>1, <1>8, <3>2 DEF Pending, AtomInv, CacheInv
  <2>2. \A q \in Proc : buf'[q] # None => pc'[q] = "modified"
    BY Zenon DEF AtomInv, CacheInv, SpaceInv, TypeOK
  <2>3. \A b \in Block : Held(b)' = Held(b) BY Zenon DEF Held
  <2> QED BY Zenon, <1>1, <2>1, <2>2, <2>3 DEF AtomInv, CacheInv
<1>11. LoopInv' BY Zenon, <1>7, <1>8 DEF LoopInv
<1> QED BY Zenon, <1>4, <1>5, <1>6, <1>9, <1>10, <1>11, Stutter DEF AtomInv

(* The end of end_op().                                                    *)
LEMMA CommittedStep ==
  ASSUME SpaceInv, AtomInv, NEW p \in Proc, committed(p) PROVE AtomInv' /\ UNCHANGED AD!vars
<1>1. lh = <<>> BY Zenon DEF committed, AtomInv, HeaderInv
<1>2. active' = active BY Zenon DEF committed, active, InOp, Woken, SpaceInv, TypeOK
<1>3. \A q \in Proc : pc'[q] \in {"write_log", "install_trans", "committed"} => pc'[q] = pc[q]
  BY Zenon DEF committed, Woken, SpaceInv, TypeOK
<1>4. \A q \in Proc : pc[q] \in {"install_trans", "modified"} => pc'[q] = pc[q]
  BY Zenon DEF committed, Woken, SpaceInv, TypeOK
<1>5. AtomInv' /\ Current' = Current /\ Durable' = Durable
  BY Zenon, <1>1, <1>3, <1>4, MoveStep DEF committed
<1> QED BY Zenon, <1>2, <1>5, Stutter

(* A crash leaves what is durable, whatever was going on.                  *)
LEMMA CrashStep == ASSUME AtomInv, Crash PROVE AtomInv' /\ [AD!Next]_AD!vars
<1> USE DEF Crash, diskVars
<1>1. Durable' = Durable BY Zenon, SameDurable
<1>2. Current' = Durable BY Zenon, <1>1 DEF Current
<1>3. active' = {} /\ ~installing' BY Zenon DEF active, InOp, installing
<1>4. AD!Crash BY Zenon, <1>1, <1>2, <1>3 DEF AD!Crash
<1>5. Positions(lh') = {} BY DEF Positions
<1>6. HeaderInv' BY Zenon, <1>5 DEF AtomInv, HeaderInv, NoRepeats, Positions
<1>7. CacheInv' BY Zenon DEF CacheInv
<1>8. LoopInv' BY Zenon, <1>3, <1>5 DEF LoopInv
<1> QED BY Zenon, <1>4, <1>6, <1>7, <1>8 DEF AtomInv, AD!Next

-------------------------------------------------------------------------------
(* The theorems.                                                           *)

(* Every step keeps AtomInv and is a step of AtomicDisk or a stutter.      *)
LEMMA AtomStep == SpaceInv /\ AtomInv /\ [Next]_vars => AtomInv' /\ [AD!Next]_AD!vars
<1> SUFFICES ASSUME SpaceInv, AtomInv, [Next]_vars PROVE AtomInv' /\ [AD!Next]_AD!vars BY Zenon
<1>1. CASE recover_from_log
  BY Zenon, <1>1, ReadHeadStep, RecoverBlockStep, RecoverClearStep DEF recover_from_log
<1>2. ASSUME NEW b \in Block, Fetch(b) \/ Evict(b) PROVE AtomInv' /\ UNCHANGED AD!vars
  BY Zenon, <1>2, FetchStep, EvictStep
<1>3. ASSUME NEW p \in Proc, Start(p) \/ log_write(p) \/ committed(p)
      PROVE  AtomInv' /\ UNCHANGED AD!vars
  BY Zenon, <1>3, StartStep, LogWriteStep, CommittedStep
<1>4. ASSUME NEW p \in Proc, begin_op(p) \/ end_op(p) PROVE AtomInv' /\ [AD!Next]_AD!vars
  BY Zenon, <1>4, BeginStep, EndStep
<1>5. ASSUME NEW p \in Proc, NEW b \in Block, NEW v \in Val, modify(p, b, v)
      PROVE  AtomInv' /\ [AD!Next]_AD!vars
  BY Zenon, <1>5, ModifyStep
<1>6. ASSUME NEW p \in Proc, commit(p) PROVE AtomInv' /\ [AD!Next]_AD!vars
  BY Zenon, <1>6, WriteLogStep, WriteHeadStep, InstallStep, EraseStep DEF commit
<1>7. CASE Crash BY Zenon, <1>7, CrashStep
<1>8. CASE UNCHANGED vars
  <2>1. UNCHANGED <<diskVars, cache, pinned, logVars, procVars, tail, boot>> BY Zenon, <1>8 DEF vars
  <2>2. \A b \in Block : Data(b)' = Data(b) BY Zenon, <2>1 DEF Data, diskVars
  <2> QED BY Zenon, <2>1, <2>2, CacheStep
<1> QED BY Zenon, <1>1, <1>2, <1>3, <1>4, <1>5, <1>6, <1>7, <1>8 DEF Next

(* mkfs leaves an empty header and nothing is cached.                      *)
LEMMA AtomInitial == Init => AtomInv /\ AD!Init
<1> SUFFICES ASSUME Init PROVE AtomInv /\ AD!Init BY Zenon
<1> USE DEF Init
<1>1. Positions(lh) = {} /\ Positions(dhead) = {} BY DEF Positions
<1>2. ~installing /\ active = {} BY Zenon DEF installing, active, InOp
<1>3. HeaderInv BY Zenon, <1>1 DEF HeaderInv, NoRepeats
<1>4. CacheInv BY Zenon DEF CacheInv
<1>5. LoopInv BY Zenon, <1>1, <1>2 DEF LoopInv
<1>6. Durable = [b \in Block |-> Zero] BY Zenon, EmptyDurable
<1>7. Current = Durable BY Zenon DEF Current
<1> QED BY Zenon, <1>2, <1>3, <1>4, <1>5, <1>6, <1>7 DEF AtomInv, AD!Init

(* What relates cache, log and home blocks in every phase of operation,    *)
(* commit and recovery.                                                    *)
THEOREM AtomInvariant == Spec => []AtomInv
BY AtomInitial, AtomStep, SpaceInvariant, PTL DEF Spec

(* The write-ahead log makes operations atomic and durable in the face of  *)
(* crashes in operation, in commit() and in recovery, for any number of    *)
(* processes, blocks and crashes, and any size of the log.                 *)
THEOREM LogImplementsAtomicDisk == Spec => CrashAtomic
BY AtomInitial, AtomStep, AtomInvariant, SpaceInvariant, PTL DEF Spec, CrashAtomic, AD!Spec

(* Once no operation runs and none commits, a crash loses nothing.         *)
THEOREM LogQuiescentDurable == Spec => []QuiescentDurable
<1>1. SpaceInv /\ AtomInv => QuiescentDurable
  <2> SUFFICES ASSUME SpaceInv, AtomInv, boot = "up", outstanding = 0, ~committing
               PROVE Current = Durable
    BY Zenon DEF QuiescentDurable
  <2>1. lh = <<>> /\ Positions(lh) = {} BY DEF AtomInv, HeaderInv, Positions
  <2>2. pinned = {} BY Zenon, <2>1 DEF AtomInv, CacheInv, Pending
  <2>3. active = {}
    <3>1. active \in SUBSET Proc BY Zenon DEF active
    <3> QED BY Zenon, <3>1, ActiveFinite, FS_EmptySet DEF SpaceInv, ControlInv
  <2>4. \A b \in Block : ~Held(b)
    <3>1. \A q \in Proc : pc[q] # "modified" BY Zenon, <2>3 DEF active, InOp
    <3> QED BY Zenon, <3>1, LogAssumption DEF Held, AtomInv, CacheInv
  <2>5. \A b \in Block : Data(b) = disk[b] BY Zenon, <2>2, <2>4 DEF AtomInv, CacheInv, Data
  <2>6. dhead = <<>> BY Zenon, <2>1 DEF AtomInv, HeaderInv
  <2>7. Durable = [b \in Block |-> disk[b]] BY Zenon, <2>6, EmptyDurable
  <2> QED BY Zenon, <2>5, <2>7 DEF Current
<1> QED BY <1>1, AtomInvariant, SpaceInvariant, PTL
===============================================================================
