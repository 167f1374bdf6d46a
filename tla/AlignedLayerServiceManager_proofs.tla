----------------- MODULE AlignedLayerServiceManager_proofs -----------------
(***************************************************************************)
(* Proofs about the contract, for every set of roots and operators, every  *)
(* history of stake tables and every number of blocks below 2^32.          *)
(***************************************************************************)
EXTENDS AlignedLayerServiceManager, TLAPS

(***************************************************************************)
(* uint32 loses nothing of a block number that fits, and the number of the *)
(* block a task is created in is never the 0 that means "no such batch".   *)
(***************************************************************************)
LEMMA BlockNumberFits ==
    ASSUME NEW n \in 1..MaxBlock
    PROVE  uint32(n) = n /\ uint32(n) \in Blocks \ {0} /\ uint32(n) \in 0..BlockRange - 1
  <1>1. n \in Nat /\ BlockRange \in Nat /\ n < BlockRange /\ n > 0
    BY BlockAssumption
  <1>2. n % BlockRange = n
    BY <1>1, SMT
  <1> QED
    BY <1>1, <1>2, BlockAssumption DEF uint32, Blocks

\* The deployed contract, and every transaction, keep the types.
LEMMA TypeInit == ChainInit => ChainTypeOK
  BY BlockAssumption DEF ChainInit, ChainTypeOK, BatchState, Events

\* Every transaction, every signature and every new block keeps the types.
LEMMA TypeStep == ChainTypeOK /\ [ChainNext]_chainVars => ChainTypeOK'
  <1> SUFFICES ASSUME ChainTypeOK, [ChainNext]_chainVars
               PROVE  ChainTypeOK'
    OBVIOUS
  <1> USE DEF ChainTypeOK
  <1>1. CASE Mine
    BY <1>1, BlockAssumption DEF Mine
  <1>2. ASSUME NEW r \in Roots, CreateNewTask(r)
        PROVE  ChainTypeOK'
    <2>1. uint32(blockNumber) \in 0..BlockRange - 1
      BY BlockNumberFits
    <2>2. batchesState' \in [Roots -> BatchState]
      BY <1>2, <2>1 DEF CreateNewTask, BatchState
    <2>3. log' \in Seq(Events)
      BY <1>2 DEF CreateNewTask, Events, NewBatch
    <2> QED
      BY <1>2, <2>2, <2>3 DEF CreateNewTask
  <1>3. ASSUME NEW r \in Roots, NEW o \in Operators, SignRoot(o, r)
        PROVE  ChainTypeOK'
    BY <1>3 DEF SignRoot
  <1>4. ASSUME NEW r \in Roots, NEW signers \in SUBSET Operators,
               RespondToTask(r, signers)
        PROVE  ChainTypeOK'
    <2>1. batchesState' \in [Roots -> BatchState]
      BY <1>4 DEF RespondToTask, BatchState
    <2>2. log' \in Seq(Events)
      BY <1>4 DEF RespondToTask, Events, BatchVerified
    <2> QED
      BY <1>4, <2>1, <2>2 DEF RespondToTask
  <1>5. CASE UNCHANGED chainVars
    BY <1>5 DEF chainVars
  <1> QED
    BY <1>1, <1>2, <1>3, <1>4, <1>5 DEF ChainNext

\* The variables of the contract keep their types: in particular the block a
\* task is created in survives the conversion to uint32.
THEOREM TypeCorrect == ChainSpec => []ChainTypeOK
  BY TypeInit, TypeStep, PTL DEF ChainSpec
-----------------------------------------------------------------------------
\* Only respondToTask marks a batch as responded, and it checks the quorum by
\* the block it later leaves in place; nothing takes a signature back.
LEMMA QuorumStep ==
    ASSUME ChainTypeOK, QuorumBehindVerified, [ChainNext]_chainVars
    PROVE  QuorumBehindVerified'
  <1> USE DEF ChainTypeOK, QuorumBehindVerified, Responded
  <1>1. CASE Mine
    BY <1>1 DEF Mine
  <1>2. ASSUME NEW r \in Roots, CreateNewTask(r)
        PROVE  QuorumBehindVerified'
    BY <1>2 DEF CreateNewTask, BatchState
  <1>3. ASSUME NEW r \in Roots, NEW o \in Operators, SignRoot(o, r)
        PROVE  QuorumBehindVerified'
    <2>1. \A q \in Roots : signed[q] \subseteq signed'[q]
      BY <1>3 DEF SignRoot
    <2> QED
      BY <1>3, <2>1 DEF SignRoot
  <1>4. ASSUME NEW r \in Roots, NEW signers \in SUBSET Operators,
               RespondToTask(r, signers)
        PROVE  QuorumBehindVerified'
    <2>1. signers \in SUBSET signed[r] /\
          IsQuorum(signers, stakeAt[batchesState[r].taskCreatedBlock])
      BY <1>4 DEF RespondToTask, RespondSucceeds, CheckSignatures
    <2>2. /\ UNCHANGED <<signed, stakeAt>>
          /\ \A q \in Roots :
                /\ batchesState'[q].taskCreatedBlock = batchesState[q].taskCreatedBlock
                /\ q # r => batchesState'[q] = batchesState[q]
      BY <1>4 DEF RespondToTask, BatchState
    <2> QED
      BY <2>1, <2>2
  <1>5. CASE UNCHANGED chainVars
    BY <1>5 DEF chainVars
  <1> QED
    BY <1>1, <1>2, <1>3, <1>4, <1>5 DEF ChainNext

\* No batch counts as verified unless operators that own a quorum of the stake
\* of its creation block signed its root.
THEOREM QuorumSafety == ChainSpec => []QuorumBehindVerified
  <1>1. ChainInit => QuorumBehindVerified
    BY DEF ChainInit, QuorumBehindVerified, Responded
  <1> QED
    BY <1>1, QuorumStep, TypeCorrect, PTL DEF ChainSpec
-----------------------------------------------------------------------------
\* A created batch keeps its block and a verified inclusion stays verified.
THEOREM LedgerMonotone == ChainSpec => LedgerOnlyGrows
  <1> DEFINE Grows == \A r \in Roots :
          /\ Exists(r) => batchesState'[r].taskCreatedBlock = batchesState[r].taskCreatedBlock
          /\ VerifyBatchInclusion(r, TRUE) => VerifyBatchInclusion(r, TRUE)'
  <1>1. ASSUME ChainTypeOK, [ChainNext]_chainVars
        PROVE  [Grows]_chainVars
    <2> USE <1>1 DEF ChainTypeOK, BatchState, Exists, Responded, VerifyBatchInclusion
    <2>1. CASE Mine
      BY <2>1 DEF Mine
    <2>2. ASSUME NEW r \in Roots, CreateNewTask(r)
          PROVE  Grows
      BY <2>2 DEF CreateNewTask
    <2>3. ASSUME NEW r \in Roots, NEW o \in Operators, SignRoot(o, r)
          PROVE  Grows
      BY <2>3 DEF SignRoot
    <2>4. ASSUME NEW r \in Roots, NEW signers \in SUBSET Operators,
                 RespondToTask(r, signers)
          PROVE  Grows
      BY <2>4 DEF RespondToTask
    <2>5. CASE UNCHANGED chainVars
      BY <2>5
    <2> QED
      BY <2>1, <2>2, <2>3, <2>4, <2>5 DEF ChainNext
  <1> QED
    BY <1>1, TypeCorrect, PTL DEF ChainSpec, LedgerOnlyGrows
-----------------------------------------------------------------------------
(***************************************************************************)
(* Appending one event e to the log adds one position, the last, to those  *)
(* of e and none to those of any other event.                              *)
(***************************************************************************)
LEMMA PositionAppend ==
    ASSUME log \in Seq(Events), NEW e \in Events, log' = Append(log, e),
           NEW d \in Events
    PROVE  /\ d = e => Position(d)' = Position(d) \cup {Len(log) + 1}
           /\ d # e => Position(d)' = Position(d)
           /\ \A i \in Position(d) : i < Len(log) + 1
  BY DEF Position

\* The events of two roots differ, and so do the two events of one root.
LEMMA EventsDiffer ==
    ASSUME NEW q \in Roots, NEW r \in Roots
    PROVE  /\ NewBatch(q) \in Events /\ BatchVerified(q) \in Events
           /\ NewBatch(q) # BatchVerified(r)
           /\ q # r => NewBatch(q) # NewBatch(r) /\ BatchVerified(q) # BatchVerified(r)
  BY DEF NewBatch, BatchVerified, Events

\* A transaction that changes an entry of the ledger emits the event that tells
\* of it, and no other transaction emits any.
LEMMA LogStep ==
    ASSUME ChainTypeOK, LogMatchesState, [ChainNext]_chainVars
    PROVE  LogMatchesState'
  <1> SUFFICES ASSUME NEW q \in Roots
               PROVE  LogTells(q)'
    BY DEF LogMatchesState
  <1>0. LogTells(q)
    BY DEF LogMatchesState
  <1> USE DEF ChainTypeOK
  <1>1. CASE UNCHANGED <<batchesState, log>>
    BY <1>0, <1>1 DEF LogTells, Exists, Responded, Position
  <1>2. ASSUME NEW r \in Roots, CreateNewTask(r)
        PROVE  LogTells(q)'
    <2>1. log' = Append(log, NewBatch(r))
      BY <1>2 DEF CreateNewTask
    <2>2. /\ q = r => Position(NewBatch(q))' = Position(NewBatch(q)) \cup {Len(log) + 1}
          /\ q # r => Position(NewBatch(q))' = Position(NewBatch(q))
          /\ Position(BatchVerified(q))' = Position(BatchVerified(q))
      BY <2>1, PositionAppend, EventsDiffer
    <2>3. /\ q = r => Exists(q)' /\ ~Responded(q)' /\ ~Exists(q)
          /\ q # r => (Exists(q)' <=> Exists(q)) /\ (Responded(q)' <=> Responded(q))
      <3>1. uint32(blockNumber) # 0
        BY BlockNumberFits
      <3> QED
        BY <1>2, <3>1 DEF CreateNewTask, Exists, Responded, BatchState
    <2> QED
      BY <1>0, <2>2, <2>3 DEF LogTells
  <1>3. ASSUME NEW r \in Roots, NEW signers \in SUBSET Operators,
               RespondToTask(r, signers)
        PROVE  LogTells(q)'
    <2>1. log' = Append(log, BatchVerified(r))
      BY <1>3 DEF RespondToTask
    <2>2. /\ q = r => Position(BatchVerified(q))' = Position(BatchVerified(q)) \cup {Len(log) + 1}
          /\ q # r => Position(BatchVerified(q))' = Position(BatchVerified(q))
          /\ Position(NewBatch(q))' = Position(NewBatch(q))
          /\ \A i \in Position(NewBatch(q)) : i < Len(log) + 1
      BY <2>1, PositionAppend, EventsDiffer
    <2>3. /\ q = r => Exists(q) /\ ~Responded(q) /\ Responded(q)'
          /\ q # r => (Responded(q)' <=> Responded(q))
          /\ Exists(q)' <=> Exists(q)
      BY <1>3 DEF RespondToTask, RespondSucceeds, Exists, Responded, BatchState
    <2> QED
      BY <1>0, <2>2, <2>3 DEF LogTells
  <1> QED
    BY <1>1, <1>2, <1>3 DEF ChainNext, Mine, SignRoot, chainVars

\* The log announces every existing batch once, reports every answered one
\* once, and never reports a batch before it was announced.
THEOREM LogFaithful == ChainSpec => []LogMatchesState
  <1>1. ChainInit => LogMatchesState
    BY DEF ChainInit, LogMatchesState, LogTells, Exists, Responded, Position
  <1> QED
    BY <1>1, LogStep, TypeCorrect, PTL DEF ChainSpec
-----------------------------------------------------------------------------
(***************************************************************************)
(* The refinement.  The stake table a batch is judged by is the one of its *)
(* creation block, which the registries never change, so "frozen when it   *)
(* was created" is a function of the contract's state.                     *)
(***************************************************************************)
Judge(r) == IF Exists(r) THEN stakeAt[batchesState[r].taskCreatedBlock]
                         ELSE [o \in Operators |-> 0]

\* The contract is deployed with no batch.
LEMMA RefinesInit == ChainInit => Promise!Init
  BY DEF ChainInit, Promise!Init, Promise!NoTable, Status, Exists

\* createNewTask is Create, respondToTask is Verify, a signature is Endorse and
\* a new block changes nothing the promise speaks of.
LEMMA RefinesStep ==
    ASSUME ChainTypeOK, [ChainNext]_chainVars
    PROVE  [Promise!Next]_(Promise!vars)
  <1> USE DEF ChainTypeOK
  <1>1. CASE Mine \/ UNCHANGED chainVars
    <2>1. UNCHANGED <<batchesState, signed, stakeAt>>
      BY <1>1 DEF Mine, chainVars
    <2> QED
      BY <2>1 DEF Promise!vars, Status, Exists, Responded
  <1>2. ASSUME NEW r \in Roots, CreateNewTask(r)
        PROVE  Promise!Create(r)
    <2>1. uint32(blockNumber) \in Blocks \ {0}
      BY BlockNumberFits
    <2>2. /\ ~Exists(r) /\ Exists(r)' /\ ~Responded(r)'
          /\ batchesState'[r].taskCreatedBlock = uint32(blockNumber)
          /\ \A q \in Roots \ {r} : batchesState'[q] = batchesState[q]
          /\ UNCHANGED <<signed, stakeAt>>
      BY <1>2, <2>1 DEF CreateNewTask, Exists, Responded, BatchState
    <2>3. /\ Status(r) = "absent" /\ Status(r)' = "created"
          /\ \A q \in Roots \ {r} : Status(q)' = Status(q)
      BY <2>2 DEF Status, Exists, Responded
    <2>4. /\ Judge(r)' = stakeAt[uint32(blockNumber)]
          /\ \A q \in Roots \ {r} : Judge(q)' = Judge(q)
      BY <2>2 DEF Judge, Exists
    <2>5. stakeAt[uint32(blockNumber)] \in UNION {{h[b] : b \in Blocks} : h \in StakeHistories}
      BY <2>1
    <2> QED
      BY <2>2, <2>3, <2>4, <2>5 DEF Promise!Create, Judge
  <1>3. ASSUME NEW r \in Roots, NEW o \in Operators, SignRoot(o, r)
        PROVE  Promise!Endorse(o, r)
    BY <1>3 DEF SignRoot, Promise!Endorse, Status, Exists, Responded
  <1>4. ASSUME NEW r \in Roots, NEW signers \in SUBSET Operators,
               RespondToTask(r, signers)
        PROVE  Promise!Verify(r)
    <2>1. /\ Exists(r) /\ ~Responded(r) /\ Exists(r)' /\ Responded(r)'
          /\ batchesState'[r].taskCreatedBlock = batchesState[r].taskCreatedBlock
          /\ \A q \in Roots \ {r} : batchesState'[q] = batchesState[q]
          /\ UNCHANGED <<signed, stakeAt>>
      BY <1>4 DEF RespondToTask, RespondSucceeds, Exists, Responded, BatchState
    <2>2. /\ Status(r) = "created" /\ Status(r)' = "verified"
          /\ \A q \in Roots \ {r} : Status(q)' = Status(q)
      BY <2>1 DEF Status, Exists, Responded
    <2>3. \A q \in Roots : Judge(q)' = Judge(q)
      BY <2>1 DEF Judge, Exists
    <2>4. \E S \in SUBSET signed[r] : IsQuorum(S, Judge(r))
      BY <1>4, <2>1 DEF RespondToTask, RespondSucceeds, CheckSignatures, Judge
    <2> QED
      BY <2>1, <2>2, <2>3, <2>4 DEF Promise!Verify, Judge
  <1> QED
    BY <1>1, <1>2, <1>3, <1>4 DEF ChainNext, Promise!Next

\* Every behaviour of the contract is one of the abstract promise.
THEOREM Refinement == ChainSpec => ImplementsPromise
  BY RefinesInit, RefinesStep, TypeCorrect, PTL
  DEF ChainSpec, ImplementsPromise, Promise!Spec
=============================================================================
