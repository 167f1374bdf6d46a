--------------------- MODULE AlignedLayerServiceManager ---------------------
(***************************************************************************)
(* The service manager contract: a ledger of batches, one entry per Merkle *)
(* root.  Every function runs as one Ethereum transaction, so it is one    *)
(* atomic action; a transaction whose require fails is reverted and leaves *)
(* the state as it was, so it is no step at all.                           *)
(*                                                                         *)
(* External to the contract: the chain (blockNumber, the event log), the   *)
(* operators that sign roots off chain (signed), and the EigenLayer        *)
(* registries (stakeAt: the stake table at the end of every block, chosen  *)
(* once; the contract only reads tables of blocks that are already past).  *)
(***************************************************************************)
EXTENDS StakeQuorum, Sequences

CONSTANTS Roots,           \* Merkle roots of batches
          Operators,       \* the operators that may ever register
          MaxBlock,        \* bound: the last block that is mined
          BlockRange,      \* 2^32 in the contract: block numbers are uint32
          StakeHistories   \* the histories of stake tables considered

Blocks == 0..MaxBlock

\* A block number fits in uint32: the contract stores uint32(block.number)
\* and reads a stored 0 as "no such batch" (the source's comment in
\* respondToTask: "Value 0 would mean that the task is in block 0 so this
\* can't happen").
ASSUME BlockAssumption ==
    /\ MaxBlock \in Nat \ {0}
    /\ BlockRange \in Nat
    /\ MaxBlock < BlockRange

ASSUME StakeAssumption == StakeHistories \subseteq [Blocks -> [Operators -> Nat]]

VARIABLES blockNumber,     \* number of the block being built
          batchesState,    \* the contract's mapping from root to BatchState
          log,             \* the events emitted so far, in order
          signed,          \* signed[r]: the operators that signed root r
          stakeAt          \* stakeAt[b]: the stake table at the end of block b

chainVars == <<blockNumber, batchesState, log, signed, stakeAt>>

BatchState == [taskCreatedBlock : 0..BlockRange - 1, responded : BOOLEAN]

Events == [name : {"NewBatch", "BatchVerified"}, root : Roots]

NewBatch(r) == [name |-> "NewBatch", root |-> r]
BatchVerified(r) == [name |-> "BatchVerified", root |-> r]

uint32(n) == n % BlockRange

ChainTypeOK ==
    /\ blockNumber \in 1..MaxBlock
    /\ batchesState \in [Roots -> BatchState]
    /\ log \in Seq(Events)
    /\ signed \in [Roots -> SUBSET Operators]
    /\ stakeAt \in StakeHistories

ChainInit ==
    /\ blockNumber = 1
    /\ batchesState = [r \in Roots |-> [taskCreatedBlock |-> 0, responded |-> FALSE]]
    /\ log = <<>>
    /\ signed = [r \in Roots |-> {}]
    /\ stakeAt \in StakeHistories
-----------------------------------------------------------------------------
IsQuorum(S, table) == MeetsThreshold(S, Operators, table)

Exists(r) == batchesState[r].taskCreatedBlock # 0
Responded(r) == batchesState[r].responded

\* Mutant: the require on taskCreatedBlock is missing.
CreateNewTask_Overwrites(r) ==
    /\ batchesState' = [batchesState EXCEPT
          ![r] = [taskCreatedBlock |-> uint32(blockNumber), responded |-> FALSE]]
    /\ log' = Append(log, NewBatch(r))
    /\ UNCHANGED <<blockNumber, signed, stakeAt>>

\* Mutant: the task is recorded for the block after this one.
CreateNewTask_NextBlock(r) ==
    /\ ~Exists(r)
    /\ batchesState' = [batchesState EXCEPT
          ![r] = [taskCreatedBlock |-> blockNumber + 1, responded |-> FALSE]]
    /\ log' = Append(log, NewBatch(r))
    /\ UNCHANGED <<blockNumber, signed, stakeAt>>

CreateNewTask(r) ==
    /\ ~Exists(r)
    /\ batchesState' = [batchesState EXCEPT
          ![r] = [taskCreatedBlock |-> uint32(blockNumber), responded |-> FALSE]]
    /\ log' = Append(log, NewBatch(r))
    /\ UNCHANGED <<blockNumber, signed, stakeAt>>

(***************************************************************************)
(* BLSSignatureChecker.checkSignatures: the aggregated signature verifies  *)
(* exactly when every claimed signer signed the root, and the reference    *)
(* block must be past, so that its stake table is final.                   *)
(***************************************************************************)
CheckSignatures(r, referenceBlock, signers) ==
    /\ referenceBlock < blockNumber
    /\ signers \subseteq signed[r]

\* Mutant: the stake of the current block judges the batch.
RespondSucceeds_CurrentStake(r, signers) ==
    /\ Exists(r)
    /\ ~Responded(r)
    /\ CheckSignatures(r, batchesState[r].taskCreatedBlock, signers)
    /\ IsQuorum(signers, stakeAt[blockNumber])

\* Mutant: the threshold is not required.
RespondSucceeds_NoThreshold(r, signers) ==
    /\ Exists(r)
    /\ ~Responded(r)
    /\ CheckSignatures(r, batchesState[r].taskCreatedBlock, signers)

\* The requires of respondToTask: what makes a call succeed, and what its
\* simulation against the current state reports.
RespondSucceeds(r, signers) ==
    LET created == batchesState[r].taskCreatedBlock IN
    /\ Exists(r)
    /\ ~Responded(r)
    /\ CheckSignatures(r, created, signers)
    /\ IsQuorum(signers, stakeAt[created])

\* Mutant: responded is not recorded.
RespondToTask_NotRecorded(r, signers) ==
    /\ RespondSucceeds(r, signers)
    /\ log' = Append(log, BatchVerified(r))
    /\ UNCHANGED <<blockNumber, batchesState, signed, stakeAt>>

RespondToTask(r, signers) ==
    /\ RespondSucceeds(r, signers)
    /\ batchesState' = [batchesState EXCEPT ![r].responded = TRUE]
    /\ log' = Append(log, BatchVerified(r))
    /\ UNCHANGED <<blockNumber, signed, stakeAt>>

\* The result of the view verifyBatchInclusion, given whether the Merkle
\* proof leads from the hashed leaf at its index to the root.
VerifyBatchInclusion(r, proofLeadsToRoot) ==
    Exists(r) /\ Responded(r) /\ proofLeadsToRoot
-----------------------------------------------------------------------------
\* An operator signs a root, off chain.
SignRoot(o, r) ==
    /\ signed' = [signed EXCEPT ![r] = @ \cup {o}]
    /\ UNCHANGED <<blockNumber, batchesState, log, stakeAt>>

Mine ==
    /\ blockNumber < MaxBlock
    /\ blockNumber' = blockNumber + 1
    /\ UNCHANGED <<batchesState, log, signed, stakeAt>>

ChainNext ==
    \/ Mine
    \/ \E r \in Roots :
          \/ CreateNewTask(r)
          \/ \E o \in Operators : SignRoot(o, r)
          \/ \E signers \in SUBSET Operators : RespondToTask(r, signers)

ChainSpec == ChainInit /\ [][ChainNext]_chainVars
-----------------------------------------------------------------------------
\* A batch that counts as verified was signed by operators that owned a quorum
\* of the stake of the block it was created in, not of the block it was
\* answered in: stake that moves between createNewTask and respondToTask
\* neither helps nor hurts.
QuorumBehindVerified ==
    \A r \in Roots :
        Responded(r) =>
            \E S \in SUBSET signed[r] :
                IsQuorum(S, stakeAt[batchesState[r].taskCreatedBlock])

\* The event log tells the contract's whole story once: a root is announced by
\* NewBatch exactly when it exists, verified exactly when it is answered, each
\* at most once and in that order.  The aggregator, the operators, the batcher
\* and the explorer see the contract only through this log.
Position(e) == {i \in DOMAIN log : log[i] = e}

LogTells(r) ==
    /\ Responded(r) => Exists(r)
    /\ Exists(r) <=> Position(NewBatch(r)) # {}
    /\ Responded(r) <=> Position(BatchVerified(r)) # {}
    /\ \A i, j \in Position(NewBatch(r)) : i = j
    /\ \A i, j \in Position(BatchVerified(r)) : i = j
    /\ \A i \in Position(NewBatch(r)), j \in Position(BatchVerified(r)) : i < j

LogMatchesState == \A r \in Roots : LogTells(r)

\* Nothing is taken back: a created batch keeps the block that judges it and an
\* answered batch stays answered, so an inclusion a client has verified on
\* chain verifies for ever.
LedgerOnlyGrows ==
    [][\A r \in Roots :
          /\ Exists(r) => batchesState'[r].taskCreatedBlock = batchesState[r].taskCreatedBlock
          /\ VerifyBatchInclusion(r, TRUE) => VerifyBatchInclusion(r, TRUE)']_chainVars

\* The contract implements the abstract promise.
Status(r) == CASE ~Exists(r) -> "absent"
               [] Exists(r) /\ ~Responded(r) -> "created"
               [] OTHER -> "verified"

Promise == INSTANCE BatchVerification WITH
    StakeTables <- UNION {{h[b] : b \in Blocks} : h \in StakeHistories},
    status <- [r \in Roots |-> Status(r)],
    judge <- [r \in Roots |-> IF Exists(r) THEN stakeAt[batchesState[r].taskCreatedBlock]
                                           ELSE [o \in Operators |-> 0]],
    endorsed <- signed

\* Every behaviour of the contract is one of BatchVerification: one creation,
\* one verification, by a quorum of the table frozen at the creation.
ImplementsPromise == Promise!Spec
=============================================================================
