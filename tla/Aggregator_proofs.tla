-------------------------- MODULE Aggregator_proofs --------------------------
(***************************************************************************)
(* Proofs about the aggregator beside the contract, for every set of roots,*)
(* operators and calls, every history of stake tables, every number of     *)
(* batches, attempts and crashes, and every combination of faults.         *)
(***************************************************************************)
EXTENDS Aggregator, AlignedLayerServiceManager_proofs

\* A call that was made is that of an operator which signed the root.  While it
\* looks for the root no signature of it is being processed; from then on its
\* index leads to its root, and a counted signature is in the task.
CallInOrder(c) ==
    LET x == call[c] IN
    /\ x.pc # "idle" => x.op \in Operators /\ x.root \in Roots /\ x.op \in signed[x.root]
    /\ x.pc \in {"idle", "lookup"} => x.tries < waitForEventRetries /\ sig[c] = "none"
    /\ sig[c] # "none" => x.idx \in Indices /\ batchesRootByIdx[x.idx] = x.root
    /\ sig[c] = "counted" => x.op \in task[x.idx].signers

\* A task of the BLS service is that of an existing batch at the block the
\* contract recorded, its signers signed the root, and what was reported as a
\* quorum is one.
TaskInOrder(i) ==
    LET t == task[i]
        r == batchesRootByIdx[i] IN
    /\ t.state # "none" =>
          /\ i < nextBatchIndex
          /\ Exists(r) /\ t.block = batchesState[r].taskCreatedBlock
          /\ t.signers \subseteq signed[r]
    /\ Reported(i) => IsQuorum(t.signers, stakeAt[t.block])

\* A responder works for a closed task within its attempts, waits for the
\* transaction it sent, and has succeeded only when the contract says so.
ResponderInOrder(i) ==
    LET p == responder[i] IN
    /\ p.pc # "none" => task[i].state = "closed"
    /\ p.pc \in {"none", "fetch", "lock", "send", "wait"} => p.tries < MaxSentTxRetries
    /\ p.pc = "wait" => p.nonce \in 1..Len(sent) /\ sent[p.nonce].root = p.root
    /\ p.pc = "succeeded" => p.root \in Roots /\ Responded(p.root)

\* A transaction that was sent passes every require of respondToTask for ever,
\* but the one that the batch is not answered yet; once it is mined the batch
\* is answered.
TransactionInOrder(n) ==
    LET tx == sent[n]
        created == batchesState[tx.root].taskCreatedBlock IN
    /\ Exists(tx.root) /\ CheckSignatures(tx.root, created, tx.signers)
    /\ IsQuorum(tx.signers, stakeAt[created])
    /\ n <= mined => Responded(tx.root)

AggregatorInv ==
    /\ ChainTypeOK /\ LogMatchesState
    /\ AggregatorTypeOK
    /\ TablesAgree
    /\ \A c \in Calls : CallInOrder(c)
    /\ \A i \in Indices : TaskInOrder(i)
    /\ \A i \in Indices : ResponderInOrder(i)
    /\ \A n \in 1..Len(sent) : TransactionInOrder(n)
-----------------------------------------------------------------------------
(***************************************************************************)
(* Every step as the contract sees it.                                     *)
(***************************************************************************)
\* Whatever the aggregator does, the contract makes one of its own steps or
\* none: its transactions are the only way the aggregator changes it.
LEMMA StepIsChainStep == AggregatorTypeOK /\ [Next]_vars => [ChainNext]_chainVars
  <1> SUFFICES ASSUME AggregatorTypeOK, [Next]_vars PROVE [ChainNext]_chainVars
    OBVIOUS
  <1>1. CASE Crash \/ Restart \/ Subscribe \/ SubscriptionFails \/ SubscriptionGivenUp
    BY <1>1 DEF Crash, Restart, Subscribe, SubscriptionFails, SubscriptionGivenUp, Die
  <1>2. CASE ReceiveNewBatch
    BY <1>2 DEF ReceiveNewBatch
  <1>3. ASSUME NEW c \in Calls, NEW o \in Operators, NEW r \in Roots, CallArrives(c, o, r)
        PROVE  [ChainNext]_chainVars
    BY <1>3 DEF CallArrives, ChainNext
  <1>4. ASSUME NEW c \in Calls, Handler(c) \/ SignatureCounted(c) \/ SignatureRejected(c)
        PROVE  [ChainNext]_chainVars
    BY <1>4 DEF Handler, LookupFinds, LookupMisses, CallDone, CallTimesOut, Reply,
                SignatureCounted, SignatureRejected, chainAndLoops
  <1>5. ASSUME NEW i \in Indices, TaskExpires(i) \/ HandleResponse(i)
        PROVE  [ChainNext]_chainVars
    BY <1>5 DEF TaskExpires, HandleResponse, TakeResponse, FetchRoot, LockWallet,
                SendSucceeds, SendFails, ReceiptFound, ReceiptMissing, chainAndLoops
  <1>6. CASE MineResponse
    <2> DEFINE tx == sent[mined + 1]
    <2>1. tx.root \in Roots /\ tx.signers \in SUBSET Operators
      <3>1. mined + 1 \in 1..Len(sent) /\ sent \in Seq(Transaction)
        BY <1>6 DEF MineResponse, AggregatorTypeOK
      <3>2. tx \in Transaction
        BY <3>1
      <3> QED
        BY <3>2 DEF Transaction
    <2>2. RespondToTask(tx.root, tx.signers) \/ UNCHANGED chainVars
      BY <1>6 DEF MineResponse
    <2> QED
      BY <2>1, <2>2 DEF ChainNext
  <1>7. CASE Environment
    BY <1>7 DEF Environment, ChainNext
  <1>8. CASE UNCHANGED vars
    BY <1>8 DEF vars
  <1> QED
    BY <1>1, <1>2, <1>3, <1>4, <1>5, <1>6, <1>7, <1>8 DEF Next

\* Nothing the aggregator relies on is taken back by the chain.
ChainGrows ==
    /\ stakeAt' = stakeAt /\ blockNumber <= blockNumber' /\ Len(log) <= Len(log')
    /\ \A r \in Roots :
          /\ signed[r] \subseteq signed'[r]
          /\ Exists(r) => batchesState'[r].taskCreatedBlock = batchesState[r].taskCreatedBlock
          /\ Responded(r) => batchesState'[r].responded

\* No transaction, signature or block takes anything back.
LEMMA ChainGrowth ==
    ASSUME ChainTypeOK, LogMatchesState, [ChainNext]_chainVars
    PROVE  ChainGrows
  <1> USE DEF ChainTypeOK, ChainGrows, Exists, Responded, Blocks
  <1>0. blockNumber \in Nat
    BY BlockAssumption
  <1>1. CASE Mine
    BY <1>0, <1>1 DEF Mine
  <1>2. ASSUME NEW r \in Roots, CreateNewTask(r)
        PROVE  ChainGrows
    <2>1. stakeAt' = stakeAt /\ blockNumber <= blockNumber' /\ Len(log) <= Len(log')
      BY <1>0, <1>2 DEF CreateNewTask
    <2>2. ASSUME NEW q \in Roots
          PROVE  /\ signed[q] \subseteq signed'[q]
                 /\ Exists(q) => batchesState'[q].taskCreatedBlock = batchesState[q].taskCreatedBlock
                 /\ Responded(q) => batchesState'[q].responded
      <3>1. Responded(q) => Exists(q)
        BY DEF LogMatchesState, LogTells
      <3> QED
        BY <1>2, <3>1 DEF CreateNewTask, BatchState
    <2> QED
      BY <2>1, <2>2
  <1>3. ASSUME NEW r \in Roots, NEW o \in Operators, SignRoot(o, r)
        PROVE  ChainGrows
    BY <1>0, <1>3 DEF SignRoot
  <1>4. ASSUME NEW r \in Roots, NEW signers \in SUBSET Operators, RespondToTask(r, signers)
        PROVE  ChainGrows
    <2>1. stakeAt' = stakeAt /\ blockNumber <= blockNumber' /\ Len(log) <= Len(log')
      BY <1>0, <1>4 DEF RespondToTask
    <2>2. ASSUME NEW q \in Roots
          PROVE  /\ signed[q] \subseteq signed'[q]
                 /\ batchesState'[q].taskCreatedBlock = batchesState[q].taskCreatedBlock
                 /\ Responded(q) => batchesState'[q].responded
      BY <1>4 DEF RespondToTask, BatchState
    <2> QED
      BY <2>1, <2>2
  <1>5. CASE UNCHANGED chainVars
    BY <1>0, <1>5 DEF chainVars
  <1> QED
    BY <1>1, <1>2, <1>3, <1>4, <1>5 DEF ChainNext

\* What the steps of the aggregator keep of the chain.
LEMMA ChainStep ==
    ASSUME AggregatorInv, [Next]_vars
    PROVE  ChainTypeOK' /\ LogMatchesState' /\ ChainGrows
  BY StepIsChainStep, TypeStep, LogStep, ChainGrowth DEF AggregatorInv
-----------------------------------------------------------------------------
(***************************************************************************)
(* What the handlers do to their calls and the responders to themselves.   *)
(***************************************************************************)
\* A new call is that of the operator that signs.
LEMMA CallArrivesEffect ==
    ASSUME AggregatorTypeOK, NEW c \in Calls, NEW o \in Operators, NEW r \in Roots,
           CallArrives(c, o, r)
    PROVE  /\ call' \in [Calls -> Call] /\ \A d \in Calls \ {c} : call'[d] = call[d]
           /\ call'[c].pc = "lookup" /\ call'[c].op = o /\ call'[c].root = r
           /\ call'[c].tries = call[c].tries /\ call[c].pc = "idle"
  <1>1. call \in [Calls -> Call]
    BY DEF AggregatorTypeOK
  <1>2. /\ call' = [call EXCEPT ![c] = [@ EXCEPT !.pc = "lookup", !.op = o, !.root = r]]
        /\ call[c].pc = "idle"
    BY DEF CallArrives
  <1> QED
    BY <1>1, <1>2 DEF Call, CallStates

\* A handler that finds its root keeps the index it found.
LEMMA LookupFindsEffect ==
    ASSUME AggregatorTypeOK, NEW c \in Calls, call[c].root \in Roots, LookupFinds(c)
    PROVE  /\ call' \in [Calls -> Call] /\ \A d \in Calls \ {c} : call'[d] = call[d]
           /\ call'[c].pc = "bls" /\ call'[c].idx = batchesIdxByRoot[call[c].root]
           /\ call'[c].op = call[c].op /\ call'[c].root = call[c].root
           /\ call'[c].idx \in Indices
  <1>1. /\ call \in [Calls -> Call]
        /\ batchesIdxByRoot[call[c].root] \in Indices
    BY DEF AggregatorTypeOK, LookupFinds
  <1> DEFINE i == batchesIdxByRoot[call[c].root]
  <1>2. call' = [call EXCEPT ![c] = [@ EXCEPT !.pc = "bls", !.idx = i]]
    BY DEF LookupFinds
  <1> HIDE DEF i
  <1>3. i \in Indices
    BY <1>1 DEF i
  <1>4. /\ call' \in [Calls -> Call] /\ \A d \in Calls \ {c} : call'[d] = call[d]
        /\ call'[c].pc = "bls" /\ call'[c].idx = i
        /\ call'[c].op = call[c].op /\ call'[c].root = call[c].root
    BY <1>1, <1>2, <1>3 DEF Call, CallStates
  <1> QED
    BY <1>3, <1>4 DEF i

\* A handler that misses its root has one try less, and replies after the last.
LEMMA LookupMissesEffect ==
    ASSUME AggregatorTypeOK, NEW c \in Calls, call[c].tries < waitForEventRetries,
           LookupMisses(c)
    PROVE  /\ call' \in [Calls -> Call] /\ \A d \in Calls \ {c} : call'[d] = call[d]
           /\ call'[c].pc = "replied"
              \/ (call'[c].pc = "lookup" /\ call'[c].tries < waitForEventRetries)
           /\ call'[c].op = call[c].op /\ call'[c].root = call[c].root
           /\ call[c].pc = "lookup"
  <1> DEFINE t == call[c].tries + 1
             pc == IF t = waitForEventRetries THEN "replied" ELSE "lookup"
  <1>1. call \in [Calls -> Call] /\ call[c].pc = "lookup"
    BY DEF AggregatorTypeOK, LookupMisses
  <1>2. call' = [call EXCEPT ![c] = [@ EXCEPT !.tries = t, !.pc = pc]]
    BY DEF LookupMisses
  <1>3. call[c].tries \in Nat
    BY <1>1, AggregatorAssumption DEF Call
  <1>4. t \in 0..waitForEventRetries /\ pc \in CallStates
    BY <1>3, AggregatorAssumption DEF CallStates
  <1>5. pc = "replied" \/ (pc = "lookup" /\ t < waitForEventRetries)
    BY <1>4, AggregatorAssumption
  <1> HIDE DEF t, pc
  <1>6. /\ call' \in [Calls -> Call] /\ \A d \in Calls \ {c} : call'[d] = call[d]
        /\ call'[c].pc = pc /\ call'[c].tries = t
        /\ call'[c].op = call[c].op /\ call'[c].root = call[c].root
    BY <1>1, <1>2, <1>4 DEF Call
  <1> QED
    BY <1>1, <1>5, <1>6

\* A reply ends the call and changes nothing else of it.
LEMMA ReplyEffect ==
    ASSUME AggregatorTypeOK, NEW c \in Calls, NEW answer \in {0, 1}, Reply(c, answer)
    PROVE  /\ call' \in [Calls -> Call] /\ \A d \in Calls \ {c} : call'[d] = call[d]
           /\ call'[c].pc = "replied" /\ call'[c].idx = call[c].idx
           /\ call'[c].op = call[c].op /\ call'[c].root = call[c].root
           /\ call[c].pc = "bls"
  <1>1. call \in [Calls -> Call] /\ call[c].pc = "bls"
    BY DEF AggregatorTypeOK, Reply
  <1>2. call' = [call EXCEPT ![c] = [@ EXCEPT !.pc = "replied", !.reply = answer]]
    BY DEF Reply
  <1> QED
    BY <1>1, <1>2 DEF Call, CallStates

\* A failed attempt leaves a responder its root, and its attempts in bounds.
LEMMA RetryEffect ==
    ASSUME AggregatorTypeOK, NEW i \in Indices, responder[i].tries < MaxSentTxRetries,
           Retry(i)
    PROVE  /\ responder' \in [Indices -> Responder]
           /\ \A j \in Indices \ {i} : responder'[j] = responder[j]
           /\ responder'[i].pc = "lost"
              \/ (responder'[i].pc = "lock" /\ responder'[i].tries < MaxSentTxRetries)
  <1> DEFINE t == responder[i].tries + 1
             pc == IF t = MaxSentTxRetries THEN "lost" ELSE "lock"
  <1>1. responder \in [Indices -> Responder]
    BY DEF AggregatorTypeOK
  <1>2. responder' = [responder EXCEPT ![i] = [@ EXCEPT !.tries = t, !.pc = pc]]
    BY DEF Retry
  <1>3. responder[i].tries \in Nat
    BY <1>1, AggregatorAssumption DEF Responder
  <1>4. t \in 0..MaxSentTxRetries /\ pc \in ResponderStates
    BY <1>3, AggregatorAssumption DEF ResponderStates
  <1>5. pc = "lost" \/ (pc = "lock" /\ t < MaxSentTxRetries)
    BY <1>4, AggregatorAssumption
  <1> HIDE DEF t, pc
  <1>6. /\ responder' \in [Indices -> Responder]
        /\ \A j \in Indices \ {i} : responder'[j] = responder[j]
        /\ responder'[i].pc = pc /\ responder'[i].tries = t
    BY <1>1, <1>2, <1>4 DEF Responder
  <1> QED
    BY <1>5, <1>6

\* Every other step of a responder keeps its attempts; what it records is the
\* root of its index, and the nonce of the transaction it sends.
LEMMA ResponderEffect ==
    ASSUME AggregatorTypeOK, NEW i \in Indices,
           FetchRoot(i) \/ LockWallet(i) \/ SendSucceeds(i) \/ ReceiptFound(i)
    PROVE  /\ responder' \in [Indices -> Responder]
           /\ \A j \in Indices \ {i} : responder'[j] = responder[j]
           /\ responder'[i].tries = responder[i].tries
           /\ FetchRoot(i) => responder[i].pc = "fetch" /\ responder'[i].pc = "lock"
           /\ LockWallet(i) => responder[i].pc = "lock" /\ responder'[i].pc = "send"
           /\ SendSucceeds(i) =>
                 /\ responder[i].pc = "send" /\ responder'[i].pc = "wait"
                 /\ responder'[i].nonce = Len(sent) + 1
                 /\ responder'[i].root = responder[i].root
           /\ ReceiptFound(i) =>
                 /\ responder[i].pc = "wait" /\ responder'[i].pc = "succeeded"
                 /\ responder'[i].root = responder[i].root
  <1>1. /\ responder \in [Indices -> Responder] /\ Len(sent) \in Nat
        /\ batchesRootByIdx[i] \in Roots \cup {ZeroRoot}
    BY DEF AggregatorTypeOK
  <1>2. FetchRoot(i) =>
           /\ responder' \in [Indices -> Responder]
           /\ \A j \in Indices \ {i} : responder'[j] = responder[j]
           /\ responder'[i].tries = responder[i].tries
           /\ responder[i].pc = "fetch" /\ responder'[i].pc = "lock"
    BY <1>1 DEF FetchRoot, Responder, ResponderStates
  <1>3. LockWallet(i) =>
           /\ responder' \in [Indices -> Responder]
           /\ \A j \in Indices \ {i} : responder'[j] = responder[j]
           /\ responder'[i].tries = responder[i].tries
           /\ responder[i].pc = "lock" /\ responder'[i].pc = "send"
    BY <1>1 DEF LockWallet, Responder, ResponderStates
  <1>4. SendSucceeds(i) =>
           /\ responder' \in [Indices -> Responder]
           /\ \A j \in Indices \ {i} : responder'[j] = responder[j]
           /\ responder'[i].tries = responder[i].tries
           /\ responder[i].pc = "send" /\ responder'[i].pc = "wait"
           /\ responder'[i].nonce = Len(sent) + 1
           /\ responder'[i].root = responder[i].root
    <2> SUFFICES ASSUME SendSucceeds(i)
                 PROVE  /\ responder' \in [Indices -> Responder]
                        /\ \A j \in Indices \ {i} : responder'[j] = responder[j]
                        /\ responder'[i].tries = responder[i].tries
                        /\ responder[i].pc = "send" /\ responder'[i].pc = "wait"
                        /\ responder'[i].nonce = Len(sent) + 1
                        /\ responder'[i].root = responder[i].root
      OBVIOUS
    <2> DEFINE n == Len(sent) + 1
    <2>1. n \in Nat
      BY <1>1
    <2>2. /\ responder' = [responder EXCEPT ![i] = [@ EXCEPT !.pc = "wait", !.nonce = n]]
          /\ responder[i].pc = "send"
      BY DEF SendSucceeds
    <2> HIDE DEF n
    <2>3. /\ responder' \in [Indices -> Responder]
          /\ \A j \in Indices \ {i} : responder'[j] = responder[j]
          /\ responder'[i].tries = responder[i].tries
          /\ responder'[i].pc = "wait" /\ responder'[i].nonce = n
          /\ responder'[i].root = responder[i].root
      BY <1>1, <2>1, <2>2 DEF Responder, ResponderStates
    <2> QED
      BY <2>2, <2>3 DEF n
  <1>5. ReceiptFound(i) =>
           /\ responder' \in [Indices -> Responder]
           /\ \A j \in Indices \ {i} : responder'[j] = responder[j]
           /\ responder'[i].tries = responder[i].tries
           /\ responder[i].pc = "wait" /\ responder'[i].pc = "succeeded"
           /\ responder'[i].root = responder[i].root
    BY <1>1 DEF ReceiptFound, Responder, ResponderStates
  <1> QED
    BY <1>2, <1>3, <1>4, <1>5

\* A task that expires or whose response is taken keeps its block and signers.
LEMMA TaskStateEffect ==
    ASSUME AggregatorTypeOK, NEW i \in Indices, TaskExpires(i) \/ TakeResponse(i)
    PROVE  /\ task' \in [Indices -> Task] /\ \A j \in Indices \ {i} : task'[j] = task[j]
           /\ task'[i].block = task[i].block /\ task'[i].signers = task[i].signers
           /\ TaskExpires(i) => task[i].state = "open" /\ task'[i].state = "expired"
           /\ TakeResponse(i) =>
                 task[i].state \in {"quorum", "expired"} /\ task'[i].state = "closed"
  <1>1. task \in [Indices -> Task]
    BY DEF AggregatorTypeOK
  <1>2. CASE TaskExpires(i)
    BY <1>1, <1>2 DEF TaskExpires, Task, TaskStates, TakeResponse
  <1>3. CASE TakeResponse(i)
    BY <1>1, <1>3 DEF TakeResponse, Task, TaskStates, TaskExpires
  <1> QED
    BY <1>2, <1>3

\* A responder is started for a quorum, not for an expired task.
LEMMA TakeResponseEffect ==
    ASSUME AggregatorTypeOK, NEW i \in Indices, TakeResponse(i)
    PROVE  /\ responder' \in [Indices -> Responder]
           /\ \A j \in Indices \ {i} : responder'[j] = responder[j]
           /\ responder'[i].tries = responder[i].tries
           /\ \/ responder'[i] = responder[i]
              \/ (task[i].state = "quorum" /\ responder'[i].pc = "fetch")
  <1>1. responder \in [Indices -> Responder] /\ task[i].state \in {"quorum", "expired"}
    BY DEF AggregatorTypeOK, TakeResponse
  <1>2. CASE task[i].state = "expired"
    BY <1>1, <1>2 DEF TakeResponse
  <1>3. CASE task[i].state = "quorum"
    <2>1. responder' = [responder EXCEPT ![i].pc = "fetch"]
      BY <1>3 DEF TakeResponse
    <2> QED
      BY <1>1, <1>3, <2>1 DEF Responder, ResponderStates
  <1> QED
    BY <1>1, <1>2, <1>3

\* A counted signature joins those of its task, which becomes a quorum exactly
\* when they are one at the block of the task.
LEMMA SignatureCountedEffect ==
    ASSUME AggregatorTypeOK, NEW c \in Calls, CallInOrder(c), SignatureCounted(c)
    PROVE  LET i == call[c].idx
               signers == task[i].signers \cup {call[c].op} IN
           /\ i \in Indices /\ task[i].state = "open"
           /\ task' \in [Indices -> Task] /\ \A j \in Indices \ {i} : task'[j] = task[j]
           /\ task'[i].signers = signers /\ task'[i].block = task[i].block
           /\ \/ task'[i].state = "open"
              \/ (task'[i].state = "quorum" /\ IsQuorum(signers, stakeAt[task[i].block]))
  <1> DEFINE i == call[c].idx
             signers == task[i].signers \cup {call[c].op}
             state == IF IsQuorum(signers, stakeAt[task[i].block]) THEN "quorum" ELSE "open"
  <1>1. /\ task \in [Indices -> Task] /\ call[c].op \in Operators /\ i \in Indices
        /\ task[i].state = "open"
    BY DEF SignatureCounted, CallInOrder, AggregatorTypeOK
  <1>2. signers \in SUBSET Operators /\ state \in TaskStates
    BY <1>1 DEF Task, TaskStates
  <1>3. task' = [task EXCEPT ![i].signers = signers, ![i].state = state]
    BY DEF SignatureCounted
  <1>4. state = "open" \/ (state = "quorum" /\ IsQuorum(signers, stakeAt[task[i].block]))
    BY Zenon
  <1> HIDE DEF i, signers, state
  <1>5. /\ task' \in [Indices -> Task] /\ \A j \in Indices \ {i} : task'[j] = task[j]
        /\ task'[i].signers = signers /\ task'[i].block = task[i].block
        /\ task'[i].state = state
    BY <1>1, <1>2, <1>3 DEF Task
  <1>6. /\ i \in Indices /\ task[i].state = "open"
        /\ task' \in [Indices -> Task] /\ \A j \in Indices \ {i} : task'[j] = task[j]
        /\ task'[i].signers = signers /\ task'[i].block = task[i].block
        /\ \/ task'[i].state = "open"
           \/ (task'[i].state = "quorum" /\ IsQuorum(signers, stakeAt[task[i].block]))
    BY <1>1, <1>4, <1>5
  <1> QED
    BY <1>6 DEF i, signers
-----------------------------------------------------------------------------
(***************************************************************************)
(* Types.                                                                  *)
(***************************************************************************)
\* An empty process, as NewAggregator leaves it.
LEMMA EmptyTyped ==
    /\ NoRoots \in [Indices -> Roots \cup {ZeroRoot}]
    /\ NoIndices \in [Roots -> Indices \cup {NoIndex}]
    /\ NoCalls \in [Calls -> Call]
    /\ NoSignatures \in [Calls -> {"none", "running", "counted", "rejected"}]
    /\ NoTasks \in [Indices -> Task]
    /\ NoResponders \in [Indices -> Responder]
  <1>1. NotMade \in Call /\ NoTask \in Task /\ NoResponder \in Responder
    BY AggregatorAssumption, BlockAssumption
    DEF NotMade, Call, CallStates, NoTask, Task, TaskStates, NoResponder, Responder,
        ResponderStates
  <1> QED
    BY <1>1 DEF NoRoots, NoIndices, NoCalls, NoSignatures, NoTasks, NoResponders

\* The aggregator starts with nothing done.
LEMMA AggregatorInvInit == Init => AggregatorInv
  <1> SUFFICES ASSUME Init PROVE AggregatorInv
    OBVIOUS
  <1> USE AggregatorAssumption DEF Init
  <1>1. ChainTypeOK /\ LogMatchesState
    BY TypeInit DEF ChainInit, LogMatchesState, LogTells, Exists, Responded, Position
  <1>2. /\ NotMade \in Call /\ NotMade.pc = "idle" /\ NotMade.tries = 0
        /\ NoTask \in Task /\ NoTask.state = "none"
        /\ NoResponder \in Responder /\ NoResponder.pc = "none" /\ NoResponder.tries = 0
    BY BlockAssumption DEF NotMade, Call, CallStates, NoTask, Task, TaskStates, NoResponder,
       Responder, ResponderStates
  <1>typed. AggregatorTypeOK
    <2>1. /\ crashes \in 0..MaxCrashes /\ retries \in 0..MaxRetries /\ nextBatchIndex \in 0..MaxIndex
      OBVIOUS
    <2>2. seen \in 0..Len(log)
      BY DEF ChainInit
    <2>3. sent \in Seq(Transaction) /\ mined \in 0..Len(sent)
      OBVIOUS
    <2> QED
      BY <2>1, <2>2, <2>3, EmptyTyped, Zenon DEF AggregatorTypeOK
  <1>3. /\ \A c \in Calls : call[c].pc = "idle" /\ call[c].tries = 0 /\ sig[c] = "none"
        /\ \A i \in Indices : task[i].state = "none" /\ responder[i].pc = "none"
                               /\ responder[i].tries = 0
        /\ Len(sent) = 0
    BY <1>2 DEF NoCalls, NoSignatures, NoTasks, NoResponders
  <1>4. TablesAgree
    BY DEF TablesAgree, NoRoots, NoIndices, Indices, NoIndex
  <1>5. \A c \in Calls : CallInOrder(c)
    BY <1>3 DEF CallInOrder
  <1>6. \A i \in Indices : TaskInOrder(i) /\ ResponderInOrder(i)
    BY <1>3 DEF TaskInOrder, ResponderInOrder, Reported
  <1>7. \A n \in 1..Len(sent) : TransactionInOrder(n)
    BY <1>3
  <1> QED
    BY <1>1, <1>typed, <1>4, <1>5, <1>6, <1>7 DEF AggregatorInv

\* An event of the log names a root, so a batch is filed under a new index with
\* the block the contract recorded, or it is not filed at all.
LEMMA ReceiveEffect ==
    ASSUME ChainTypeOK, AggregatorTypeOK, LogMatchesState, ReceiveNewBatch
    PROVE  \/ UNCHANGED <<tables, task>>
           \/ \E r \in Roots :
                 /\ nextBatchIndex \in Indices /\ Exists(r)
                 /\ batchesIdxByRoot[r] = NoIndex
                 /\ batchesIdxByRoot' = [batchesIdxByRoot EXCEPT ![r] = nextBatchIndex]
                 /\ batchesRootByIdx' = [batchesRootByIdx EXCEPT ![nextBatchIndex] = r]
                 /\ nextBatchIndex' = nextBatchIndex + 1
                 /\ task' = [task EXCEPT ![nextBatchIndex] =
                       [state |-> "open", block |-> batchesState[r].taskCreatedBlock,
                        signers |-> {}]]
  <1>1. PICK i \in 1..Len(log) : log[i].name = "NewBatch" /\ AddNewTask(log[i].root)
    BY DEF ReceiveNewBatch
  <1> DEFINE r == log[i].root
  <1>2. log[i] \in Events /\ i \in DOMAIN log
    BY <1>1 DEF ChainTypeOK
  <1>3. r \in Roots /\ log[i] = NewBatch(r)
    BY <1>1, <1>2 DEF Events, NewBatch
  <1>4. i \in Position(NewBatch(r))
    BY <1>2, <1>3 DEF Position
  <1>5. Exists(r)
    BY <1>3, <1>4 DEF LogMatchesState, LogTells
  <1>6. nextBatchIndex \in Indices
    BY AggregatorAssumption DEF ReceiveNewBatch, AggregatorTypeOK, Indices
  <1> HIDE DEF r
  <1>7. AddNewTask(r)
    BY <1>1 DEF r
  <1> QED
    BY <1>3, <1>5, <1>6, <1>7 DEF AddNewTask

\* Nothing but an event fills the tables, and only the death of the process
\* empties them.
LEMMA TablesKept ==
    ASSUME [Next]_vars, ~ReceiveNewBatch, ~Die
    PROVE  UNCHANGED tables
  <1>1. CASE Restart \/ Subscribe \/ SubscriptionFails \/ UNCHANGED vars
    BY <1>1, SMTT(30) DEF Restart, Subscribe, SubscriptionFails, vars
  <1>2. CASE MineResponse \/ Environment
    BY <1>2, SMTT(30) DEF MineResponse, Environment, others
  <1>3. ASSUME NEW c \in Calls,
               \/ \E o \in Operators, r \in Roots : CallArrives(c, o, r)
               \/ Handler(c) \/ SignatureCounted(c) \/ SignatureRejected(c)
        PROVE  UNCHANGED tables
    BY <1>3 DEF CallArrives, Handler, LookupFinds, LookupMisses, CallDone, CallTimesOut, Reply,
                SignatureCounted, SignatureRejected, chainAndLoops
  <1>4. ASSUME NEW i \in Indices, TaskExpires(i) \/ HandleResponse(i)
        PROVE  UNCHANGED tables
    BY <1>4 DEF TaskExpires, HandleResponse, TakeResponse, FetchRoot, LockWallet,
                SendSucceeds, SendFails, ReceiptFound, ReceiptMissing, chainAndLoops, others
  <1> QED
    BY <1>1, <1>2, <1>3, <1>4 DEF Next, Crash, SubscriptionGivenUp
-----------------------------------------------------------------------------
\* Whatever happens around it, the variables of the aggregator keep their
\* types: attempts stay in bounds and an index that is used is one handed out.
LEMMA AggregatorTypeStep == AggregatorInv /\ [Next]_vars => AggregatorTypeOK'
  <1> SUFFICES ASSUME AggregatorInv, [Next]_vars PROVE AggregatorTypeOK'
    OBVIOUS
  <1>0. /\ ChainTypeOK /\ AggregatorTypeOK /\ LogMatchesState /\ Len(log) \in Nat
        /\ ChainGrows /\ Len(log') \in Nat
        /\ \A c \in Calls : CallInOrder(c)
        /\ \A i \in Indices : ResponderInOrder(i)
    BY ChainStep DEF AggregatorInv, ChainTypeOK
  <1>seen. seen \in 0..Len(log')
    BY <1>0 DEF AggregatorTypeOK, ChainGrows
  <1>1. CASE Die
    <2>1. crashes' \in 0..MaxCrashes
      BY <1>0, <1>1, AggregatorAssumption DEF Die, AggregatorTypeOK
    <2>2. /\ retries' \in 0..MaxRetries
          /\ nextBatchIndex' \in 0..MaxIndex /\ seen' \in 0..Len(log')
      BY <1>0, <1>1, AggregatorAssumption DEF Die
    <2>3. up' \in BOOLEAN /\ watching' \in BOOLEAN
      BY <1>1, Zenon DEF Die
    <2> QED
      BY <1>0, <1>1, <2>1, <2>2, <2>3, EmptyTyped, Zenon DEF Die, AggregatorTypeOK
  <1>2. CASE Restart \/ Subscribe \/ SubscriptionFails
    <2>1. retries' \in 0..MaxRetries
      BY <1>0, <1>2, AggregatorAssumption
      DEF Restart, Subscribe, SubscriptionFails, AggregatorTypeOK, subscription
    <2>2. seen' \in 0..Len(log')
      BY <1>0, <1>2 DEF Restart, Subscribe, SubscriptionFails, AggregatorTypeOK, subscription,
         chainVars
    <2> QED
      BY <1>0, <1>2, <2>1, <2>2
      DEF Restart, Subscribe, SubscriptionFails, AggregatorTypeOK, subscription, process,
          tables, wallet
  <1>3. CASE ReceiveNewBatch
    <2>1. /\ batchesRootByIdx' \in [Indices -> Roots \cup {ZeroRoot}]
          /\ batchesIdxByRoot' \in [Roots -> Indices \cup {NoIndex}]
          /\ nextBatchIndex' \in 0..MaxIndex
          /\ task' \in [Indices -> Task]
      <3>1. CASE UNCHANGED <<tables, task>>
        BY <1>0, <3>1 DEF AggregatorTypeOK, tables
      <3>2. ASSUME NEW r \in Roots, nextBatchIndex \in Indices,
                   batchesIdxByRoot' = [batchesIdxByRoot EXCEPT ![r] = nextBatchIndex],
                   batchesRootByIdx' = [batchesRootByIdx EXCEPT ![nextBatchIndex] = r],
                   nextBatchIndex' = nextBatchIndex + 1,
                   task' = [task EXCEPT ![nextBatchIndex] =
                       [state |-> "open", block |-> batchesState[r].taskCreatedBlock,
                        signers |-> {}]]
            PROVE  /\ batchesRootByIdx' \in [Indices -> Roots \cup {ZeroRoot}]
                   /\ batchesIdxByRoot' \in [Roots -> Indices \cup {NoIndex}]
                   /\ nextBatchIndex' \in 0..MaxIndex
                   /\ task' \in [Indices -> Task]
        <4>1. [state |-> "open", block |-> batchesState[r].taskCreatedBlock, signers |-> {}]
                 \in Task
          BY <1>0 DEF ChainTypeOK, BatchState, Task, TaskStates
        <4>2. nextBatchIndex' \in 0..MaxIndex
          BY <3>2, AggregatorAssumption DEF Indices
        <4> QED
          BY <1>0, <3>2, <4>1, <4>2 DEF AggregatorTypeOK
      <3> QED
        BY <1>0, <1>3, <3>1, <3>2, ReceiveEffect
    <2>2. seen' \in 0..Len(log')
      BY <1>0, <1>3 DEF ReceiveNewBatch, AggregatorTypeOK, chainVars
    <2> QED
      BY <1>0, <1>3, <2>1, <2>2 DEF ReceiveNewBatch, AggregatorTypeOK, process, wallet
  <1>4. ASSUME NEW c \in Calls, NEW o \in Operators, NEW r \in Roots, CallArrives(c, o, r)
        PROVE  AggregatorTypeOK'
    <2>1. call' \in [Calls -> Call]
      BY <1>0, <1>4, CallArrivesEffect
    <2> QED
      BY <1>0, <1>seen, <1>4, <2>1
      DEF CallArrives, AggregatorTypeOK, process, subscription, tables, wallet
  <1>5. ASSUME NEW c \in Calls, Handler(c)
        PROVE  AggregatorTypeOK'
    <2>1. call' \in [Calls -> Call]
      <3>1. CASE LookupFinds(c)
        <4>1. call[c].root \in Roots
          BY <1>0, <3>1 DEF LookupFinds, CallInOrder
        <4> QED
          BY <1>0, <3>1, <4>1, LookupFindsEffect
      <3>2. CASE LookupMisses(c)
        <4>1. call[c].tries < waitForEventRetries
          BY <1>0, <3>2 DEF LookupMisses, CallInOrder
        <4> QED
          BY <1>0, <3>2, <4>1, LookupMissesEffect
      <3>3. CASE CallDone(c) \/ CallTimesOut(c)
        BY <1>0, <3>3, ReplyEffect DEF CallDone, CallTimesOut
      <3> QED
        BY <1>5, <3>1, <3>2, <3>3 DEF Handler
    <2>2. /\ taskMutex' \in Calls \cup {Free}
          /\ sig' \in [Calls -> {"none", "running", "counted", "rejected"}]
          /\ UNCHANGED <<chainAndLoops, task>>
      BY <1>0, <1>5 DEF Handler, LookupFinds, LookupMisses, CallDone, CallTimesOut, Reply,
         AggregatorTypeOK
    <2> QED
      BY <1>0, <1>seen, <2>1, <2>2
      DEF AggregatorTypeOK, chainAndLoops, process, subscription, tables, wallet
  <1>6. ASSUME NEW c \in Calls, SignatureCounted(c) \/ SignatureRejected(c)
        PROVE  AggregatorTypeOK'
    <2>1. sig' \in [Calls -> {"none", "running", "counted", "rejected"}]
      BY <1>0, <1>6 DEF SignatureCounted, SignatureRejected, AggregatorTypeOK
    <2>2. task' \in [Indices -> Task]
      <3>1. CASE SignatureRejected(c)
        BY <1>0, <3>1 DEF SignatureRejected, AggregatorTypeOK
      <3>2. CASE SignatureCounted(c)
        BY <1>0, <3>2, SignatureCountedEffect
      <3> QED
        BY <1>6, <3>1, <3>2
    <2> QED
      BY <1>0, <1>seen, <1>6, <2>1, <2>2
      DEF SignatureCounted, SignatureRejected, AggregatorTypeOK, chainAndLoops, process,
          subscription, tables, wallet
  <1>7. ASSUME NEW i \in Indices, TaskExpires(i) \/ TakeResponse(i)
        PROVE  AggregatorTypeOK'
    <2>1. task' \in [Indices -> Task]
      BY <1>0, <1>7, TaskStateEffect
    <2>2. responder' \in [Indices -> Responder]
      BY <1>0, <1>7, TakeResponseEffect DEF TaskExpires, chainAndLoops, AggregatorTypeOK
    <2> QED
      BY <1>0, <1>seen, <1>7, <2>1, <2>2
      DEF TaskExpires, TakeResponse, AggregatorTypeOK, chainAndLoops, process, subscription,
          tables, wallet
  <1>8. ASSUME NEW i \in Indices, FetchRoot(i) \/ LockWallet(i) \/ ReceiptFound(i)
        PROVE  AggregatorTypeOK'
    <2>1. responder' \in [Indices -> Responder]
      BY <1>0, <1>8, ResponderEffect
    <2> QED
      BY <1>0, <1>seen, <1>8, <2>1
      DEF FetchRoot, LockWallet, ReceiptFound, AggregatorTypeOK, others, process, subscription,
          tables, wallet
  <1>9. ASSUME NEW i \in Indices, SendSucceeds(i)
        PROVE  AggregatorTypeOK'
    <2>1. responder' \in [Indices -> Responder]
      BY <1>0, <1>9, ResponderEffect
    <2>2. [root |-> responder[i].root, signers |-> task[i].signers] \in Transaction
      BY <1>0, <1>9 DEF SendSucceeds, AggregatorTypeOK, Task, Transaction
    <2>3. sent' \in Seq(Transaction) /\ mined' \in 0..Len(sent')
      BY <1>0, <1>9, <2>2 DEF SendSucceeds, AggregatorTypeOK
    <2> QED
      BY <1>0, <1>seen, <1>9, <2>1, <2>3
      DEF SendSucceeds, AggregatorTypeOK, others, process, subscription, tables
  <1>10. ASSUME NEW i \in Indices, SendFails(i) \/ ReceiptMissing(i)
         PROVE  AggregatorTypeOK'
    <2>1. responder[i].tries < MaxSentTxRetries /\ Retry(i)
      BY <1>0, <1>10 DEF SendFails, ReceiptMissing, ResponderInOrder
    <2>2. responder' \in [Indices -> Responder]
      BY <1>0, <2>1, RetryEffect
    <2> QED
      BY <1>0, <1>seen, <1>10, <2>2
      DEF SendFails, ReceiptMissing, AggregatorTypeOK, others, process, subscription, tables,
          wallet
  <1>11. CASE MineResponse \/ Environment
    <2>1. mined' \in 0..Len(sent)
      BY <1>0, <1>11 DEF MineResponse, Environment, AggregatorTypeOK
    <2> QED
      BY <1>0, <1>seen, <1>11, <2>1
      DEF MineResponse, Environment, AggregatorTypeOK, others, process, subscription, tables,
          wallet
  <1>12. CASE UNCHANGED vars
    BY <1>0, <1>12 DEF vars, AggregatorTypeOK, chainVars, process, subscription, tables, wallet
  <1> QED
    BY <1>1, <1>2, <1>3, <1>4, <1>5, <1>6, <1>7, <1>8, <1>9, <1>10, <1>11, <1>12
    DEF Next, Crash, SubscriptionGivenUp, HandleResponse
-----------------------------------------------------------------------------
(***************************************************************************)
(* The tables.                                                             *)
(***************************************************************************)
\* A batch gets the next free index and no batch a second one, so the two maps
\* stay inverse to each other; they are only ever emptied together.
LEMMA TablesStep == AggregatorInv /\ [Next]_vars => TablesAgree'
  <1> SUFFICES ASSUME AggregatorInv, [Next]_vars PROVE TablesAgree'
    OBVIOUS
  <1>0. ChainTypeOK /\ AggregatorTypeOK /\ LogMatchesState /\ TablesAgree
    BY DEF AggregatorInv
  <1>1. CASE Die
    BY <1>1 DEF Die, TablesAgree, NoRoots, NoIndices, Indices, NoIndex
  <1>2. CASE UNCHANGED tables
    BY <1>0, <1>2 DEF tables, TablesAgree
  <1>3. ASSUME NEW r \in Roots, nextBatchIndex \in Indices, batchesIdxByRoot[r] = NoIndex,
               batchesIdxByRoot' = [batchesIdxByRoot EXCEPT ![r] = nextBatchIndex],
               batchesRootByIdx' = [batchesRootByIdx EXCEPT ![nextBatchIndex] = r],
               nextBatchIndex' = nextBatchIndex + 1
        PROVE  TablesAgree'
    <2>0. /\ batchesRootByIdx \in [Indices -> Roots \cup {ZeroRoot}]
          /\ batchesIdxByRoot \in [Roots -> Indices \cup {NoIndex}]
          /\ nextBatchIndex \in Nat /\ Indices \subseteq Nat /\ NoIndex \notin Nat
      BY <1>0, <1>3, AggregatorAssumption DEF AggregatorTypeOK, Indices, NoIndex
    <2>1. ASSUME NEW q \in Roots, batchesIdxByRoot'[q] # NoIndex
          PROVE  /\ batchesIdxByRoot'[q] < nextBatchIndex'
                 /\ batchesRootByIdx'[batchesIdxByRoot'[q]] = q
      <3>1. CASE q = r
        BY <1>3, <2>0, <3>1
      <3>2. CASE q # r
        <4>1. /\ batchesIdxByRoot'[q] = batchesIdxByRoot[q]
              /\ batchesIdxByRoot[q] \in Indices /\ batchesIdxByRoot[q] < nextBatchIndex
              /\ batchesRootByIdx[batchesIdxByRoot[q]] = q
          BY <1>0, <1>3, <2>0, <2>1, <3>2 DEF TablesAgree
        <4> DEFINE j == batchesIdxByRoot[q]
        <4>2. j \in Indices /\ j \in Nat /\ j < nextBatchIndex /\ batchesRootByIdx[j] = q
          BY <2>0, <4>1
        <4>3. batchesIdxByRoot'[q] = j
          BY <4>1
        <4> HIDE DEF j
        <4>4. batchesRootByIdx'[j] = q /\ j < nextBatchIndex'
          BY <1>3, <2>0, <4>2
        <4> QED
          BY <4>3, <4>4
      <3> QED
        BY <3>1, <3>2
    <2>2. ASSUME NEW i \in Indices
          PROVE  IF i < nextBatchIndex'
                 THEN batchesRootByIdx'[i] \in Roots
                      /\ batchesIdxByRoot'[batchesRootByIdx'[i]] = i
                 ELSE batchesRootByIdx'[i] = ZeroRoot
      <3>1. CASE i = nextBatchIndex
        BY <1>3, <2>0, <3>1
      <3>2. CASE i < nextBatchIndex
        <4>1. /\ batchesRootByIdx'[i] = batchesRootByIdx[i]
              /\ batchesRootByIdx[i] \in Roots /\ batchesIdxByRoot[batchesRootByIdx[i]] = i
          BY <1>0, <1>3, <2>0, <3>2 DEF TablesAgree
        <4>2. batchesRootByIdx[i] # r
          BY <1>3, <2>0, <4>1
        <4> QED
          BY <1>3, <2>0, <3>2, <4>1, <4>2
      <3>3. CASE i > nextBatchIndex
        BY <1>0, <1>3, <2>0, <3>3 DEF TablesAgree
      <3> QED
        BY <2>0, <3>1, <3>2, <3>3
    <2> QED
      BY <2>1, <2>2 DEF TablesAgree
  <1>4. CASE ReceiveNewBatch
    <2>1. \/ UNCHANGED tables
          \/ \E r \in Roots :
                /\ nextBatchIndex \in Indices /\ batchesIdxByRoot[r] = NoIndex
                /\ batchesIdxByRoot' = [batchesIdxByRoot EXCEPT ![r] = nextBatchIndex]
                /\ batchesRootByIdx' = [batchesRootByIdx EXCEPT ![nextBatchIndex] = r]
                /\ nextBatchIndex' = nextBatchIndex + 1
      BY <1>0, <1>4, ReceiveEffect DEF tables
    <2> QED
      BY <1>2, <1>3, <2>1
  <1> QED
    BY <1>1, <1>2, <1>4, TablesKept

\* Nothing but the death of the process changes the index of a batch, or takes
\* a signature from its task.
FilesGrow ==
    /\ nextBatchIndex <= nextBatchIndex'
    /\ \A i \in Indices : i < nextBatchIndex =>
          /\ batchesRootByIdx'[i] = batchesRootByIdx[i]
          /\ task[i].signers \subseteq task'[i].signers

\* A new task is put under an index that was free, and every other step of the
\* service adds signers or none.
LEMMA FilesGrowth ==
    ASSUME AggregatorInv, [Next]_vars, ~Die
    PROVE  FilesGrow
  <1>0. /\ ChainTypeOK /\ AggregatorTypeOK /\ LogMatchesState
        /\ \A c \in Calls : CallInOrder(c)
        /\ nextBatchIndex \in Nat
    BY AggregatorAssumption DEF AggregatorInv, AggregatorTypeOK
  <1>1. CASE UNCHANGED <<tables, task>>
    BY <1>0, <1>1 DEF tables, FilesGrow
  <1>2. CASE ReceiveNewBatch
    <2>1. ASSUME NEW r \in Roots, nextBatchIndex \in Indices,
                 batchesRootByIdx' = [batchesRootByIdx EXCEPT ![nextBatchIndex] = r],
                 nextBatchIndex' = nextBatchIndex + 1,
                 task' = [task EXCEPT ![nextBatchIndex] =
                     [state |-> "open", block |-> batchesState[r].taskCreatedBlock,
                      signers |-> {}]]
          PROVE  FilesGrow
      BY <1>0, <2>1 DEF FilesGrow, AggregatorTypeOK, Indices
    <2> QED
      BY <1>0, <1>1, <1>2, <2>1, ReceiveEffect
  <1>3. ASSUME NEW c \in Calls, SignatureCounted(c)
        PROVE  FilesGrow
    <2>1. \A j \in Indices : task[j].signers \subseteq task'[j].signers
      BY <1>0, <1>3, SignatureCountedEffect
    <2>2. UNCHANGED tables
      BY <1>3 DEF SignatureCounted, chainAndLoops
    <2> QED
      BY <1>0, <2>1, <2>2 DEF FilesGrow, tables
  <1>4. ASSUME NEW i \in Indices, TaskExpires(i) \/ TakeResponse(i)
        PROVE  FilesGrow
    <2>1. \A j \in Indices : task[j].signers \subseteq task'[j].signers
      BY <1>0, <1>4, TaskStateEffect
    <2>2. UNCHANGED tables
      BY <1>4 DEF TaskExpires, TakeResponse, chainAndLoops
    <2> QED
      BY <1>0, <2>1, <2>2 DEF FilesGrow, tables
  <1>5. CASE Restart \/ Subscribe \/ SubscriptionFails \/ MineResponse \/ Environment
             \/ UNCHANGED vars
    BY <1>1, <1>5 DEF Restart, Subscribe, SubscriptionFails, MineResponse, Environment, others,
       vars
  <1>6. ASSUME NEW c \in Calls,
               \/ \E o \in Operators, r \in Roots : CallArrives(c, o, r)
               \/ Handler(c) \/ SignatureRejected(c)
        PROVE  FilesGrow
    BY <1>1, <1>6 DEF CallArrives, Handler, LookupFinds, LookupMisses, CallDone, CallTimesOut,
       Reply, SignatureRejected, chainAndLoops
  <1>7. ASSUME NEW i \in Indices,
               \/ FetchRoot(i) \/ LockWallet(i) \/ SendSucceeds(i) \/ SendFails(i)
               \/ ReceiptFound(i) \/ ReceiptMissing(i)
        PROVE  FilesGrow
    BY <1>1, <1>7 DEF FetchRoot, LockWallet, SendSucceeds, SendFails, ReceiptFound,
       ReceiptMissing, others
  <1> QED
    BY <1>2, <1>3, <1>4, <1>5, <1>6, <1>7
    DEF Next, Crash, SubscriptionGivenUp, HandleResponse
-----------------------------------------------------------------------------
(***************************************************************************)
(* Calls and their signatures.                                             *)
(***************************************************************************)
\* An operator stays a signer, and a filed signature stays filed.
LEMMA CallKept ==
    ASSUME AggregatorInv, ChainGrows, FilesGrow, NEW c \in Calls,
           call'[c] = call[c], sig'[c] = sig[c]
    PROVE  CallInOrder(c)'
  <1>1. CallInOrder(c) /\ TablesAgree /\ AggregatorTypeOK
    BY DEF AggregatorInv
  <1> DEFINE x == call[c]
  <1>2. x.pc # "idle" => x.op \in Operators /\ x.root \in Roots /\ x.op \in signed'[x.root]
    BY <1>1 DEF CallInOrder, ChainGrows
  <1>3. ASSUME sig[c] # "none"
        PROVE  /\ x.idx \in Indices /\ x.idx < nextBatchIndex /\ x.root \in Roots
               /\ batchesRootByIdx[x.idx] = x.root
    <2>1. x.pc # "idle" /\ x.idx \in Indices /\ batchesRootByIdx[x.idx] = x.root
      BY <1>1, <1>3 DEF CallInOrder
    <2> QED
      BY <1>1, <1>2, <2>1, AggregatorAssumption DEF TablesAgree
  <1>4. sig[c] # "none" => x.idx \in Indices /\ batchesRootByIdx'[x.idx] = x.root
    BY <1>3 DEF FilesGrow
  <1>5. sig[c] = "counted" => x.op \in task'[x.idx].signers
    BY <1>1, <1>3 DEF FilesGrow, CallInOrder
  <1> QED
    BY <1>1, <1>2, <1>4, <1>5 DEF CallInOrder

\* A call that is answered or waits for the service stays with the index its
\* root had when it was found.
LEMMA CallStep ==
    ASSUME AggregatorInv, [Next]_vars, NEW c \in Calls
    PROVE  CallInOrder(c)'
  <1>0. /\ ChainTypeOK /\ AggregatorTypeOK /\ TablesAgree
        /\ CallInOrder(c) /\ ChainGrows
        /\ \A d \in Calls : CallInOrder(d)
    BY ChainStep DEF AggregatorInv
  <1>1. CASE Die
    <2>1. call'[c].pc = "idle" /\ call'[c].tries = 0 /\ sig'[c] = "none"
      BY <1>1 DEF Die, NoCalls, NotMade, NoSignatures
    <2> QED
      BY <2>1, AggregatorAssumption DEF CallInOrder
  <1>2. CASE ~Die /\ call'[c] = call[c] /\ sig'[c] = sig[c]
    BY <1>0, <1>2, FilesGrowth, CallKept
  <1>3. ASSUME NEW o \in Operators, NEW r \in Roots, CallArrives(c, o, r)
        PROVE  CallInOrder(c)'
    <2>1. /\ call'[c].pc = "lookup" /\ call'[c].op = o /\ call'[c].root = r
          /\ call'[c].tries = call[c].tries /\ call[c].pc = "idle"
      BY <1>0, <1>3, CallArrivesEffect
    <2>2. o \in signed'[r] /\ sig' = sig
      BY <1>0, <1>3 DEF CallArrives, SignRoot, ChainTypeOK
    <2>3. sig[c] = "none" /\ call[c].tries < waitForEventRetries
      BY <1>0, <2>1 DEF CallInOrder
    <2> QED
      BY <2>1, <2>2, <2>3 DEF CallInOrder
  <1>4. CASE LookupFinds(c)
    <2>1. /\ call[c].pc = "lookup" /\ call[c].root \in Roots /\ call[c].op \in Operators
          /\ call[c].op \in signed[call[c].root]
      BY <1>0, <1>4 DEF LookupFinds, CallInOrder
    <2>2. /\ call'[c].pc = "bls" /\ call'[c].idx = batchesIdxByRoot[call[c].root]
          /\ call'[c].op = call[c].op /\ call'[c].root = call[c].root
          /\ call'[c].idx \in Indices
      BY <1>0, <1>4, <2>1, LookupFindsEffect
    <2>3. /\ sig'[c] = "running" /\ signed' = signed /\ batchesRootByIdx' = batchesRootByIdx
          /\ batchesIdxByRoot[call[c].root] # NoIndex
      BY <1>0, <1>4 DEF LookupFinds, chainAndLoops, chainVars, tables, AggregatorTypeOK
    <2>4. batchesRootByIdx[call'[c].idx] = call'[c].root
      BY <1>0, <2>1, <2>2, <2>3 DEF TablesAgree
    <2> QED
      BY <2>1, <2>2, <2>3, <2>4 DEF CallInOrder
  <1>5. CASE LookupMisses(c)
    <2>1. /\ call[c].pc = "lookup" /\ call[c].root \in Roots /\ call[c].op \in Operators
          /\ call[c].op \in signed[call[c].root] /\ call[c].tries < waitForEventRetries
          /\ sig[c] = "none"
      BY <1>0, <1>5 DEF LookupMisses, CallInOrder
    <2>2. /\ call'[c].op = call[c].op /\ call'[c].root = call[c].root
          /\ call'[c].pc = "replied"
             \/ (call'[c].pc = "lookup" /\ call'[c].tries < waitForEventRetries)
      BY <1>0, <1>5, <2>1, LookupMissesEffect
    <2>3. sig'[c] = "none" /\ signed' = signed
      BY <1>5, <2>1 DEF LookupMisses, chainAndLoops, chainVars
    <2> QED
      BY <2>1, <2>2, <2>3 DEF CallInOrder
  <1>6. CASE CallDone(c) \/ CallTimesOut(c)
    <2>1. PICK answer \in {0, 1} : Reply(c, answer)
      BY <1>6 DEF CallDone, CallTimesOut
    <2>2. /\ call'[c].pc = "replied" /\ call'[c].idx = call[c].idx /\ call[c].pc = "bls"
          /\ call'[c].op = call[c].op /\ call'[c].root = call[c].root
      BY <1>0, <2>1, ReplyEffect
    <2>3. /\ sig' = sig /\ signed' = signed /\ batchesRootByIdx' = batchesRootByIdx
          /\ task' = task
      BY <2>1 DEF Reply, chainAndLoops, chainVars, tables
    <2> QED
      BY <1>0, <2>2, <2>3 DEF CallInOrder
  <1>7. CASE SignatureCounted(c) \/ SignatureRejected(c)
    <2>1. /\ call' = call /\ signed' = signed /\ batchesRootByIdx' = batchesRootByIdx
          /\ sig[c] = "running"
      BY <1>7 DEF SignatureCounted, SignatureRejected, chainAndLoops, chainVars, tables
    <2>2. sig'[c] = "counted" => call[c].op \in task'[call[c].idx].signers
      <3>1. CASE SignatureCounted(c)
        BY <1>0, <3>1, SignatureCountedEffect
      <3>2. CASE SignatureRejected(c)
        BY <1>0, <3>2 DEF SignatureRejected, AggregatorTypeOK
      <3> QED
        BY <1>7, <3>1, <3>2
    <2> QED
      BY <1>0, <2>1, <2>2 DEF CallInOrder
  <1>8. ASSUME NEW d \in Calls, d # c,
               \/ \E o \in Operators, r \in Roots : CallArrives(d, o, r)
               \/ Handler(d) \/ SignatureCounted(d) \/ SignatureRejected(d)
        PROVE  call'[c] = call[c] /\ sig'[c] = sig[c]
    BY <1>0, <1>8 DEF CallArrives, Handler, LookupFinds, LookupMisses, CallDone, CallTimesOut,
       Reply, SignatureCounted, SignatureRejected, AggregatorTypeOK
  <1>9. ASSUME NEW i \in Indices, TaskExpires(i) \/ HandleResponse(i)
        PROVE  call'[c] = call[c] /\ sig'[c] = sig[c]
    BY <1>9 DEF TaskExpires, HandleResponse, TakeResponse, FetchRoot, LockWallet,
       SendSucceeds, SendFails, ReceiptFound, ReceiptMissing, others
  <1>10. CASE \/ Restart \/ Subscribe \/ SubscriptionFails \/ ReceiveNewBatch
              \/ MineResponse \/ Environment \/ UNCHANGED vars
    <2>1. call'[c] = call[c] /\ sig'[c] = sig[c]
      BY <1>10 DEF Restart, Subscribe, SubscriptionFails, ReceiveNewBatch, MineResponse,
         Environment, others, vars
    <2> QED
      BY <1>1, <1>2, <2>1
  <1> QED
    BY <1>1, <1>2, <1>3, <1>4, <1>5, <1>6, <1>7, <1>8, <1>9, <1>10
    DEF Next, Crash, SubscriptionGivenUp, Handler
-----------------------------------------------------------------------------
(***************************************************************************)
(* Tasks, responders and transactions.                                     *)
(***************************************************************************)
\* A task that keeps its block and signers stays in order while the chain goes
\* on and the tables grow.
LEMMA TaskKept ==
    ASSUME AggregatorInv, AggregatorTypeOK', ChainGrows, FilesGrow, NEW i \in Indices,
           task'[i].block = task[i].block, task'[i].signers = task[i].signers,
           task'[i].state # "none" => task[i].state # "none",
           Reported(i)' => Reported(i)
    PROVE  TaskInOrder(i)'
  <1>1. TaskInOrder(i) /\ TablesAgree /\ AggregatorTypeOK
    BY DEF AggregatorInv
  <1>2. ASSUME task[i].state # "none"
        PROVE  /\ i < nextBatchIndex' /\ batchesRootByIdx'[i] = batchesRootByIdx[i]
               /\ batchesRootByIdx[i] \in Roots
    <2>1. /\ i < nextBatchIndex /\ nextBatchIndex \in Nat /\ nextBatchIndex' \in Nat /\ i \in Nat
          /\ nextBatchIndex <= nextBatchIndex'
      BY <1>1, <1>2, AggregatorAssumption DEF TaskInOrder, AggregatorTypeOK, Indices, FilesGrow
    <2> QED
      BY <1>1, <2>1 DEF TablesAgree, FilesGrow
  <1> DEFINE r == batchesRootByIdx[i]
  <1>3. ASSUME task[i].state # "none"
        PROVE  /\ r \in Roots /\ Exists(r) /\ task[i].block = batchesState[r].taskCreatedBlock
               /\ batchesState'[r].taskCreatedBlock = batchesState[r].taskCreatedBlock
               /\ task[i].signers \subseteq signed'[r]
    BY <1>1, <1>2, <1>3 DEF TaskInOrder, ChainGrows
  <1>4. Reported(i) => IsQuorum(task[i].signers, stakeAt[task[i].block])
    BY <1>1 DEF TaskInOrder
  <1>5. stakeAt' = stakeAt
    BY DEF ChainGrows
  <1>6. task'[i].state # "none" =>
          /\ i < nextBatchIndex'
          /\ Exists(batchesRootByIdx[i])'
          /\ task'[i].block = batchesState'[batchesRootByIdx'[i]].taskCreatedBlock
          /\ task'[i].signers \subseteq signed'[batchesRootByIdx'[i]]
    BY <1>2, <1>3 DEF Exists
  <1>7. Reported(i)' => IsQuorum(task'[i].signers, stakeAt'[task'[i].block])
    BY <1>4, <1>5
  <1> QED
    BY <1>6, <1>7 DEF TaskInOrder, IsQuorum, MeetsThreshold

\* A task is opened at the block the contract recorded, counts operators that
\* signed its root, and reports a quorum when it has one.
LEMMA TaskStep ==
    ASSUME AggregatorInv, [Next]_vars, NEW i \in Indices
    PROVE  TaskInOrder(i)'
  <1>0. /\ ChainTypeOK /\ AggregatorTypeOK /\ LogMatchesState /\ TablesAgree
        /\ AggregatorTypeOK' /\ ChainGrows
        /\ \A j \in Indices : TaskInOrder(j) /\ ResponderInOrder(j)
        /\ \A c \in Calls : CallInOrder(c)
    BY ChainStep, AggregatorTypeStep DEF AggregatorInv
  <1>1. CASE Die
    <2>1. task'[i].state = "none" /\ responder'[i].pc = "none"
      BY <1>1 DEF Die, NoTasks, NoTask, NoResponders, NoResponder
    <2> QED
      BY <2>1 DEF TaskInOrder, Reported
  <1>2. ASSUME ~Die, task'[i] = task[i], responder'[i].pc # "none" => responder[i].pc # "none"
        PROVE  TaskInOrder(i)'
    BY <1>0, <1>2, FilesGrowth, TaskKept DEF Reported
  <1>3. CASE ReceiveNewBatch /\ ~Die
    <2>1. responder' = responder
      BY <1>3 DEF ReceiveNewBatch
    <2>2. ASSUME NEW r \in Roots, nextBatchIndex = i, Exists(r),
                 batchesRootByIdx' = [batchesRootByIdx EXCEPT ![nextBatchIndex] = r],
                 nextBatchIndex' = nextBatchIndex + 1,
                 task' = [task EXCEPT ![nextBatchIndex] =
                     [state |-> "open", block |-> batchesState[r].taskCreatedBlock,
                      signers |-> {}]]
          PROVE  TaskInOrder(i)'
      <3>1. task[i].state = "none" /\ i \in Nat
        BY <1>0, <2>2, AggregatorAssumption DEF TaskInOrder, Indices
      <3>2. responder[i].pc = "none"
        BY <1>0, <3>1 DEF ResponderInOrder
      <3>3. /\ task'[i].state = "open" /\ task'[i].signers = {}
            /\ task'[i].block = batchesState[r].taskCreatedBlock
            /\ batchesRootByIdx'[i] = r /\ i < nextBatchIndex'
        BY <1>0, <2>2, <3>1 DEF AggregatorTypeOK
      <3>4. /\ batchesState'[r].taskCreatedBlock = batchesState[r].taskCreatedBlock
            /\ Exists(batchesRootByIdx[i])'
        BY <1>0, <2>2, <3>3 DEF ChainGrows, Exists
      <3> QED
        BY <2>1, <3>2, <3>3, <3>4 DEF TaskInOrder, Reported
    <2>3. CASE task'[i] = task[i]
      BY <1>2, <1>3, <2>1, <2>3
    <2>4. \/ task' = task
          \/ \E r \in Roots :
                /\ nextBatchIndex \in Indices /\ Exists(r)
                /\ batchesRootByIdx' = [batchesRootByIdx EXCEPT ![nextBatchIndex] = r]
                /\ nextBatchIndex' = nextBatchIndex + 1
                /\ task' = [task EXCEPT ![nextBatchIndex] =
                      [state |-> "open", block |-> batchesState[r].taskCreatedBlock,
                       signers |-> {}]]
      BY <1>0, <1>3, ReceiveEffect
    <2>5. nextBatchIndex = i \/ task'[i] = task[i]
      <3>1. task \in [Indices -> Task]
        BY <1>0 DEF AggregatorTypeOK
      <3>2. CASE task' = task
        BY <3>2
      <3>3. ASSUME NEW t, task' = [task EXCEPT ![nextBatchIndex] = t]
            PROVE  nextBatchIndex = i \/ task'[i] = task[i]
        BY <3>1, <3>3
      <3> QED
        BY <2>4, <3>2, <3>3
    <2> QED
      BY <2>2, <2>3, <2>4, <2>5
  <1>4. ASSUME NEW c \in Calls, SignatureCounted(c), ~Die
        PROVE  TaskInOrder(i)'
    <2> DEFINE signers == task[i].signers \cup {call[c].op}
    <2>1. CASE i # call[c].idx
      <3>1. task'[i] = task[i] /\ responder' = responder
        <4>1. task'[i] = task[i]
          BY <1>0, <1>4, <2>1, SignatureCountedEffect
        <4> QED
          BY <1>4, <4>1 DEF SignatureCounted, chainAndLoops
      <3> QED
        BY <1>2, <1>4, <3>1, Zenon
    <2>2. CASE i = call[c].idx
      <3>1. /\ task[i].state = "open"
            /\ task'[i].signers = signers /\ task'[i].block = task[i].block
            /\ \/ task'[i].state = "open"
               \/ (task'[i].state = "quorum" /\ IsQuorum(signers, stakeAt[task[i].block]))
        BY <1>0, <1>4, <2>2, SignatureCountedEffect
      <3>2. responder[i].pc = "none"
        BY <1>0, <3>1 DEF ResponderInOrder
      <3>3. batchesRootByIdx[i] = call[c].root /\ call[c].op \in signed[call[c].root]
        BY <1>0, <1>4, <2>2 DEF SignatureCounted, CallInOrder
      <3>4. signers \subseteq signed[batchesRootByIdx[i]]
        BY <1>0, <3>1, <3>3 DEF TaskInOrder
      <3>5. UNCHANGED <<chainVars, tables, responder>>
        BY <1>4 DEF SignatureCounted, chainAndLoops
      <3> HIDE DEF signers
      <3>6. Exists(batchesRootByIdx[i])' <=> Exists(batchesRootByIdx[i])
        BY <3>5 DEF chainVars, tables, Exists
      <3> QED
        BY <1>0, <3>1, <3>2, <3>4, <3>5, <3>6
        DEF TaskInOrder, Reported, chainVars, tables, IsQuorum, MeetsThreshold
    <2> QED
      BY <2>1, <2>2
  <1>5. ASSUME NEW j \in Indices, TaskExpires(j) \/ TakeResponse(j), ~Die
        PROVE  TaskInOrder(i)'
    <2>1. /\ task'[i].block = task[i].block /\ task'[i].signers = task[i].signers
          /\ task'[i].state # "none" => task[i].state # "none"
          /\ task'[i].state = "quorum" => task[i].state = "quorum"
      BY <1>0, <1>5, TaskStateEffect
    <2>2. Reported(i)' => Reported(i)
      <3>1. CASE TaskExpires(j)
        BY <2>1, <3>1 DEF Reported, TaskExpires, chainAndLoops
      <3>2. CASE TakeResponse(j)
        BY <1>0, <2>1, <3>2, TakeResponseEffect DEF Reported
      <3> QED
        BY <1>5, <3>1, <3>2
    <2> QED
      BY <1>0, <1>5, <2>1, <2>2, FilesGrowth, TaskKept
  <1>6. ASSUME NEW j \in Indices,
               \/ FetchRoot(j) \/ LockWallet(j) \/ SendSucceeds(j) \/ ReceiptFound(j)
        PROVE  task'[i] = task[i] /\ (responder'[i].pc # "none" => responder[i].pc # "none")
    <2>1. task' = task
      BY <1>6 DEF FetchRoot, LockWallet, SendSucceeds, ReceiptFound, others
    <2> QED
      BY <1>0, <1>6, <2>1, ResponderEffect
  <1>7. ASSUME NEW j \in Indices, SendFails(j) \/ ReceiptMissing(j)
        PROVE  task'[i] = task[i] /\ (responder'[i].pc # "none" => responder[i].pc # "none")
    <2>1. task' = task /\ Retry(j) /\ responder[j].pc # "none"
      BY <1>7 DEF SendFails, ReceiptMissing, others
    <2> QED
      BY <1>0, <2>1 DEF Retry, AggregatorTypeOK
  <1>8. CASE \/ Restart \/ Subscribe \/ SubscriptionFails \/ MineResponse \/ Environment
             \/ UNCHANGED vars
    <2>1. task' = task /\ responder' = responder
      BY <1>8 DEF Restart, Subscribe, SubscriptionFails, MineResponse, Environment, others, vars
    <2> QED
      BY <1>1, <1>2, <2>1
  <1>9. ASSUME NEW c \in Calls,
               \/ \E o \in Operators, r \in Roots : CallArrives(c, o, r)
               \/ Handler(c) \/ SignatureRejected(c)
        PROVE  task' = task /\ responder' = responder
    BY <1>9 DEF CallArrives, Handler, LookupFinds, LookupMisses, CallDone, CallTimesOut, Reply,
       SignatureRejected, chainAndLoops
  <1> QED
    BY <1>1, <1>2, <1>3, <1>4, <1>5, <1>6, <1>7, <1>8, <1>9
    DEF Next, Crash, SubscriptionGivenUp, HandleResponse

\* A responder starts when its task closes with a quorum, and is given up after
\* its last attempt; the receipt it waits for is that of its own transaction.
LEMMA ResponderStep ==
    ASSUME AggregatorInv, [Next]_vars, NEW i \in Indices
    PROVE  ResponderInOrder(i)'
  <1>0. /\ ChainTypeOK /\ AggregatorTypeOK /\ LogMatchesState /\ ChainGrows
        /\ ResponderInOrder(i) /\ TaskInOrder(i)
        /\ \A c \in Calls : CallInOrder(c)
        /\ \A n \in 1..Len(sent) : TransactionInOrder(n)
        /\ responder \in [Indices -> Responder] /\ Len(sent) \in Nat
    BY ChainStep DEF AggregatorInv, AggregatorTypeOK
  <1>1. CASE Die
    <2>1. responder'[i].pc = "none" /\ responder'[i].tries = 0
      BY <1>1 DEF Die, NoResponders, NoResponder
    <2> QED
      BY <2>1, AggregatorAssumption DEF ResponderInOrder
  <1>2. ASSUME responder'[i] = responder[i],
               responder[i].pc # "none" => task'[i].state = "closed",
               \A n \in 1..Len(sent) : n \in 1..Len(sent') /\ sent'[n] = sent[n]
        PROVE  ResponderInOrder(i)'
    <2>1. responder[i].pc = "wait" =>
             /\ responder[i].nonce \in 1..Len(sent')
             /\ sent'[responder[i].nonce].root = responder[i].root
      BY <1>0, <1>2 DEF ResponderInOrder
    <2>2. responder[i].pc = "succeeded" =>
             responder[i].root \in Roots /\ batchesState'[responder[i].root].responded
      BY <1>0 DEF ResponderInOrder, ChainGrows
    <2> QED
      BY <1>0, <1>2, <2>1, <2>2 DEF ResponderInOrder, Responded
  <1>3. CASE ReceiveNewBatch
    <2>1. responder' = responder /\ sent' = sent
      BY <1>3 DEF ReceiveNewBatch, wallet
    <2>2. task' = task \/ \E t : task' = [task EXCEPT ![nextBatchIndex] = t]
      BY <1>0, <1>3, ReceiveEffect
    <2>3. task[i].state # "none" => i # nextBatchIndex
      BY <1>0, AggregatorAssumption DEF TaskInOrder, AggregatorTypeOK, Indices
    <2>4. responder[i].pc # "none" => task'[i].state = "closed"
      BY <1>0, <2>2, <2>3 DEF ResponderInOrder, AggregatorTypeOK
    <2> QED
      BY <1>2, <2>1, <2>4
  <1>4. ASSUME NEW c \in Calls, SignatureCounted(c)
        PROVE  ResponderInOrder(i)'
    <2>1. responder' = responder /\ sent' = sent
      BY <1>4 DEF SignatureCounted, chainAndLoops, wallet
    <2>2. task[i].state = "closed" => task'[i] = task[i]
      BY <1>0, <1>4, SignatureCountedEffect
    <2> QED
      BY <1>0, <1>2, <2>1, <2>2 DEF ResponderInOrder
  <1>5. ASSUME NEW j \in Indices, TaskExpires(j)
        PROVE  ResponderInOrder(i)'
    <2>1. responder' = responder /\ sent' = sent
      BY <1>5 DEF TaskExpires, chainAndLoops, wallet
    <2>2. task[i].state = "closed" => task'[i] = task[i]
      BY <1>0, <1>5, TaskStateEffect
    <2> QED
      BY <1>0, <1>2, <2>1, <2>2 DEF ResponderInOrder
  <1>6. ASSUME NEW j \in Indices, TakeResponse(j)
        PROVE  ResponderInOrder(i)'
    <2>1. sent' = sent
      BY <1>6 DEF TakeResponse, wallet
    <2>2. task[i].state = "closed" => task'[i] = task[i]
      BY <1>0, <1>6, TaskStateEffect
    <2>3. CASE responder'[i] = responder[i]
      BY <1>0, <1>2, <2>1, <2>2, <2>3 DEF ResponderInOrder
    <2>4. CASE responder'[i] # responder[i]
      <3>1. /\ i = j /\ task[i].state = "quorum" /\ responder'[i].pc = "fetch"
            /\ responder'[i].tries = responder[i].tries
        BY <1>0, <1>6, <2>4, TakeResponseEffect
      <3>2. task'[i].state = "closed"
        BY <1>0, <1>6, <3>1, TaskStateEffect
      <3>3. responder[i].pc = "none"
        BY <1>0, <3>1 DEF ResponderInOrder
      <3> QED
        BY <1>0, <3>1, <3>2, <3>3 DEF ResponderInOrder
    <2> QED
      BY <2>3, <2>4
  <1>7. ASSUME NEW j \in Indices, j # i,
               \/ FetchRoot(j) \/ LockWallet(j) \/ SendSucceeds(j) \/ ReceiptFound(j)
               \/ SendFails(j) \/ ReceiptMissing(j)
        PROVE  ResponderInOrder(i)'
    <2>1. /\ task' = task /\ responder'[i] = responder[i]
          /\ \A n \in 1..Len(sent) : n \in 1..Len(sent') /\ sent'[n] = sent[n]
      BY <1>0, <1>7 DEF FetchRoot, LockWallet, SendSucceeds, ReceiptFound, SendFails,
         ReceiptMissing, Retry, others, wallet, AggregatorTypeOK
    <2> QED
      BY <1>0, <1>2, <2>1 DEF ResponderInOrder
  <1>8. CASE FetchRoot(i) \/ LockWallet(i)
    <2>1. /\ responder[i].pc \in {"fetch", "lock"} /\ responder'[i].pc \in {"lock", "send"}
          /\ responder'[i].tries = responder[i].tries
      BY <1>0, <1>8, ResponderEffect
    <2>2. task' = task
      BY <1>8 DEF FetchRoot, LockWallet, others
    <2> QED
      BY <1>0, <2>1, <2>2 DEF ResponderInOrder
  <1>9. CASE SendSucceeds(i)
    <2>1. /\ responder[i].pc = "send" /\ responder'[i].pc = "wait"
          /\ responder'[i].tries = responder[i].tries
          /\ responder'[i].nonce = Len(sent) + 1 /\ responder'[i].root = responder[i].root
      BY <1>0, <1>9, ResponderEffect
    <2>2. task' = task /\ sent' = Append(sent, [root |-> responder[i].root,
                                                signers |-> task[i].signers])
      BY <1>9 DEF SendSucceeds, others
    <2>3. Len(sent') = Len(sent) + 1 /\ sent'[Len(sent) + 1].root = responder[i].root
      BY <1>0, <2>2 DEF AggregatorTypeOK
    <2>4. responder'[i].nonce \in 1..Len(sent') /\ sent'[responder'[i].nonce].root = responder'[i].root
      BY <1>0, <2>1, <2>3
    <2> QED
      BY <1>0, <2>1, <2>2, <2>4 DEF ResponderInOrder
  <1>10. CASE ReceiptFound(i)
    <2>1. /\ responder[i].pc = "wait" /\ responder'[i].pc = "succeeded"
          /\ responder'[i].tries = responder[i].tries
          /\ responder'[i].root = responder[i].root
      BY <1>0, <1>10, ResponderEffect
    <2>2. /\ task' = task /\ batchesState' = batchesState /\ responder[i].nonce <= mined
      BY <1>10 DEF ReceiptFound, others, chainVars
    <2>3. /\ responder[i].nonce \in 1..Len(sent)
          /\ sent[responder[i].nonce].root = responder[i].root
      BY <1>0, <2>1 DEF ResponderInOrder
    <2>4. sent[responder[i].nonce] \in Transaction
      BY <1>0, <2>3 DEF AggregatorTypeOK
    <2>5. responder[i].root \in Roots
      BY <2>3, <2>4 DEF Transaction
    <2>6. Responded(responder[i].root)
      BY <1>0, <2>2, <2>3 DEF TransactionInOrder
    <2> QED
      BY <1>0, <2>1, <2>2, <2>5, <2>6 DEF ResponderInOrder, Responded
  <1>11. CASE SendFails(i) \/ ReceiptMissing(i)
    <2>1. task' = task /\ Retry(i) /\ responder[i].pc \in {"send", "wait"}
      BY <1>11 DEF SendFails, ReceiptMissing, others
    <2>2. responder'[i].pc = "lost"
          \/ (responder'[i].pc = "lock" /\ responder'[i].tries < MaxSentTxRetries)
      BY <1>0, <2>1, RetryEffect DEF ResponderInOrder
    <2> QED
      BY <1>0, <2>1, <2>2 DEF ResponderInOrder
  <1>12. CASE \/ Restart \/ Subscribe \/ SubscriptionFails \/ MineResponse \/ Environment
              \/ UNCHANGED vars
    <2>1. task' = task /\ responder' = responder /\ sent' = sent
      BY <1>12 DEF Restart, Subscribe, SubscriptionFails, MineResponse, Environment, others, vars,
         wallet
    <2> QED
      BY <1>0, <1>2, <2>1 DEF ResponderInOrder
  <1>13. ASSUME NEW c \in Calls,
                \/ \E o \in Operators, r \in Roots : CallArrives(c, o, r)
                \/ Handler(c) \/ SignatureRejected(c)
         PROVE  ResponderInOrder(i)'
    <2>1. task' = task /\ responder' = responder /\ sent' = sent
      BY <1>13 DEF CallArrives, Handler, LookupFinds, LookupMisses, CallDone, CallTimesOut, Reply,
         SignatureRejected, chainAndLoops, wallet
    <2> QED
      BY <1>0, <1>2, <2>1 DEF ResponderInOrder
  <1> QED
    BY <1>1, <1>3, <1>4, <1>5, <1>6, <1>7, <1>8, <1>9, <1>10, <1>11, <1>12, <1>13
    DEF Next, Crash, SubscriptionGivenUp, HandleResponse

\* A transaction was simulated when it was sent, so all that can make it revert
\* later is that the batch has been answered.
LEMMA TransactionStep ==
    ASSUME AggregatorInv, [Next]_vars, NEW n \in 1..Len(sent')
    PROVE  TransactionInOrder(n)'
  <1>0. /\ ChainTypeOK /\ AggregatorTypeOK /\ ChainGrows
        /\ ChainTypeOK' /\ AggregatorTypeOK'
        /\ \A k \in 1..Len(sent) : TransactionInOrder(k)
        /\ sent \in Seq(Transaction) /\ Len(sent) \in Nat /\ mined \in 0..Len(sent)
    <2>1. ChainTypeOK' /\ ChainGrows
      BY ChainStep
    <2>2. AggregatorTypeOK'
      BY AggregatorTypeStep
    <2>3. ChainTypeOK /\ AggregatorTypeOK /\ \A k \in 1..Len(sent) : TransactionInOrder(k)
      BY DEF AggregatorInv
    <2>4. sent \in Seq(Transaction) /\ mined \in 0..Len(sent)
      BY <2>3 DEF AggregatorTypeOK
    <2>5. Len(sent) \in Nat
      BY <2>4
    <2> QED
      BY <2>1, <2>2, <2>3, <2>4, <2>5
  <1>1. ASSUME n \in 1..Len(sent), sent'[n] = sent[n],
               n <= mined' => n <= mined \/ batchesState'[sent[n].root].responded
        PROVE  TransactionInOrder(n)'
    <2> DEFINE tx == sent[n]
    <2>1. tx \in Transaction
      BY <1>0, <1>1
    <2>2. tx.root \in Roots /\ tx.signers \in SUBSET Operators
      BY <2>1 DEF Transaction
    <2>3. /\ Exists(tx.root) /\ batchesState[tx.root].taskCreatedBlock < blockNumber
          /\ tx.signers \subseteq signed[tx.root]
          /\ IsQuorum(tx.signers, stakeAt[batchesState[tx.root].taskCreatedBlock])
          /\ n <= mined => Responded(tx.root)
      BY <1>0, <1>1 DEF TransactionInOrder, CheckSignatures
    <2>4. /\ batchesState'[tx.root].taskCreatedBlock = batchesState[tx.root].taskCreatedBlock
          /\ signed[tx.root] \subseteq signed'[tx.root] /\ stakeAt' = stakeAt
          /\ Responded(tx.root) => batchesState'[tx.root].responded
          /\ blockNumber <= blockNumber'
      BY <1>0, <2>2, <2>3 DEF ChainGrows
    <2>5. batchesState'[tx.root].taskCreatedBlock < blockNumber'
      <3>1. /\ blockNumber \in Int /\ blockNumber' \in Int
            /\ batchesState[tx.root].taskCreatedBlock \in Int
        BY <1>0, <2>2, BlockAssumption DEF ChainTypeOK, BatchState
      <3> QED
        BY <2>3, <2>4, <3>1
    <2>6. n <= mined' => batchesState'[tx.root].responded
      BY <1>1, <2>3, <2>4 DEF Responded
    <2> HIDE DEF tx
    <2>7. sent'[n] = tx
      BY <1>1 DEF tx
    <2> QED
      BY <2>3, <2>4, <2>5, <2>6, <2>7
      DEF TransactionInOrder, CheckSignatures, Exists, Responded, IsQuorum, MeetsThreshold
  <1>2. ASSUME sent' = sent, mined' = mined
        PROVE  TransactionInOrder(n)'
    BY <1>1, <1>2
  <1>3. ASSUME NEW i \in Indices, SendSucceeds(i)
        PROVE  TransactionInOrder(n)'
    <2> DEFINE r == responder[i].root
               signers == task[i].signers
    <2>1. /\ r \in Roots /\ RespondSucceeds(r, signers)
          /\ sent' = Append(sent, [root |-> r, signers |-> signers])
          /\ UNCHANGED <<chainVars, mined>>
      BY <1>3 DEF SendSucceeds
    <2>2. n \in 1..Len(sent) \/ n = Len(sent) + 1
      BY <1>0, <2>1
    <2>3. CASE n \in 1..Len(sent)
      <3>1. sent'[n] = sent[n]
        BY <1>0, <2>1, <2>3
      <3> QED
        BY <1>1, <2>1, <2>3, <3>1
    <2>4. CASE n = Len(sent) + 1
      <3>1. sent'[n].root = r /\ sent'[n].signers = signers /\ ~(n <= mined')
        BY <1>0, <2>1, <2>4
      <3>2. /\ Exists(r) /\ CheckSignatures(r, batchesState[r].taskCreatedBlock, signers)
            /\ IsQuorum(signers, stakeAt[batchesState[r].taskCreatedBlock])
        BY <2>1 DEF RespondSucceeds
      <3> HIDE DEF r, signers
      <3>3. TransactionInOrder(n)' <=>
               LET tx == sent'[n]
                   created == batchesState[tx.root].taskCreatedBlock IN
               /\ Exists(tx.root) /\ CheckSignatures(tx.root, created, tx.signers)
               /\ IsQuorum(tx.signers, stakeAt[created])
               /\ n <= mined' => Responded(tx.root)
        BY <2>1 DEF TransactionInOrder, Exists, CheckSignatures, IsQuorum, MeetsThreshold,
           Responded, chainVars
      <3> QED
        BY <3>1, <3>2, <3>3
    <2> QED
      BY <2>2, <2>3, <2>4
  <1>4. CASE MineResponse
    <2> DEFINE tx == sent[mined + 1]
    <2>1. /\ mined' = mined + 1 /\ mined + 1 \in 1..Len(sent) /\ sent' = sent
          /\ \/ RespondToTask(tx.root, tx.signers)
             \/ (~RespondSucceeds(tx.root, tx.signers) /\ UNCHANGED chainVars)
      BY <1>0, <1>4 DEF MineResponse, wallet
    <2>2. TransactionInOrder(mined + 1) /\ tx \in Transaction
      BY <1>0, <2>1
    <2>3. tx.root \in Roots
      BY <2>2 DEF Transaction
    <2>4. batchesState'[tx.root].responded
      <3>1. CASE RespondToTask(tx.root, tx.signers)
        BY <1>0, <2>3, <3>1 DEF RespondToTask, Responded, ChainTypeOK, BatchState
      <3>2. CASE ~RespondSucceeds(tx.root, tx.signers) /\ UNCHANGED chainVars
        <4>1. Responded(tx.root)
          BY <2>2, <3>2 DEF TransactionInOrder, RespondSucceeds
        <4> QED
          BY <3>2, <4>1 DEF Responded, chainVars
      <3> QED
        BY <2>1, <3>1, <3>2
    <2>5. CASE n = mined + 1
      BY <1>1, <2>1, <2>4, <2>5
    <2>6. CASE n # mined + 1
      <3>1. n <= mined' => n <= mined
        BY <1>0, <2>1, <2>6
      <3> QED
        BY <1>1, <2>1, <3>1
    <2> QED
      BY <2>5, <2>6
  <1>5. CASE \/ Die \/ Restart \/ Subscribe \/ SubscriptionFails \/ ReceiveNewBatch
             \/ Environment \/ UNCHANGED vars
    <2>1. sent' = sent /\ mined' = mined
      BY <1>5, SMTT(30) DEF Die, Restart, Subscribe, SubscriptionFails, ReceiveNewBatch,
         Environment, wallet, vars
    <2> QED
      BY <1>2, <2>1
  <1>6. ASSUME NEW c \in Calls,
               \/ \E o \in Operators, r \in Roots : CallArrives(c, o, r)
               \/ Handler(c) \/ SignatureCounted(c) \/ SignatureRejected(c)
        PROVE  TransactionInOrder(n)'
    BY <1>2, <1>6 DEF CallArrives, Handler, LookupFinds, LookupMisses, CallDone, CallTimesOut,
       Reply, SignatureCounted, SignatureRejected, chainAndLoops, wallet
  <1>7. ASSUME NEW i \in Indices,
               \/ TaskExpires(i) \/ TakeResponse(i) \/ FetchRoot(i) \/ LockWallet(i)
               \/ SendFails(i) \/ ReceiptFound(i) \/ ReceiptMissing(i)
        PROVE  TransactionInOrder(n)'
    BY <1>2, <1>7 DEF TaskExpires, TakeResponse, FetchRoot, LockWallet, SendFails,
       ReceiptFound, ReceiptMissing, chainAndLoops, wallet
  <1> QED
    BY <1>3, <1>4, <1>5, <1>6, <1>7 DEF Next, Crash, SubscriptionGivenUp, HandleResponse
-----------------------------------------------------------------------------
\* The parts of the invariant hold together of every execution.
THEOREM AggregatorInvariant == Spec => []AggregatorInv
  <1>1. AggregatorInv /\ [Next]_vars => AggregatorInv'
    <2> SUFFICES ASSUME AggregatorInv, [Next]_vars PROVE AggregatorInv'
      OBVIOUS
    <2>1. ChainTypeOK' /\ LogMatchesState'
      BY ChainStep
    <2>2. AggregatorTypeOK' /\ TablesAgree'
      BY AggregatorTypeStep, TablesStep
    <2>3. (\A c \in Calls : CallInOrder(c))'
      BY CallStep
    <2>4. (\A i \in Indices : TaskInOrder(i))'
      BY TaskStep DEF Indices
    <2>5. (\A i \in Indices : ResponderInOrder(i))'
      BY ResponderStep DEF Indices
    <2>6. (\A n \in 1..Len(sent) : TransactionInOrder(n))'
      BY TransactionStep
    <2> QED
      BY <2>1, <2>2, <2>3, <2>4, <2>5, <2>6 DEF AggregatorInv
  <1> QED
    BY AggregatorInvInit, <1>1, PTL DEF Spec

\* The variables of the aggregator keep their types: in particular no index, no
\* attempt and no nonce runs out of bounds.
THEOREM AggregatorTypeCorrect == Spec => []AggregatorTypeOK
  <1>1. AggregatorInv => AggregatorTypeOK
    BY DEF AggregatorInv
  <1> QED
    BY AggregatorInvariant, <1>1, PTL

\* The maps between roots and indices are inverse to each other and have no
\* gaps, whatever events arrive twice and whenever the process dies.
THEOREM TablesAlwaysAgree == Spec => []TablesAgree
  <1>1. AggregatorInv => TablesAgree
    BY DEF AggregatorInv
  <1> QED
    BY AggregatorInvariant, <1>1, PTL

\* A signature that was counted is in the task of the root it was given for.
THEOREM SignaturesAlwaysFiled == Spec => []SignaturesFiled
  <1>1. AggregatorInv => SignaturesFiled
    <2> SUFFICES ASSUME AggregatorInv, NEW c \in Calls, sig[c] = "counted"
                 PROVE  /\ call[c].op \in task[call[c].idx].signers
                        /\ batchesRootByIdx[call[c].idx] = call[c].root
      BY DEF SignaturesFiled
    <2> QED
      BY DEF AggregatorInv, CallInOrder
  <1> QED
    BY AggregatorInvariant, <1>1, PTL

\* Whatever quorum the service reports, the contract's own checks accept.
THEOREM QuorumsHold == Spec => []AggregatedQuorumHolds
  <1>1. AggregatorInv => AggregatedQuorumHolds
    <2> SUFFICES ASSUME AggregatorInv, NEW i \in Indices, Reported(i)
                 PROVE  LET r == batchesRootByIdx[i] IN
                        /\ r \in Roots /\ Exists(r)
                        /\ task[i].signers \subseteq signed[r]
                        /\ IsQuorum(task[i].signers, stakeAt[batchesState[r].taskCreatedBlock])
      BY DEF AggregatedQuorumHolds
    <2>1. TaskInOrder(i) /\ ResponderInOrder(i) /\ TablesAgree
      BY DEF AggregatorInv
    <2>2. task[i].state # "none"
      BY <2>1 DEF Reported, ResponderInOrder
    <2> QED
      BY <2>1, <2>2 DEF TaskInOrder, TablesAgree
  <1> QED
    BY AggregatorInvariant, <1>1, PTL

\* A responder that reports success tells the truth, although it never looks at
\* the status in the receipt.
THEOREM SuccessIsTrue == Spec => []SuccessMeansVerified
  <1>1. AggregatorInv => SuccessMeansVerified
    BY DEF AggregatorInv, ResponderInOrder, SuccessMeansVerified
  <1> QED
    BY AggregatorInvariant, <1>1, PTL

\* The aggregator is a client of the contract like any other: beside it the
\* contract still only makes the steps of its own specification.
THEOREM AggregatorUsesContract == Spec => ChainSpec
  <1>1. Init => ChainInit
    BY DEF Init
  <1>2. AggregatorTypeOK /\ [Next]_vars => [ChainNext]_chainVars
    BY StepIsChainStep
  <1> QED
    BY <1>1, <1>2, AggregatorTypeCorrect, PTL DEF Spec, ChainSpec

\* So all that is proved of the contract holds beside the aggregator: no batch
\* counts as verified without a quorum of the stake of its creation block.
THEOREM QuorumSafetyBesideAggregator == Spec => []QuorumBehindVerified
  BY AggregatorUsesContract, QuorumSafety, PTL
\* What the aggregator does to the contract, through any number of crashes and
\* repeated transactions, is a behaviour of the abstract promise, and the log it
\* fetches its missed batches from tells what happened.
THEOREM AggregatorImplementsPromise ==
    Spec => ImplementsPromise /\ LedgerOnlyGrows /\ []LogMatchesState
  BY AggregatorUsesContract, Refinement, LedgerMonotone, LogFaithful, PTL
=============================================================================
