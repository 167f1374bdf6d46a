----------------------------- MODULE Aggregator -----------------------------
(***************************************************************************)
(* The aggregator beside the contract.  It learns of batches from NewBatch *)
(* events, files every batch under an index of its BLS aggregation         *)
(* service, takes operators' signatures over RPC, and sends the aggregated *)
(* response to the contract when the service reports a quorum.             *)
(*                                                                         *)
(* Its goroutines run concurrently: the subscription loop, one handler per *)
(* RPC call (Calls) with a goroutine of its own for the BLS call, the main *)
(* loop, and one responder per reported task.  What happens under a mutex  *)
(* that is released in the same function without waiting is one action; a  *)
(* mutex held across a wait (taskMutex during the BLS call, walletMutex    *)
(* during the sending of a transaction) is a variable.                     *)
(*                                                                         *)
(* External: the BLS aggregation service of eigensdk (task), and Ethereum, *)
(* which executes the transactions of one wallet in the order of their     *)
(* nonces (sent, mined).                                                   *)
(***************************************************************************)
EXTENDS AlignedLayerServiceManager

CONSTANTS Calls,                \* RPC calls; each is made at most once
          MaxIndex,             \* bound: batch indices handed out in one life
          waitForEventRetries,  \* 50: lookups of a call before it gives up
          MaxSentTxRetries,     \* 5: attempts of a responder
          MaxRetries,           \* 100: subscriptions tried in one life
          MaxCrashes,           \* bound: times the process dies
          Faults,               \* the faults that may happen
          ZeroRoot,             \* the root a Go map returns for a missing index
          Free                  \* the owner of an unlocked mutex

ASSUME AggregatorAssumption ==
    /\ MaxIndex \in Nat /\ MaxCrashes \in Nat
    /\ waitForEventRetries \in Nat \ {0}
    /\ MaxSentTxRetries \in Nat \ {0}
    /\ MaxRetries \in Nat \ {0}
    /\ ZeroRoot \notin Roots
    /\ Free \notin Calls \cup Nat

Indices == 0..MaxIndex - 1
NoIndex == -1

VARIABLES up,                   \* whether the process runs
          crashes,              \* times it has died
          watching,             \* whether the NewBatch subscription is open
          retries,              \* subscriptions tried so far
          seen,                 \* position in the log the subscription has reached
          batchesRootByIdx, batchesIdxByRoot, nextBatchIndex,
          taskMutex,            \* the call that holds it, or Free
          call,                 \* the handlers of ProcessOperatorSignedTaskResponse
          sig,                  \* their goroutines in ProcessNewSignature
          task,                 \* the tasks of the BLS service, by index
          responder,            \* the goroutines of handleBlsAggServiceResponse
          walletMutex,          \* the responder that holds it, or Free
          sent,                 \* the transactions sent, by nonce
          mined                 \* how many of them have been mined

tables == <<batchesRootByIdx, batchesIdxByRoot, nextBatchIndex>>
subscription == <<watching, retries, seen>>
process == <<up, crashes>>
wallet == <<walletMutex, sent>>
vars == <<chainVars, process, subscription, tables, taskMutex, call, sig, task,
          responder, wallet, mined>>

CallStates == {"idle", "lookup", "bls", "replied"}
TaskStates == {"none", "open", "quorum", "expired", "closed"}
ResponderStates == {"none", "fetch", "lock", "send", "wait", "succeeded", "lost"}

Call == [pc : CallStates, op : Operators \cup {Free}, root : Roots \cup {ZeroRoot},
         idx : Indices \cup {NoIndex}, tries : 0..waitForEventRetries, reply : {0, 1}]
Task == [state : TaskStates, block : 0..BlockRange - 1, signers : SUBSET Operators]
Responder == [pc : ResponderStates, root : Roots \cup {ZeroRoot},
              tries : 0..MaxSentTxRetries, nonce : Nat]
Transaction == [root : Roots, signers : SUBSET Operators]

NoTask == [state |-> "none", block |-> 0, signers |-> {}]
NoResponder == [pc |-> "none", root |-> ZeroRoot, tries |-> 0, nonce |-> 0]
NotMade == [pc |-> "idle", op |-> Free, root |-> ZeroRoot, idx |-> NoIndex,
            tries |-> 0, reply |-> 1]

AggregatorTypeOK ==
    /\ up \in BOOLEAN /\ watching \in BOOLEAN
    /\ crashes \in 0..MaxCrashes /\ retries \in 0..MaxRetries
    /\ seen \in 0..Len(log)
    /\ batchesRootByIdx \in [Indices -> Roots \cup {ZeroRoot}]
    /\ batchesIdxByRoot \in [Roots -> Indices \cup {NoIndex}]
    /\ nextBatchIndex \in 0..MaxIndex
    /\ taskMutex \in Calls \cup {Free}
    /\ call \in [Calls -> Call]
    /\ sig \in [Calls -> {"none", "running", "counted", "rejected"}]
    /\ task \in [Indices -> Task]
    /\ responder \in [Indices -> Responder]
    /\ walletMutex \in Indices \cup {Free}
    /\ sent \in Seq(Transaction)
    /\ mined \in 0..Len(sent)

NoRoots == [i \in Indices |-> ZeroRoot]
NoIndices == [r \in Roots |-> NoIndex]
NoCalls == [c \in Calls |-> NotMade]
NoSignatures == [c \in Calls |-> "none"]
NoTasks == [i \in Indices |-> NoTask]
NoResponders == [i \in Indices |-> NoResponder]

\* NewAggregator.
Init ==
    /\ ChainInit
    /\ watching = FALSE /\ retries = 0 /\ seen = 0
    /\ batchesRootByIdx = NoRoots /\ batchesIdxByRoot = NoIndices /\ nextBatchIndex = 0
    /\ taskMutex = Free /\ walletMutex = Free
    /\ call = NoCalls /\ sig = NoSignatures
    /\ task = NoTasks /\ responder = NoResponders
    /\ up = TRUE /\ crashes = 0
    /\ sent = <<>> /\ mined = 0
-----------------------------------------------------------------------------
(***************************************************************************)
(* The subscription.                                                       *)
(***************************************************************************)
\* The process dies: a reboot, or a logger.Fatal.  All but the chain and the
\* transactions already sent is lost.
Die ==
    /\ crashes < MaxCrashes
    /\ up' = FALSE
    /\ crashes' = crashes + 1
    /\ watching' = FALSE /\ retries' = 0 /\ seen' = 0
    /\ batchesRootByIdx' = NoRoots /\ batchesIdxByRoot' = NoIndices /\ nextBatchIndex' = 0
    /\ taskMutex' = Free /\ walletMutex' = Free
    /\ call' = NoCalls /\ sig' = NoSignatures
    /\ task' = NoTasks /\ responder' = NoResponders
    /\ UNCHANGED <<chainVars, sent, mined>>

Crash ==
    /\ up
    /\ "crash" \in Faults
    /\ Die

Restart ==
    /\ ~up
    /\ up' = TRUE
    /\ UNCHANGED <<chainVars, crashes, subscription, tables, taskMutex, call, sig, task,
                   responder, wallet, mined>>

\* tryCreateTaskSubscriber: the subscription delivers events from now on.
Subscribe ==
    /\ up /\ ~watching
    /\ retries < MaxRetries
    /\ watching' = TRUE
    /\ seen' = Len(log)
    /\ UNCHANGED <<chainVars, process, retries, tables, taskMutex, call, sig, task,
                   responder, wallet, mined>>

\* An attempt to subscribe fails, or the open subscription does, and its
\* undelivered events with it; the counter of attempts is never set back.
SubscriptionFails ==
    /\ up /\ retries < MaxRetries
    /\ "subscription" \in Faults
    /\ watching' = FALSE
    /\ retries' = retries + 1
    /\ UNCHANGED <<chainVars, process, seen, tables, taskMutex, call, sig, task,
                   responder, wallet, mined>>

\* SubscribeToNewTasks returns after MaxRetries and main logs Fatal.
SubscriptionGivenUp ==
    /\ up /\ retries = MaxRetries
    /\ Die

\* Mutant: a batch announced twice gets a second task.
AddNewTask_Twice(r) ==
    IF batchesRootByIdx[nextBatchIndex] # ZeroRoot
    THEN UNCHANGED <<tables, task>>
    ELSE /\ batchesIdxByRoot' = [batchesIdxByRoot EXCEPT ![r] = nextBatchIndex]
         /\ batchesRootByIdx' = [batchesRootByIdx EXCEPT ![nextBatchIndex] = r]
         /\ nextBatchIndex' = nextBatchIndex + 1
         /\ task' = [task EXCEPT ![nextBatchIndex] =
                [state |-> "open", block |-> batchesState[r].taskCreatedBlock, signers |-> {}]]

\* Mutant: the task is judged by the stake of the block it arrives in.
AddNewTask_CurrentBlock(r) ==
    IF batchesIdxByRoot[r] # NoIndex \/ batchesRootByIdx[nextBatchIndex] # ZeroRoot
    THEN UNCHANGED <<tables, task>>
    ELSE /\ batchesIdxByRoot' = [batchesIdxByRoot EXCEPT ![r] = nextBatchIndex]
         /\ batchesRootByIdx' = [batchesRootByIdx EXCEPT ![nextBatchIndex] = r]
         /\ nextBatchIndex' = nextBatchIndex + 1
         /\ task' = [task EXCEPT ![nextBatchIndex] =
                [state |-> "open", block |-> blockNumber, signers |-> {}]]

\* The task is opened in the BLS service with the block of the event, which
\* is the block the contract recorded.
AddNewTask(r) ==
    IF batchesIdxByRoot[r] # NoIndex \/ batchesRootByIdx[nextBatchIndex] # ZeroRoot
    THEN UNCHANGED <<tables, task>>
    ELSE /\ batchesIdxByRoot' = [batchesIdxByRoot EXCEPT ![r] = nextBatchIndex]
         /\ batchesRootByIdx' = [batchesRootByIdx EXCEPT ![nextBatchIndex] = r]
         /\ nextBatchIndex' = nextBatchIndex + 1
         /\ task' = [task EXCEPT ![nextBatchIndex] =
                [state |-> "open", block |-> batchesState[r].taskCreatedBlock, signers |-> {}]]

\* subscribeToNewTasks takes the next NewBatch event, or one it has had before:
\* a node repeats the logs of a reorganised block, and nothing looks at the
\* removed flag of an event.
ReceiveNewBatch ==
    /\ up /\ watching
    /\ taskMutex = Free
    /\ nextBatchIndex < MaxIndex
    /\ \E i \in 1..Len(log) :
          /\ log[i].name = "NewBatch"
          /\ \/ /\ i > seen
                /\ \A j \in seen + 1..i - 1 : log[j].name # "NewBatch"
                /\ seen' = i
             \/ /\ "duplicate" \in Faults
                /\ i <= seen
                /\ UNCHANGED seen
          /\ AddNewTask(log[i].root)
    /\ UNCHANGED <<chainVars, process, watching, retries, taskMutex, call, sig, responder,
                   wallet, mined>>
-----------------------------------------------------------------------------
(***************************************************************************)
(* ProcessOperatorSignedTaskResponse.                                      *)
(***************************************************************************)
chainAndLoops == <<chainVars, process, subscription, tables, responder, wallet, mined>>

\* An operator signs a root and calls; net/rpc starts a handler.
CallArrives(c, o, r) ==
    /\ up
    /\ call[c].pc = "idle"
    /\ Exists(r)
    /\ SignRoot(o, r)
    /\ call' = [call EXCEPT ![c] = [@ EXCEPT !.pc = "lookup", !.op = o, !.root = r]]
    /\ UNCHANGED <<process, subscription, tables, taskMutex, sig, task, responder,
                   wallet, mined>>

\* The loop over batchesIdxByRoot.  When the root is found the handler starts
\* the BLS goroutine and keeps taskMutex.
LookupFinds(c) ==
    /\ call[c].pc = "lookup" /\ taskMutex = Free
    /\ batchesIdxByRoot[call[c].root] # NoIndex
    /\ taskMutex' = c
    /\ call' = [call EXCEPT ![c] = [@ EXCEPT !.pc = "bls",
                                            !.idx = batchesIdxByRoot[call[c].root]]]
    /\ sig' = [sig EXCEPT ![c] = "running"]
    /\ UNCHANGED <<chainAndLoops, task>>

\* Mutant: the check of ok after the loop is missing, so a call that never
\* found its root goes on with taskIndex 0.
LookupMisses_NotChecked(c) ==
    /\ call[c].pc = "lookup" /\ taskMutex = Free
    /\ batchesIdxByRoot[call[c].root] = NoIndex
    /\ IF call[c].tries + 1 < waitForEventRetries
       THEN /\ call' = [call EXCEPT ![c].tries = @ + 1]
            /\ UNCHANGED <<sig, taskMutex>>
       ELSE /\ call' = [call EXCEPT ![c] = [@ EXCEPT !.pc = "bls", !.idx = 0]]
            /\ sig' = [sig EXCEPT ![c] = "running"]
            /\ taskMutex' = c
    /\ UNCHANGED <<chainAndLoops, task>>

\* Otherwise it unlocks and sleeps, and after the last try replies 1.
LookupMisses(c) ==
    /\ call[c].pc = "lookup" /\ taskMutex = Free
    /\ batchesIdxByRoot[call[c].root] = NoIndex
    /\ call' = [call EXCEPT ![c] = [@ EXCEPT
          !.tries = call[c].tries + 1,
          !.pc = IF call[c].tries + 1 = waitForEventRetries THEN "replied" ELSE "lookup"]]
    /\ UNCHANGED <<chainAndLoops, taskMutex, sig, task>>

\* The service verifies a signature, files it and looks at the stake it has.
\* A goroutine whose task has closed may wait for ever.
SignatureCounted(c) ==
    LET i == call[c].idx
        signers == task[i].signers \cup {call[c].op} IN
    /\ sig[c] = "running"
    /\ task[i].state = "open"
    /\ sig' = [sig EXCEPT ![c] = "counted"]
    /\ task' = [task EXCEPT ![i].signers = signers,
                           ![i].state = IF IsQuorum(signers, stakeAt[task[i].block])
                                        THEN "quorum" ELSE "open"]
    /\ UNCHANGED <<chainAndLoops, taskMutex, call>>

\* ProcessNewSignature returns an error: the task is closed, or the operator
\* is not known or its signature does not verify.
SignatureRejected(c) ==
    /\ sig[c] = "running"
    /\ \/ task[call[c].idx].state = "closed"
       \/ "badSignature" \in Faults /\ task[call[c].idx].state = "open"
    /\ sig' = [sig EXCEPT ![c] = "rejected"]
    /\ UNCHANGED <<chainAndLoops, taskMutex, call, task>>

\* Mutant: the handler returns without unlocking when the BLS call times out.
Reply_StillLocked(c, answer) ==
    /\ call[c].pc = "bls"
    /\ call' = [call EXCEPT ![c] = [@ EXCEPT !.pc = "replied", !.reply = answer]]
    /\ taskMutex' = IF answer = 0 THEN Free ELSE taskMutex
    /\ UNCHANGED <<chainAndLoops, sig, task>>

Reply(c, answer) ==
    /\ call[c].pc = "bls"
    /\ call' = [call EXCEPT ![c] = [@ EXCEPT !.pc = "replied", !.reply = answer]]
    /\ taskMutex' = Free
    /\ UNCHANGED <<chainAndLoops, sig, task>>

\* done is closed, with or without an error of the service.
CallDone(c) == sig[c] \in {"counted", "rejected"} /\ Reply(c, 0)

\* The context of 5 seconds expires; the goroutine runs on.
CallTimesOut(c) == Reply(c, 1)
-----------------------------------------------------------------------------
(***************************************************************************)
(* Start and handleBlsAggServiceResponse.                                  *)
(***************************************************************************)
TaskExpires(i) ==
    /\ "expiry" \in Faults
    /\ task[i].state = "open"
    /\ task' = [task EXCEPT ![i].state = "expired"]
    /\ UNCHANGED <<chainAndLoops, taskMutex, call, sig>>

\* The main loop takes a response of the service and starts a responder,
\* which returns at once when the response carries an error.
TakeResponse(i) ==
    /\ task[i].state \in {"quorum", "expired"}
    /\ task' = [task EXCEPT ![i].state = "closed"]
    /\ responder' = IF task[i].state = "expired" THEN responder
                    ELSE [responder EXCEPT ![i].pc = "fetch"]
    /\ UNCHANGED <<chainVars, process, subscription, tables, taskMutex, call, sig,
                   wallet, mined>>

others == <<process, subscription, tables, taskMutex, call, sig, task>>

FetchRoot(i) ==
    /\ responder[i].pc = "fetch"
    /\ taskMutex = Free
    /\ responder' = [responder EXCEPT ![i] = [@ EXCEPT !.pc = "lock", !.root = batchesRootByIdx[i]]]
    /\ UNCHANGED <<chainVars, others, wallet, mined>>

LockWallet(i) ==
    /\ responder[i].pc = "lock"
    /\ walletMutex = Free
    /\ walletMutex' = i
    /\ responder' = [responder EXCEPT ![i].pc = "send"]
    /\ UNCHANGED <<chainVars, others, sent, mined>>

\* AvsWriter.SendAggregatedResponse: the call is simulated, then sent.
SendSucceeds(i) ==
    /\ responder[i].pc = "send"
    /\ responder[i].root \in Roots /\ RespondSucceeds(responder[i].root, task[i].signers)
    /\ sent' = Append(sent, [root |-> responder[i].root, signers |-> task[i].signers])
    /\ walletMutex' = Free
    /\ responder' = [responder EXCEPT ![i] = [@ EXCEPT !.pc = "wait", !.nonce = Len(sent) + 1]]
    /\ UNCHANGED <<chainVars, others, mined>>

\* Mutant: one attempt too many.
Retry_OneMore(i) ==
    responder' = [responder EXCEPT ![i] = [@ EXCEPT
        !.tries = responder[i].tries + 1,
        !.pc = IF responder[i].tries = MaxSentTxRetries THEN "lost" ELSE "lock"]]

\* A failed attempt; after the last one the batch is given up as lost.
Retry(i) ==
    responder' = [responder EXCEPT ![i] = [@ EXCEPT
        !.tries = responder[i].tries + 1,
        !.pc = IF responder[i].tries + 1 = MaxSentTxRetries THEN "lost" ELSE "lock"]]

\* Mutant: the error path of sendAggregatedResponse does not unlock.
SendFails_StillLocked(i) ==
    /\ responder[i].pc = "send"
    /\ \/ responder[i].root \notin Roots
       \/ ~RespondSucceeds(responder[i].root, task[i].signers)
       \/ "sendError" \in Faults
    /\ Retry(i)
    /\ UNCHANGED <<chainVars, others, walletMutex, sent, mined>>

SendFails(i) ==
    /\ responder[i].pc = "send"
    /\ \/ responder[i].root \notin Roots
       \/ ~RespondSucceeds(responder[i].root, task[i].signers)
       \/ "sendError" \in Faults
    /\ Retry(i)
    /\ walletMutex' = Free
    /\ UNCHANGED <<chainVars, others, sent, mined>>

\* Mutant: a receipt that does not come is taken for one that does.
ReceiptFound_Unchecked(i) ==
    /\ responder[i].pc = "wait"
    /\ responder' = [responder EXCEPT ![i].pc = "succeeded"]
    /\ UNCHANGED <<chainVars, others, wallet, mined>>

\* WaitForTransactionReceipt: a receipt of a reverted transaction counts too.
ReceiptFound(i) ==
    /\ responder[i].pc = "wait"
    /\ responder[i].nonce <= mined
    /\ responder' = [responder EXCEPT ![i].pc = "succeeded"]
    /\ UNCHANGED <<chainVars, others, wallet, mined>>

\* No receipt after its 25 tries: the transaction may still be mined.
ReceiptMissing(i) ==
    /\ responder[i].pc = "wait"
    /\ "receiptTimeout" \in Faults
    /\ Retry(i)
    /\ UNCHANGED <<chainVars, others, wallet, mined>>

\* Ethereum executes the next transaction of the wallet, or reverts it.
MineResponse ==
    /\ mined < Len(sent)
    /\ LET tx == sent[mined + 1] IN
          \/ RespondToTask(tx.root, tx.signers)
          \/ ~RespondSucceeds(tx.root, tx.signers) /\ UNCHANGED chainVars
    /\ mined' = mined + 1
    /\ UNCHANGED <<others, responder, wallet>>
-----------------------------------------------------------------------------
\* What happens around the aggregator: blocks are mined and batches created.
\* A batch is created while the model has a later block to answer it in.
Environment ==
    /\ \/ Mine
       \/ blockNumber < MaxBlock /\ \E r \in Roots : CreateNewTask(r)
    /\ UNCHANGED <<others, responder, wallet, mined>>

\* The steps a handler of an RPC call makes, and those made for a task of the
\* BLS service: the main loop hands it to a responder, which goes on alone.
Handler(c) ==
    \/ LookupFinds(c)
    \/ LookupMisses(c)
    \/ CallDone(c)
    \/ CallTimesOut(c)

HandleResponse(i) ==
    \/ TakeResponse(i)
    \/ FetchRoot(i)
    \/ LockWallet(i)
    \/ SendSucceeds(i)
    \/ SendFails(i)
    \/ ReceiptFound(i)
    \/ ReceiptMissing(i)

Next ==
    \/ Crash
    \/ Restart
    \/ Subscribe
    \/ SubscriptionFails
    \/ SubscriptionGivenUp
    \/ ReceiveNewBatch
    \/ \E c \in Calls :
          \/ \E o \in Operators, r \in Roots : CallArrives(c, o, r)
          \/ Handler(c)
          \/ SignatureCounted(c)
          \/ SignatureRejected(c)
    \/ \E i \in Indices : TaskExpires(i) \/ HandleResponse(i)
    \/ MineResponse
    \/ Environment

Spec == Init /\ [][Next]_vars

(***************************************************************************)
(* Fairness.  A goroutine that can run does, and Go's mutexes hand         *)
(* themselves to the longest waiter, so whoever waits for one that is      *)
(* released again and again gets it: hence strong fairness, which is only  *)
(* more than weak where a goroutine waits for a mutex.  Nothing is assumed *)
(* of the faults, of operators, of the BLS service's verdicts.             *)
(***************************************************************************)
Fairness ==
    /\ WF_vars(Restart) /\ WF_vars(Subscribe) /\ SF_vars(ReceiveNewBatch)
    /\ \A c \in Calls : SF_vars(Handler(c))
    /\ \A i \in Indices : SF_vars(HandleResponse(i))
    /\ WF_vars(MineResponse)

FairSpec == Spec /\ Fairness
-----------------------------------------------------------------------------
\* The two maps are inverse to each other and filled without gaps, whatever
\* events arrive twice and whenever the process dies: the index under which
\* signatures are collected leads back to the root they signed.
TablesAgree ==
    /\ \A r \in Roots : batchesIdxByRoot[r] # NoIndex =>
          batchesIdxByRoot[r] < nextBatchIndex /\ batchesRootByIdx[batchesIdxByRoot[r]] = r
    /\ \A i \in Indices :
          IF i < nextBatchIndex
          THEN batchesRootByIdx[i] \in Roots /\ batchesIdxByRoot[batchesRootByIdx[i]] = i
          ELSE batchesRootByIdx[i] = ZeroRoot

\* A signature the service counted is in the task of the batch it was given
\* for, however long its handler waited and whether or not it timed out.
SignaturesFiled ==
    \A c \in Calls : sig[c] = "counted" =>
        /\ call[c].op \in task[call[c].idx].signers
        /\ batchesRootByIdx[call[c].idx] = call[c].root

\* The service's verdict is the contract's: when a quorum is reported for an
\* index, the batch behind the index exists on chain and the collected
\* signers pass the signature and stake checks of respondToTask, at the block
\* the contract recorded.  A response can then only be refused because the
\* batch has been answered already or its block is not past yet.
Reported(i) == task[i].state = "quorum" \/ responder[i].pc # "none"

AggregatedQuorumHolds ==
    \A i \in Indices : Reported(i) =>
        LET r == batchesRootByIdx[i] IN
        /\ r \in Roots /\ Exists(r)
        /\ task[i].signers \subseteq signed[r]
        /\ IsQuorum(task[i].signers, stakeAt[batchesState[r].taskCreatedBlock])

\* "Aggregator successfully responded to task" is only logged for a batch the
\* contract has marked as responded, although the status in the receipt is
\* never read: two attempts may be in the pool, and the one waited for may be
\* the one that is reverted.
SuccessMeansVerified ==
    \A i \in Indices :
        responder[i].pc = "succeeded" =>
            responder[i].root \in Roots /\ Responded(responder[i].root)

\* Every RPC call is answered: no handler waits for ever for taskMutex or for
\* the BLS service.
CallsReturn ==
    \A c \in Calls : call[c].pc \in {"lookup", "bls"} ~> call[c].pc \in {"idle", "replied"}

\* Every response of the service is dealt with: its responder succeeds or gives
\* up, and does not wait for ever for a mutex or a receipt.
RespondersEnd ==
    \A i \in Indices :
        task[i].state = "quorum" ~> responder[i].pc \in {"succeeded", "lost"} \/ ~up

\* What the aggregator is for: a reported quorum for a block that is past is
\* answered on chain, although receipts may time out and sends be repeated.
QuorumReachesChain ==
    \A i \in Indices, r \in Roots :
        (task[i].state = "quorum" /\ batchesRootByIdx[i] = r /\ task[i].block < blockNumber)
            ~> Responded(r)
-----------------------------------------------------------------------------
(***************************************************************************)
(* What comments and log messages of the code say and the code does not do.*)
(***************************************************************************)
\* server.go says of the reply of ProcessOperatorSignedTaskResponse
\* "0: Success".
ReplyZeroMeansCounted ==
    \A c \in Calls : call[c].pc = "replied" /\ call[c].reply = 0 => sig[c] = "counted"

\* aggregator.go, after the last attempt: "Aggregator failed to respond to
\* task, this batch will be lost".
LostBatchIsLost ==
    \A i \in Indices : responder[i].pc = "lost" => ~Responded(responder[i].root)

\* aggregator.go says of both maps: "In case of a reboot, this doesn't need to
\* be loaded, and can start from zero".
KnownOrAnswered(r) == batchesIdxByRoot[r] # NoIndex \/ Responded(r)

RebootForgetsNothing == \A r \in Roots : KnownOrAnswered(r) ~> []KnownOrAnswered(r)
=============================================================================
