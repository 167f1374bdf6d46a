# A specification of Aligned Layer

Aligned Layer verifies zero-knowledge proofs off chain and settles the verdict
on Ethereum. Clients send proofs to a batcher, the batcher stores them in S3
and announces their Merkle root to a contract, operators download and verify
the batch and sign its root, and an aggregator collects the signatures and
answers the contract once operators with 67 per cent of the stake have signed.

This directory models that system in TLA+: the contract, the aggregator, the
batcher, the operators with the verifiers they share with the batcher, the task
sender, and how the processes come up. Each has runs that check it and theorems
that TLAPS proves about it.
All paths below are relative to the repository.

## 1. Inventory

| component | source | state | operations |
|---|---|---|---|
| Service manager contract | `contracts/src/core/AlignedLayerServiceManager.sol`, `...Storage.sol` | `batchesState`: root -> (block, responded); the event log | `createNewTask`, `respondToTask`, `verifyBatchInclusion` |
| Batcher | `batcher/aligned-batcher/src/` | queue and last uploaded block, each behind an async mutex; connections | accept a message, check a batch on every block, split, upload, create the task, answer |
| Aggregator | `aggregator/internal/pkg/`, `core/chainio/avs_writer.go`, `core/utils/eth_client_utils.go` | two index maps and a counter behind `taskMutex`; `walletMutex`; the tasks of the BLS service; the subscription | take an event, take a signature, report a quorum, send, wait for a receipt, retry |
| Operator | `operator/pkg/` | the subscription, the batch of the main loop, verifiers and their results channel, one shared RPC client | download, verify concurrently, sign, send with retries and redials |
| Proof verifiers | `batcher/aligned-batcher/src/zk_utils`, `.../gnark`, `operator/*/` | none | decode, cut a Halo2 key, verify; twice, in Rust and Go |
| Start-up | `core/config/`, `operator/cmd/`, `core/chainio/`, `metrics/` | the configuration, registration and stake on chain, the sockets of the host | load, register, deposit, dial, listen |
| Client | `batcher/aligned/src/main.rs` | a count of responses | submit with repetitions, receive, verify on chain |
| Explorer | `explorer/lib/explorer/` | a table of batches | periodic import of a window of blocks |
| Task sender | `task_sender/` | proof files in a directory; a counter per process | make a proof, upload it, create its task; once, in a loop, or for ever |
| Alerts | `alerts/contract_alerts.sh` | two flags | poll 25 blocks, raise or clear an alert |
| Commitments | `batcher/aligned-batcher-lib/src/types/mod.rs` | none | leaf commitment, Merkle path |
| Identifiers | `common/proving_systems.go` | none | names to numbers and back |

How they interact: a client and the batcher talk over a websocket; the batcher
writes S3 and sends `createNewTask`; `NewBatch` events reach operators and the
aggregator through subscriptions that start at the present block; an operator
reads S3 and calls `ProcessOperatorSignedTaskResponse` over net/rpc; the
aggregator sends `respondToTask`; the explorer reads the event log; a client
finally calls the view `verifyBatchInclusion`.

What is hard in it:

* concurrency: the aggregator runs a goroutine per RPC call, another per BLS
  call and one per reported task over shared maps, and holds one mutex across a
  call of up to five seconds and another across the sending of a transaction;
  the batcher runs a task per block over one queue and holds an async mutex
  across an upload and a transaction, while a second task waits for that mutex
  with the queue locked; the operator starts a goroutine per proof that may
  outlive the loop's interest in its verdict, and its senders read, replace and
  lose one RPC client together;
* failure: the processes keep nothing on disk; uploads panic, transactions
  fail, receipts come late, subscriptions and connections end, and a bad proof
  may end the process that verifies it;
* ordering and repetition: events may be missed or repeated, two transactions
  may be sent for one batch, signatures may arrive before the event or after
  the answer;
* boundaries: the quorum, the split of a batch that is too large, `uint32`
  block numbers and offsets, buffers of different sizes on the two sides.

What makes each component correct:

* contract: a verified batch has a quorum of the stake of its creation block;
  the ledger only grows; the log tells the ledger's story once;
* aggregator: signatures are filed under the batch they were given for; what
  it reports would pass the contract; what it calls a success is one; every
  call and every response ends; a quorum reaches the chain;
* batcher: no accepted proof is dropped or duplicated; what it tells clients
  can be downloaded and checked; a lock is never leaked; a long queue is posted;
* operator: it signs only a batch of which it accepted every proof, in whatever
  order the verifiers finish; no verifier is blocked or ends the process after
  the loop has left its batch; its signature arrives as long as connections do not
  break more often than its ten calls cover;
* verifiers: what the batcher lets into a batch, every operator accepts;
* task sender: what it reports as sent is on chain, with its data, once; an
  infinite sender goes on;
* start-up: an operator that serves has been registered, with the BLS key it signs
  with; whoever serves owns its addresses or is about to; an operator that could
  serve comes up in the end.

`PROJECT.json` lists under "hazards" where each of these bites and which
property watches it. Some are watched by none: what the code really does there
(a batch missed at a resubscription, the proofs of a task that panics, an answer
for a batch whose task was refused, proofs that only one side's buffers take) is
in the models, and the properties excuse it by name or do not speak of it.

## 2. Modules

| module | what it is |
|---|---|
| `StakeQuorum` | the 67 per cent rule of `respondToTask` |
| `BatchVerification` | abstract specification: a batch is created once, frozen to a stake table, verified once by a quorum of that table |
| `AlignedLayerServiceManager` | the contract as a state machine, with the chain's block number and log around it; refines `BatchVerification` |
| `AlignedLayerServiceManager_proofs` | theorems about it |
| `Aggregator` | the aggregator composed with the contract (it extends its module and takes its transactions through `MineResponse` and `Environment`) |
| `Aggregator_proofs` | theorems about the aggregator beside the contract |
| `ProofService` | abstract specification: a proof is taken once and answered at most once, for a published batch made of proofs that were held; only named faults drop or forget any |
| `Batcher` | the batcher with S3 and the contract's set of tasks; refines `ProofService` |
| `Batcher_proofs` | theorems about the batcher |
| `Verification` | operators: what the batcher and the operator do with one proof, for every proving system |
| `ProofPath` | one proof from the client through both verifiers, with JSON in between |
| `ProofPath_proofs` | that the verifiers agree, for every length and buffer |
| `Operator` | the operators composed with the contract (extended) and `Verification`: main loop, verifiers, senders, connections |
| `Operator_proofs` | theorems about the operators beside the contract |
| `TaskSender` | the three commands of the task sender composed with the contract and `Verification` |
| `TaskSender_proofs` | theorems about it |
| `Startup` | configurations, registration, deposit, dialling, listening, ends and restarts |
| `Startup_proofs` | theorems about it |
| `MCServiceManager`, `MCAggregator`, `MCBatcher`, `MCProofPath`, `MCOperator`, `MCTaskSender`, `MCStartup` | values of the constants for TLC |

### Contract

A transaction is one action; one whose `require` fails is reverted and is no
step. `blockNumber` is the block being built. `stakeAt` is the history of stake
tables, chosen once from `StakeHistories`: `BLSSignatureChecker` reads the table
at the reference block, which has to be past, so the table it reads never
changes any more. A BLS signature is modelled by its meaning: the claimed
signers signed this root. The Merkle walk of `verifyBatchInclusion` is a Boolean
parameter.

### Aggregator

`call[c]` is the RPC handler of call `c`, `sig[c]` its goroutine in the BLS
service, `task[i]` the service's task with index `i`, `responder[i]` the
goroutine of `handleBlsAggServiceResponse` for it. Code between taking and
releasing a mutex without a wait is one action; `taskMutex`, which the handler
keeps during the BLS call, and `walletMutex` are variables. `AddNewTask` is one
action with the receipt of its event, which is guarded by `taskMutex` being
free. Sleeps between retries are not modelled, retries are.

External, modelled from how the code uses it: the BLS service (it counts each
operator once per task, reports a task when the signers collected own a quorum
at the task's block, reports an error when the task expires, refuses signatures
that do not verify or come after it has closed the task; a caller whose task
has closed may wait for ever) and Ethereum (a wallet's transactions are executed in the
order of their nonces; the simulated call and the sending in
`SendAggregatedResponse` are one step). In this module only the aggregator
calls `respondToTask`. A chain reorganisation is not modelled beyond the
repetition of its events.

The faults that may happen are named in the constant `Faults`: `crash`,
`subscription`, `duplicate` (a repeated event), `badSignature`, `expiry`,
`sendError`, `receiptTimeout`. Each run names those it allows.

### Batcher

`worker[b]` is the `handle_new_block` task of block `b`. `queueLock` and
`lastLock` are the two mutexes; the states between them are the awaits of the
code. A message that is refused ends its connection. `size` is a message's
length as JSON, chosen initially, so that all splits of the queue are reached:
the size of a batch counts its brackets and commas, the sum the split is based
on does not. A root is the sequence of the commitments in the batch, so that
batches with equal contents, which `aligned submit --repetitions` produces, have
equal roots. What the library does to build the tree beyond that is left out,
except that it panics on an empty batch. `create_new_task` may fail without a
task, or report an error for a task that was created; both only log, so they are
the outcomes of one action. `answers` records the responses sent; whether a
socket is still open when the send happens changes nothing in the batcher.
Faults: `s3`, `tx`, `events` (the subscription to BatchVerified), `stream` (the
block stream ends), `restart`.

`Service` maps the batcher's state to `ProofService`: a proof is `held` while it is
in the queue or in the batch of a task that can still answer it, `answered` once
there is inclusion data for it, `lost` when it was taken and is neither, and
`published` is what is in S3. Queue, locks and blocks have no counterpart: cutting
the queue into batches is a stutter, a panic of a task is `Drop`, a restart
`Forget`.

Not modelled: `finalize_batch` with `wait_for_verification`, which no caller
sets, and with it `await_batch_verified_event` and `send_timeout_close`.

### Verifiers

A proof is a record: the lengths of its parts, which of them decode (`readable`,
and `padded` for those that decode only with zeros behind them), the system it
was made for, and whether its statement holds. The cryptography is these fields;
the code around it is kept: which fields must be there, what is decoded in which
order, the offsets into a Halo2 key in `uint32`, the buffers, and what panics
instead of refusing. `BatcherVerify` and `OperatorVerify` are the two sides.
`VerifiersAgree` excepts three differences that the sizes of buffers really
leave, named in `SizesDiffer`: the batcher takes proofs of any length while the
library behind the operator takes 4 KiB (the operator's own buffer takes 8);
public inputs longer than the operator's buffer; and a part of a key that decodes
only because the batcher's buffer is filled up with zeros. The batcher is taken to
run with `pre_verification_is_enabled`.

### Operator

`sub[o]` is the subscription and how far in the log it has come; what is announced
behind its back is recorded in `missed[o]`, since neither `Start` nor the
resubscription reads past events. `loop[o]` is the `select` of `Start` with the
batch `ProcessNewBatchLog` works on; `worker[o][r]` the goroutine per proof,
`results[o][r]` the buffered channel and whether `wg.Wait()` has closed it.
Verifiers stay when the loop leaves a batch at its first refusal. `send[o][r]` is
the goroutine of `SendSignedTaskResponseToAggregator`, one `pc` for each point
between two reads or writes of what the senders share: `client[o]` (the field
`rpcClient`), and `shut[o]`, up to which connections have been noticed as broken,
so that a call on them returns `ErrShutdown` and not another error. A connection
is named by the number of breaks before it (`epoch[o]`). A sender may thus put a
connection back that has broken since, over a newer one of another sender; this
is why `BreaksCostFewCalls` has the term `Stale`.

`object[r]` is what the event's pointer names, chosen once: its Content-Length,
whether it parses, its proofs, and its true root, which no operator computes.
The aggregator is reduced to what an operator sees of it: it runs or not, files a
signature or (fault `unfiled`) replies 1, which the client takes for success, and
answers a quorum. Faults: `crash`, `subscription`, `resubscription` (the nil
subscription whose `Err()` ends the process), `service`, `unfiled`, `drop`,
`aggregator`.

### Task sender

`pc[s]` and `at[s]` say where a process is, files being written and read one after
the other. A content stands for its SHA-256, so `Roots` is a set of contents.
Infinite senders share the directory with names that depend on the counter alone:
with two of them, a file may be truncated or overwritten between the writing and
the reading of the other. `SentProofsAreAccepted` and `InfiniteKeepsSending` are
therefore about one such sender; the first is also about the senders whose files
are given by flags, when these files fit each other (`NamesItsProofs`). `SendTask` waits for a receipt and never looks at
its status; that the task exists all the same is `SuccessMeansExists`. Left out:
the refusal of an interval below 1, and the flags `fee` and `quorum-threshold`,
which nothing reads.

### Start-up

A configuration is the set of items it has and a BLS key pair; `New...Config` are
the sets the loaders check. Each command goes through its places: `check` (is the
address registered), `register`, `registering` (the transaction is under way),
`dial`, `serve`. A process that is killed while `registering` leaves the
transaction behind (`orphans`). A process that ends is started again, as
`operator/docker/compose.yaml` (`restart: unless-stopped`) does for operators and
a user may for others. Servers are goroutines (`pending`), and an address in use
ends the process.

An operator has two keys. `registered` holds the ECDSA keys in the quorum, and
`pubkey` the BLS key that the registries keep for each from its first
registration on. An operator leaves the registry with `Deregister`, for each key
at most once (`left`), so that starts and leaves cannot alternate for ever; a key
that comes back keeps its BLS key. Deposits are never withdrawn. Whether the
library takes a receipt that says "reverted" for an error is open, so
`RegistrationMined` may go on or end.

What the code does not check is left unchecked:

* the address asked for comes from the configuration, and the transaction is
  signed with the ECDSA key. So what `RunningIsRegistered` can say is that one of
  the two is or was in the registry;
* the BLS key pair that signs batches (`operator.go:425`) is the one loaded at this
  start. That it is the registered one holds where address and key agree and all
  commands of this key load one pair (`Agreed`); and a registration may be refused
  because somebody else has the pair (`NobodyElses`). Both are conditions of the
  property, and configurations without them are among the instance's;
* the operator's own section, with the aggregator's address (`OperatorSection`), is
  read as it is. An operator without that address registers and then ends at `Dial`,
  at each start (`Answered`); `CanServe` leaves it out. An absent `max_batch_size`
  is 0, and `register_operator_on_startup` is used by nothing.

## 3. Runs

| run | instance | what it shows |
|---|---|---|
| `service_manager` | 2 roots, 3 operators, 4 blocks, four stake tables on both sides of 67 per cent, every history of them | the four contract properties and the refinement |
| `aggregator_tasks` | 2 roots, 2 calls, 1 crash, faults crash, subscription, duplicate, badSignature | `TablesAgree`, `SignaturesFiled` |
| `aggregator_responses` | 2 roots, 2 calls, 2 attempts, faults badSignature, expiry, sendError, receiptTimeout | `AggregatedQuorumHolds`, `SuccessMeansVerified`, the types |
| `aggregator_liveness` | 2 roots, 2 calls, 2 attempts, faults receiptTimeout, badSignature; operator a alone is a quorum | `CallsReturn`, `RespondersEnd`, `QuorumReachesChain` |
| `batcher` | 2 clients, 6 messages (one refused, one never read, two equal), 3 blocks, every fault | `NoProofLost`, `AnswerIsRetrievable`, `LocksHeldInside`, the types |
| `batcher_liveness` | 2 clients, 4 messages, 2 blocks, sizes 3 and 5 of at most 10, transactions may fail; 57,232 states | `MessagesAreQueued`, `QueueDrains`, `ImplementsService` where nothing may be lost |
| `verification` | every system named and made, fields missing or unreadable; Halo2 keys of lengths 0 and 11 to 18 with declared lengths up to 31, range of `uint32` 32; 117,542 states | `VerifiersAgree` |
| `operator` | 1 operator, 2 batches of up to 3 proofs of which some are false or fatal, 20 pairs of objects, 3 calls, 1 break, 1 fault, every kind of fault; 721,484 states | `SignedMeansAccepted`, `NoSendOnClosed`, `RoomForEveryVerdict`, `VerifiedMeansAccepted`, the types |
| `operator_system` | 1 operator, 2 sound batches, 6 calls, 2 breaks, 1 lost subscription; 381,074 states | `BreaksCostFewCalls`, `SignatureArrives`, `BatchIsVerified` |
| `task_sender` | 2 senders as 21 pairs of commands, 2 proofs each, 3 setups, failing services; 171,949 states | `SuccessMeansExists`, `NoRootTwice`, `DataBeforeTask`, `SentProofsAreAccepted`, `InfiniteKeepsSending`, the types |
| `startup` | 8 processes, among them two operators with one metrics address and one with a foreign address; 9 configurations: who has one, one item missing (the aggregator's address among them), another BLS key pair than that of the register command or that of the other operator; 1 kill, each key leaves once; 211,488 states | `RunningIsRegistered`, `ServingMeansListening`, `OperatorComesUp`, the types |

The run `operator_root` shows a sentence of the documentation that the code does
not keep: `docs/about_aligned/how_does_aligned_work.md:57` says that operators
verify that the Merkle root is equal to the one in Ethereum, and
`operator/pkg/operator.go` signs the root of the event without computing one.

`MCBatcherService.cfg`, to be run by hand, checks `ImplementsService` under every
fault of the batcher, where proofs may be dropped and forgotten (198,848 states).
Five more each show one sentence of the
code's comments or log messages that the code does not keep:

| configuration | property | the sentence |
|---|---|---|
| `MCAggregatorReply.cfg` | `ReplyZeroMeansCounted` | "0: Success", of a reply that is also given for a signature the BLS service refused |
| `MCAggregatorLost.cfg` | `LostBatchIsLost` | "this batch will be lost", of a batch that may be answered by a transaction whose receipt was late |
| `MCAggregatorReboot.cfg` | `RebootForgetsNothing` | "In case of a reboot, this doesn't need to be loaded", of the maps without which open batches are not answered |
| `MCBatcherEmpty.cfg` | `NeverFinalizeEmpty` | the sanity check against empty batches, made before the split that may yield one |
| `MCBatcherLast.cfg` | `LastUploadedOnceCreated` | "updated once the task is created", of an update made before it |

Smaller disagreements met while modelling: a signature whose call timed out is
logged as lost and counted later; a split batch may exceed `max_batch_size` by its
brackets and commas; `loop-tasks` is described as sending a task every interval,
and its second task has the first one's root, which the contract refuses, so the
loop ends (`LoopKeepsSending` states it; no run checks it); `make send_sp1_proof`
passes no verification key, which the command needs for the program; the script
for Groth16 examples writes files under other names than the `Makefile` reads.

The bounds. Two roots are enough for one batch to be confused with another, two
operators for a quorum that needs both (blocks 0 and 1, half of the stake each)
and one that does not (from block 2 on, 67 to 33): a task judged in the wrong
block gives the other answer. Two calls are enough for one to wait for the other's mutex and for
two operators to sign at once. The code's retry limits (50, 5, 100) are
constants of 1 or 2 here: nothing depends on their value but when they are
reached, and they are reached. In the batcher three blocks give three tasks at
once: one uploading, one waiting for it with the queue locked, one waiting for
the queue. With at most 10 for a batch and messages of 3 and 5, whole queues fit, split, split
again, or split off nothing. Runs of the aggregator and the batcher are checked
without TLC's deadlock check: an instance stops when all its calls, messages
and blocks are used up. That no one waits for ever is checked by the liveness
properties instead.

For the operator, one is enough for the safety of its goroutines: operators share
nothing but the contract, whose quorums are the business of `service_manager`, and
the senders that share a client belong to one operator. Three proofs give a
refusal before, between and after acceptances; the second batch arrives while
verifiers of the first still run. In `operator_system` six calls are one more
than 2 breaks can cost there (2 * 2 + 1); that a sender gives up is reached in
`operator`, with 3 calls. In `startup` every order of starts and restarts is
explored, of up to six processes at once: the others have no configuration then. A
second kill would repeat what the restarts that failures cause already show.

Symmetry of roots and of calls is used in the aggregator's safety runs only.

## 4. Fairness

Aggregator: a goroutine that can run does (weak fairness). Whoever waits for a
`sync.Mutex` gets strong fairness: Go's mutexes hand over to the
longest waiter when it has waited for a millisecond. Nothing is assumed of faults,
crashes, operators or the BLS service's verdict: `CallsReturn` holds
because of the five-second timeout alone. Ethereum is assumed to execute the
transactions it was sent (`MineResponse`), and to go on producing blocks is not
needed, because the quorum's block is required to be past.

Batcher: a call to S3 and a transaction end, well or badly; Tokio's mutexes queue
their waiters; blocks keep coming. `pending_tx.await` has no timeout in the code,
so a transaction that is neither mined nor dropped would hold the mutex for
ever: that its wait ends is an assumption about the Ethereum client.

Operator: `SystemSpec` lets the main loop, a resubscription, every verifier, the
closing of the channel and every sender step go on (goroutines are scheduled, a
request is answered or fails, waiting ends), lets the chain produce blocks, and
takes from module `Aggregator` that a quorum is answered. Nobody restarts an
operator, and breaks may or may not happen; `SignatureArrives` and
`BatchIsVerified` excuse exactly the events that were missed.

Task sender: processes run and transactions are included (`FairSpec`). Start-up:
processes run, ended ones are started again, sent registrations are mined; nobody
needs to be killed or to leave. What `OperatorComesUp` does not assume is an order of the
starts.

`QueueDrains` allows one way out, `Stuck`: a queue whose array exceeds the
maximum only by brackets and commas is split at 0, gives an empty batch, and the
task panics; see `MCBatcherEmpty.cfg`.

## 5. Proofs

`AlignedLayerServiceManager_proofs` is checked by TLAPS for every set of roots
and operators, every set of stake histories, and every number of blocks below
2^32. Assumptions: `BlockAssumption` (block numbers fit in `uint32`, and a task is
never created in block 0, which is the source's own remark) and
`StakeAssumption` (the type of the histories).

* `TypeCorrect`: `ChainTypeOK`; the one step that is not about shapes is
  `BlockNumberFits`, that `uint32` loses nothing and never yields 0.
* `QuorumSafety`: `QuorumBehindVerified` is inductive given the types: only
  `respondToTask` sets `responded`, it requires the quorum, and the
  block and the signatures the statement speaks of never shrink.
* `LedgerMonotone`: by cases on the step.
* `LogFaithful`: `LogMatchesState` is inductive; `PositionAppend` says what
  appending does to the positions of an event, `LogStep` treats each transaction.
* `Refinement`: initial states map to initial states and every step to a step of
  `BatchVerification` or a stutter, using the types.

`Aggregator_proofs` covers every number of calls, batches, attempts, restarts and
every combination of faults. Assumptions: those of the contract, and
`AggregatorAssumption` (the retry limits are positive, the value of an unset map
entry is no root, `Free` is no owner of a mutex).

* `StepIsChainStep`: each step of the composed system is a step of the
  contract's specification or leaves it alone. Hence `AggregatorUsesContract`,
  and with it the contract's theorems hold here too: `QuorumSafetyBesideAggregator`
  is the first use, and `AggregatorImplementsPromise` carries over the refinement,
  the log and the ledger.
* `ChainGrowth` and `FilesGrowth`: what the aggregator read earlier is still true
  when it acts on it. A batch keeps its block, signatures and answers are never
  taken back, an index keeps its root, and a closed task keeps its signers.
* `AggregatorInvariant`: the inductive invariant is the types, the contract's
  `LogMatchesState`, `TablesAgree`, and one predicate for each kind of process.
  The properties are not inductive without them:
  - `CallInOrder`: between the lookup and the reply a handler holds an index that
    it read earlier; the predicate ties that index to the root of the call, which
    is what `SignaturesFiled` speaks of.
  - `TaskInOrder`: a BLS task is opened with the block of the batch's event, and
    `AggregatedQuorumHolds` needs that this is the block the contract recorded.
  - `ResponderInOrder`: a responder that waits does so for a transaction of its
    own root.
  - `TransactionInOrder`: the code takes any receipt for success without
    reading its status. The argument that `SuccessMeansVerified` holds all the same
    is this: a transaction that was sent passes every `require` of
    `respondToTask` for ever, except "not yet responded". So a mined
    transaction either marked the batch, or was reverted since another one had.
* `AggregatorTypeStep`, `TablesStep`, `CallStep`, `TaskStep`, `ResponderStep`,
  `TransactionStep`: one lemma per conjunct, one step per action.

`Batcher_proofs` covers every set of clients and messages, every size and every
split. Assumption: `BatcherAssumption` (the messages sent are distinct, sizes and
limits are naturals).

* `TakenInQueue`: `is_batch_ready` takes a prefix of the queue. The place of the
  split is a minimum, which exists because `<` is well founded on the naturals
  (`MinInSet`).
* `BatcherInvariant`: beside the types, `LocksHeldInside` and
  `AnswerIsRetrievable`, the inductive invariant needs `EveryTaskProgresses` (a
  batch past the tree is not empty, past the upload it is in S3, and answers are
  sent inside it) and `Spawned` (a task runs for a block that was mined, so that a
  new block's task overwrites none).
* `ProofsAreNeverLost`: `NoProofLost` counts the places of a proof, and is not
  inductive: it says nothing of proofs that are not accepted yet, so it cannot
  exclude that one of them is in the queue already when it is appended, nor that a
  task which takes a new batch still owes answers for its old one. `PlacesInv`
  says both. `EveryProofLocated`: no proof is in two places or twice in one
  (`NotInTwoPlaces`), and one that is anywhere was read from its client (`Known`),
  which a proof about to be appended was not, since clients' messages are distinct.
  `IdleTasksHoldNothing`: a task outside `build` to `answer` has answered the whole
  of its last batch. `QueueSplit` says where the proofs of the queue are after
  `is_batch_ready`, wherever it cuts; the other steps that move a proof are
  `AddToBatchEffect` and `SendResponseLocates`.
* `BatcherImplementsService`: initial states map to initial states, and every step
  to a step of `ProofService` or a stutter. `HeldMeans` puts "held" as a place in
  the queue or in a live task's batch, `StatusKept` reduces what a client sees to
  three facts, and there is one lemma for each kind of step: `AddToBatchTakes`,
  `UploadPublishes`, `CreateTaskCreates`, `SendResponseAnswers`, `FailuresDrop`,
  `RestartForgets`, and `IsBatchReadyUnseen` and `QuietStepsUnseen` for what no
  client sees. That an answered proof was held until then, and that an upload is
  made of held proofs, is where `PlacesInv` is needed again.

`ProofPath_proofs` covers proofs, keys and buffers of every size. Assumptions:
`SizeAssumption` (sizes are naturals, the library takes no more than the buffer)
and `DataAssumption` (what is absent or empty does not decode; a key is shorter
than the range of `uint32`).

* `NamesRoundTrip`: the name serde writes leads to the same system.
* `OffsetsExact`: when the declared lengths add up to the key's, as the batcher
  requires, no offset wraps around and the operator cuts in the same places.
* `VerifiersAlwaysAgree`: by cases on the proving system, from these two.

`Operator_proofs` covers every number of operators, batches, proofs in a batch,
calls, breaks and faults. Assumptions: those of the contract and the verifiers,
`OperatorAssumption` (there is a root, what is behind a pointer is an object,
limits are naturals), and `StakedAssumption` (nobody is no quorum: the registries
keep some stake), which only `VerifiedBatchesAccepted` uses.

* `StepKinds` sorts the steps by who makes them, and a lemma for each kind says
  what it leaves alone; every later proof is by these kinds.
* `OperatorTypeCorrect`: the types need that a sender that has not ended has a
  call left, and that no connection is noticed as broken before it breaks.
* `SignedBatchesAccepted`, `ChannelsCloseLast`, `RoomInChannels`: the inductive
  invariant is `BatchInOrder`. The three properties speak of the channel at one
  moment; the invariant says how it got there: no more verdicts than verifiers
  that have ended, the channel closed behind the last, and, while the loop works on
  the batch, every refusal still in the channel. So an empty and closed channel
  means that all were acceptances, and a running verifier finds room.
* `OperatorsUseContract`: each step is a step of the contract or leaves it alone.
  `VerifiedBatchesAccepted` joins the contract's `QuorumSafety` with
  `SignedBatchesAccepted`: a verified batch has a quorum, a quorum has a signer,
  and a signer has accepted every proof. `OperatorsImplementPromise` carries over
  the refinement, the log and the ledger.
* `BreaksAreCheap`, with finitely many batches and an aggregator that does not go
  down: without the first, a client may be replaced by stale connections without
  bound, and without the second, calls fail with no break at all. The calls a sender
  has made do not show what it may still lose, so the invariant `CallsInv` adds that
  up: `Unnoticed`, a call on a connection whose end nobody has noticed; `Redials`,
  the call that finds the client shut down; and `Restorers`, the other senders about
  to put a broken connection back, each of which may cost one call. The sum is at
  most two for each break and one for each other batch and break but the first.
  `OwnMove`, `OthersMove` and `BreakCost` say what the step of the sender, the step
  of another and a break do to it; `RestorersCount` counts. `NobodyGivesUpEarly`
  draws the consequence for `MaxRetries`.

`TaskSender_proofs` covers any number of processes, commands and proofs.
Assumptions: those of the contract, and `StartsAssumption` (what commands can make
is in `Roots`). The inductive invariant `SenderInv` ties the place of a process
to what holds there: `OnItsWay` and `ReadsItsFiles` for the types of what is read,
`Sending` for the rest: from the upload on the object is in the store, from the
estimation on the root is none the process has reported, and when its transaction
is out of the pool the task exists, whoever created it. Hence `SuccessIsOnChain`,
`RootsReportedOnce` and `DataIsThere`. `SentProofsAccepted` needs a second
invariant, `FilesInv`, about contents: `OwnFiles` says that what a directory's only
infinite sender has written and read so far is of the setup it made last, and
`GivenFiles` that what the others send is what their flags name. Its assumption
`PackedFits` says of the sizes what the source's constants satisfy: the buffers are
not empty, and a key of three bytes behind its header fits in `uint32`. The property
is about files that fit each other and says nothing of others: files that do not
are sent as they are, and refused by the operators. `SendersUseContract` and
`SendersImplementPromise` do for the contract what their namesakes do elsewhere.

`Startup_proofs` covers any processes, configurations, keys and addresses.
Assumptions: `StartupAssumption` (the shape of `Proc`, and that each process loads
one of the key pairs) and `NobodyAssumption`. The inductive invariant `StartupInv`
adds to the types:

* `InPlace`: a process is only where its command leads, and only positive amounts
  are deposited, without which a stake would not stay a natural number;
* `KeysHaveSource`: whoever is or was registered has a BLS key, and it came from a
  process that registers this ECDSA key. This is what excludes that the registries
  refuse a BLS key that nobody else has (`MinedEffect`);
* `PastRegistration`: what `RunningIsRegistered` says, from `dial` on. That it stays
  true is `RegistryRemembers`: who has been in the registry is there or among those
  who left, and no BLS key is replaced;
* `ServersStarted`: a process that does not serve has nothing pending and owns
  nothing; one that serves has each of its addresses in exactly one of the two
  (`ServersBegin`, `SocketTaken`, `EndKeepsServers`).

Every safety invariant, action property and refinement a passing run checks is one
of these theorems. Only model-checked: liveness (`CallsReturn`, `RespondersEnd`,
`QuorumReachesChain`, `MessagesAreQueued`, `QueueDrains`, `SignatureArrives`,
`BatchIsVerified`, `InfiniteKeepsSending`, `OperatorComesUp`), which is out of the
prover's reach, and the counterexamples.

## 6. Not modelled, and the plan

Not modelled:

* the client's command line: a short-lived program; what it checks on chain is
  `VerifyBatchInclusion`, its wait for responses is bounded by nothing the other
  modules promise (after a refused message the batcher never answers);
* the explorer and the alert script: they read the chain, and nothing reads them;
* commitments and Merkle paths: hashes and a library's tree; `Batcher` keeps which
  leaf is whose, and the contract's walk is a parameter;
* the cryptography inside the verifiers; `merkle_tree` and `risc_zero` under
  `operator/`, which nothing calls;
* generated bindings, deployment scripts, the mock token;
* data races as such: the unsynchronised reads and writes of `rpcClient` are
  taken to be whole (a pointer), in any order.

Done: contract, aggregator, batcher, operator, verifiers, task sender, start-up,
each with proofs. What is left, in this order:

1. `AlignedSystem`: batcher, operators and aggregator in one module, refining
   `BatchVerification` from the client's message to the inclusion proof. Its parts
   meet pairwise already: contract with aggregator, contract with operators,
   batcher's verdict with operator's;
2. the client against `ProofService`: submissions, responses counted, refusals;
3. the explorer's window and the alerts' flags over the log.
