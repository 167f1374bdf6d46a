------------------------------ MODULE Batcher ------------------------------
(***************************************************************************)
(* The batcher.  It takes proofs from clients over websockets into one     *)
(* queue, and for every block a task of its own (handle_new_block) takes   *)
(* batches from the queue for as long as there is one to post, uploads     *)
(* each to S3, creates its verification task in the contract and answers   *)
(* the clients.  The tasks of several blocks run at once.                  *)
(*                                                                         *)
(* The two async mutexes, batch_queue and last_uploaded_batch_block, are   *)
(* variables because both are held across awaits: is_batch_ready holds the *)
(* first while it waits for the second, finalize_batch holds the second    *)
(* during the upload and the transaction.                                  *)
(*                                                                         *)
(* A batch is the sequence of its messages and a Merkle root is the        *)
(* sequence of the commitments below it: roots collide only for batches    *)
(* with equal contents.  handle_new_block never waits for BatchVerified    *)
(* (it passes wait_for_verification = false), so that branch of            *)
(* finalize_batch is not reachable.  External: S3 (stored) and the         *)
(* contract (tasks).                                                       *)
(***************************************************************************)
EXTENDS Integers, SequencesExt

CONSTANTS Clients,            \* websocket connections
          Messages,           \* VerificationData messages
          sends,              \* sends[c]: what client c sends, in order
          content,            \* content[m]: what the commitment of m depends on
          acceptable,         \* the messages that pass the checks of handle_message
          Sizes,              \* sizes a message can have as JSON
          max_batch_size, min_batch_len, max_block_interval,
          MaxBlock,           \* bound: the last block
          Faults,             \* the faults that may happen
          Free                \* the owner of an unlocked mutex

Blocks == 1..MaxBlock

ASSUME BatcherAssumption ==
    /\ sends \in [Clients -> Seq(Messages)]
    /\ \A c, d \in Clients : \A i \in DOMAIN sends[c], j \in DOMAIN sends[d] :
          sends[c][i] = sends[d][j] => c = d /\ i = j
    /\ acceptable \subseteq Messages
    /\ Sizes \subseteq Nat
    /\ max_batch_size \in Nat /\ min_batch_len \in Nat /\ max_block_interval \in Nat
    /\ MaxBlock \in Nat
    /\ Free \notin Nat

VARIABLES block,              \* number of the newest block
          listening,          \* whether the block subscription is open
          read,               \* read[c]: messages of c handled so far
          waiting,            \* waiting[c]: whether c's next message is in add_to_batch
          open,               \* open[c]: whether the batcher still reads from c
          accepted,           \* history: the messages queued in this life
          batch_queue, queueLock,
          last_uploaded_batch_block, lastLock,
          worker,             \* worker[b]: the handle_new_block task of block b
          stored,             \* the batches in S3, by root
          tasks,              \* the tasks in the contract, by root
          answers,            \* history: the inclusion data sent to clients
          size                \* size[m]: the length of m as JSON

connections == <<read, waiting, open, accepted>>
service == <<stored, tasks, answers>>
vars == <<block, listening, connections, batch_queue, queueLock,
          last_uploaded_batch_block, lastLock, worker, service, size>>

WorkerStates ==
    {"none", "start", "check", "build", "submit", "upload", "create", "answer", "done", "lost"}

Worker == [pc : WorkerStates, batch : Seq(Messages), pos : Nat]
NoWorker == [pc |-> "none", batch |-> <<>>, pos |-> 0]

Roots == Seq({content[m] : m \in Messages})
Answers == [message : Messages, root : Roots, index : Nat]

BatcherTypeOK ==
    /\ block \in 0..MaxBlock /\ listening \in BOOLEAN
    /\ read \in [Clients -> Nat] /\ \A c \in Clients : read[c] <= Len(sends[c])
    /\ waiting \in [Clients -> BOOLEAN]
    /\ \A c \in Clients : waiting[c] => read[c] < Len(sends[c])
    /\ open \in [Clients -> BOOLEAN]
    /\ accepted \subseteq Messages
    /\ batch_queue \in Seq(Messages)
    /\ queueLock \in Blocks \cup {Free} /\ lastLock \in Blocks \cup {Free}
    /\ last_uploaded_batch_block \in 0..block
    /\ worker \in [Blocks -> Worker]
    /\ \A b \in Blocks : worker[b].pos <= Len(worker[b].batch)
    /\ stored \subseteq Roots /\ tasks \subseteq stored
    /\ answers \subseteq Answers
    /\ size \in [acceptable -> Sizes]

\* Batcher::new at block 0.
Init ==
    /\ block = 0 /\ listening = TRUE
    /\ read = [c \in Clients |-> 0]
    /\ waiting = [c \in Clients |-> FALSE]
    /\ open = [c \in Clients |-> TRUE]
    /\ accepted = {}
    /\ batch_queue = <<>> /\ queueLock = Free
    /\ last_uploaded_batch_block = 0 /\ lastLock = Free
    /\ worker = [b \in Blocks |-> NoWorker]
    /\ stored = {} /\ tasks = {} /\ answers = {}
    /\ size \in [acceptable -> Sizes]
-----------------------------------------------------------------------------
(***************************************************************************)
(* Connections.                                                            *)
(***************************************************************************)
\* handle_message up to the lock of the queue.  A message that is too large or
\* does not verify is an error that ends the loop over the connection.
HandleMessage(c) ==
    /\ open[c] /\ ~waiting[c]
    /\ read[c] < Len(sends[c])
    /\ IF sends[c][read[c] + 1] \in acceptable
       THEN waiting' = [waiting EXCEPT ![c] = TRUE] /\ UNCHANGED open
       ELSE open' = [open EXCEPT ![c] = FALSE] /\ UNCHANGED waiting
    /\ UNCHANGED <<block, listening, read, accepted, batch_queue, queueLock,
                   last_uploaded_batch_block, lastLock, worker, service, size>>

\* add_to_batch, once it has the queue.
AddToBatch(c) ==
    LET m == sends[c][read[c] + 1] IN
    /\ waiting[c]
    /\ queueLock = Free
    /\ batch_queue' = Append(batch_queue, m)
    /\ accepted' = accepted \cup {m}
    /\ read' = [read EXCEPT ![c] = @ + 1]
    /\ waiting' = [waiting EXCEPT ![c] = FALSE]
    /\ UNCHANGED <<block, listening, open, queueLock, last_uploaded_batch_block,
                   lastLock, worker, service, size>>
-----------------------------------------------------------------------------
(***************************************************************************)
(* Blocks.                                                                 *)
(***************************************************************************)
\* A block is mined; listen_new_blocks, if its stream has not ended, spawns a
\* task for it.
NewBlock ==
    /\ block < MaxBlock
    /\ block' = block + 1
    /\ worker' = IF listening THEN [worker EXCEPT ![block + 1].pc = "start"] ELSE worker
    /\ UNCHANGED <<listening, connections, batch_queue, queueLock,
                   last_uploaded_batch_block, lastLock, service, size>>

\* The stream of blocks ends, and listen_new_blocks with it; nothing notices.
StreamEnds ==
    /\ "stream" \in Faults
    /\ listening' = FALSE
    /\ UNCHANGED <<block, connections, batch_queue, queueLock,
                   last_uploaded_batch_block, lastLock, worker, service, size>>

\* The process is restarted: it forgets the queue, its clients and its tasks
\* and takes the current block for that of the last batch.
Restart ==
    /\ "restart" \in Faults
    /\ listening' = TRUE
    /\ open' = [c \in Clients |-> open[c] /\ read[c] = 0 /\ ~waiting[c]]
    /\ waiting' = [c \in Clients |-> FALSE]
    /\ accepted' = {}
    /\ batch_queue' = <<>> /\ queueLock' = Free
    /\ last_uploaded_batch_block' = block /\ lastLock' = Free
    /\ worker' = [b \in Blocks |-> NoWorker]
    /\ UNCHANGED <<block, read, service, size>>
-----------------------------------------------------------------------------
(***************************************************************************)
(* is_batch_ready.                                                         *)
(***************************************************************************)
SumOfSizes(s) == FoldLeft(LAMBDA n, m : n + size[m], 0, s)

\* The length of the array of s in JSON: two brackets, and commas between.
JsonSize(s) == SumOfSizes(s) + (IF s = <<>> THEN 2 ELSE Len(s) + 1)

\* How many messages the loop over the queue leaves in front of the one that
\* passes max_batch_size; none when no message does.
SplitIndex(s) ==
    LET past == {i \in DOMAIN s : SumOfSizes(SubSeq(s, 1, i)) > max_batch_size} IN
    IF past = {} THEN 0 ELSE Min(past) - 1

NotReady(b) ==
    \/ Len(batch_queue) < 2
    \/ /\ Len(batch_queue) < min_batch_len
       /\ b < last_uploaded_batch_block + max_block_interval

\* How much of the queue becomes the batch.
Taken == IF JsonSize(batch_queue) > max_batch_size THEN SplitIndex(batch_queue)
                                                   ELSE Len(batch_queue)

LockQueue(b) ==
    /\ worker[b].pc = "start"
    /\ queueLock = Free
    /\ queueLock' = b
    /\ worker' = [worker EXCEPT ![b].pc = "check"]
    /\ UNCHANGED <<block, listening, connections, batch_queue,
                   last_uploaded_batch_block, lastLock, service, size>>

\* Mutant: the queue is copied but not cleared.
IsBatchReady_NotCleared(b) ==
    /\ worker[b].pc = "check"
    /\ lastLock = Free
    /\ IF NotReady(b)
       THEN /\ worker' = [worker EXCEPT ![b].pc = "done"]
            /\ UNCHANGED batch_queue
       ELSE /\ worker' = [worker EXCEPT ![b] =
                   [pc |-> "build", batch |-> SubSeq(batch_queue, 1, Taken), pos |-> 0]]
            /\ batch_queue' = IF Taken = Len(batch_queue) THEN batch_queue
                              ELSE SubSeq(batch_queue, Taken + 1, Len(batch_queue))
    /\ queueLock' = Free
    /\ UNCHANGED <<block, listening, connections, last_uploaded_batch_block, lastLock,
                   service, size>>

\* Mutant: what stays in the queue begins one message too late.
IsBatchReady_SkipsOne(b) ==
    /\ worker[b].pc = "check"
    /\ lastLock = Free
    /\ IF NotReady(b)
       THEN /\ worker' = [worker EXCEPT ![b].pc = "done"]
            /\ UNCHANGED batch_queue
       ELSE /\ worker' = [worker EXCEPT ![b] =
                   [pc |-> "build", batch |-> SubSeq(batch_queue, 1, Taken), pos |-> 0]]
            /\ batch_queue' = SubSeq(batch_queue, Taken + 2, Len(batch_queue))
    /\ queueLock' = Free
    /\ UNCHANGED <<block, listening, connections, last_uploaded_batch_block, lastLock,
                   service, size>>

\* Mutant: it goes on holding last_uploaded_batch_block with the batch.
IsBatchReady_KeepsLast(b) ==
    /\ worker[b].pc = "check"
    /\ lastLock = Free
    /\ IF NotReady(b)
       THEN /\ worker' = [worker EXCEPT ![b].pc = "done"]
            /\ UNCHANGED <<batch_queue, lastLock>>
       ELSE /\ worker' = [worker EXCEPT ![b] =
                   [pc |-> "build", batch |-> SubSeq(batch_queue, 1, Taken), pos |-> 0]]
            /\ batch_queue' = SubSeq(batch_queue, Taken + 1, Len(batch_queue))
            /\ lastLock' = b
    /\ queueLock' = Free
    /\ UNCHANGED <<block, listening, connections, last_uploaded_batch_block, service, size>>

\* With the queue locked it waits for last_uploaded_batch_block, decides, and
\* lets go of both.
IsBatchReady(b) ==
    /\ worker[b].pc = "check"
    /\ lastLock = Free
    /\ IF NotReady(b)
       THEN /\ worker' = [worker EXCEPT ![b].pc = "done"]
            /\ UNCHANGED batch_queue
       ELSE /\ worker' = [worker EXCEPT ![b] =
                   [pc |-> "build", batch |-> SubSeq(batch_queue, 1, Taken), pos |-> 0]]
            /\ batch_queue' = SubSeq(batch_queue, Taken + 1, Len(batch_queue))
    /\ queueLock' = Free
    /\ UNCHANGED <<block, listening, connections, last_uploaded_batch_block, lastLock,
                   service, size>>
-----------------------------------------------------------------------------
(***************************************************************************)
(* finalize_batch.                                                         *)
(***************************************************************************)
Root(s) == [i \in DOMAIN s |-> content[s[i]]]

elsewhere == <<block, listening, connections, batch_queue, queueLock, size>>

\* MerkleTree::build panics on an empty batch, and the subscription to
\* BatchVerified may fail; the task ends and its batch is nowhere else.
BuildFails(b) ==
    /\ worker[b].pc = "build"
    /\ worker[b].batch = <<>> \/ "events" \in Faults
    /\ worker' = [worker EXCEPT ![b].pc = "lost"]
    /\ UNCHANGED <<elsewhere, last_uploaded_batch_block, lastLock, service>>

Build(b) ==
    /\ worker[b].pc = "build"
    /\ worker[b].batch # <<>>
    /\ worker' = [worker EXCEPT ![b].pc = "submit"]
    /\ UNCHANGED <<elsewhere, last_uploaded_batch_block, lastLock, service>>

LockLast(b) ==
    /\ worker[b].pc = "submit"
    /\ lastLock = Free
    /\ lastLock' = b
    /\ worker' = [worker EXCEPT ![b].pc = "upload"]
    /\ UNCHANGED <<elsewhere, last_uploaded_batch_block, service>>

Upload(b) ==
    /\ worker[b].pc = "upload"
    /\ stored' = stored \cup {Root(worker[b].batch)}
    /\ worker' = [worker EXCEPT ![b].pc = "create"]
    /\ UNCHANGED <<elsewhere, last_uploaded_batch_block, lastLock, tasks, answers>>

\* Mutant: a failed upload is only logged.
UploadFails_Logged(b) ==
    /\ worker[b].pc = "upload"
    /\ "s3" \in Faults
    /\ worker' = [worker EXCEPT ![b].pc = "create"]
    /\ UNCHANGED <<elsewhere, last_uploaded_batch_block, lastLock, service>>

\* Mutant: the panic of the upload leaves the mutex locked.
UploadFails_StillLocked(b) ==
    /\ worker[b].pc = "upload"
    /\ "s3" \in Faults
    /\ worker' = [worker EXCEPT ![b].pc = "lost"]
    /\ UNCHANGED <<elsewhere, last_uploaded_batch_block, lastLock, service>>

\* The upload fails and the expect panics; the guard of the mutex is dropped.
UploadFails(b) ==
    /\ worker[b].pc = "upload"
    /\ "s3" \in Faults
    /\ lastLock' = Free
    /\ worker' = [worker EXCEPT ![b].pc = "lost"]
    /\ UNCHANGED <<elsewhere, last_uploaded_batch_block, service>>

\* Mutant: the first inclusion proof is skipped.
CreateTask_SkipsFirst(b) ==
    /\ worker[b].pc = "create"
    /\ \/ tasks' = tasks \cup {Root(worker[b].batch)}
       \/ "tx" \in Faults /\ UNCHANGED tasks
    /\ last_uploaded_batch_block' = b
    /\ lastLock' = Free
    /\ worker' = [worker EXCEPT ![b] = [@ EXCEPT !.pc = "answer", !.pos = 1]]
    /\ UNCHANGED <<elsewhere, stored, answers>>

\* create_new_task: its error, a transaction that is not sent, reverts because
\* the root has a task, or has no receipt, is logged and changes nothing.
CreateTask(b) ==
    /\ worker[b].pc = "create"
    /\ \/ tasks' = tasks \cup {Root(worker[b].batch)}
       \/ "tx" \in Faults /\ UNCHANGED tasks
    /\ last_uploaded_batch_block' = b
    /\ lastLock' = Free
    /\ worker' = [worker EXCEPT ![b].pc = "answer"]
    /\ UNCHANGED <<elsewhere, stored, answers>>

\* Mutant: indices are counted from 1.
InclusionData_FromOne(w) ==
    [message |-> w.batch[w.pos + 1], root |-> Root(w.batch), index |-> w.pos + 1]

InclusionData(w) ==
    [message |-> w.batch[w.pos + 1], root |-> Root(w.batch), index |-> w.pos]

\* Mutant: handle_new_block takes one batch per block.
SendResponse_OneBatch(b) ==
    LET w == worker[b] IN
    /\ w.pc = "answer"
    /\ answers' = answers \cup {InclusionData(w)}
    /\ worker' = [worker EXCEPT ![b] = [w EXCEPT
          !.pos = w.pos + 1,
          !.pc = IF w.pos + 1 = Len(w.batch) THEN "done" ELSE "answer"]]
    /\ UNCHANGED <<elsewhere, last_uploaded_batch_block, lastLock, stored, tasks>>

\* send_batch_inclusion_data_responses, one message at a time; after the last
\* one the loop of handle_new_block goes on, with the same block number.
SendResponse(b) ==
    LET w == worker[b] IN
    /\ w.pc = "answer"
    /\ answers' = answers \cup {InclusionData(w)}
    /\ worker' = [worker EXCEPT ![b] = [w EXCEPT
          !.pos = w.pos + 1,
          !.pc = IF w.pos + 1 = Len(w.batch) THEN "start" ELSE "answer"]]
    /\ UNCHANGED <<elsewhere, last_uploaded_batch_block, lastLock, stored, tasks>>
-----------------------------------------------------------------------------
\* A step of the handle_new_block of block b.
HandleNewBlock(b) ==
    \/ LockQueue(b)
    \/ IsBatchReady(b)
    \/ BuildFails(b)
    \/ Build(b)
    \/ LockLast(b)
    \/ Upload(b)
    \/ UploadFails(b)
    \/ CreateTask(b)
    \/ SendResponse(b)

Next ==
    \/ \E c \in Clients : HandleMessage(c) \/ AddToBatch(c)
    \/ NewBlock
    \/ StreamEnds
    \/ Restart
    \/ \E b \in Blocks : HandleNewBlock(b)

Spec == Init /\ [][Next]_vars

(***************************************************************************)
(* Fairness.  Blocks keep coming, a task that can run does, and a call to  *)
(* S3 or Ethereum ends.  Tokio's mutexes queue their waiters, so whoever   *)
(* waits for one that is released again and again gets it: hence strong    *)
(* fairness of the tasks, which is only more than weak where they wait.    *)
(***************************************************************************)
Fairness ==
    /\ WF_vars(NewBlock)
    /\ \A c \in Clients : SF_vars(AddToBatch(c))
    /\ \A b \in Blocks : SF_vars(HandleNewBlock(b))

FairSpec == Spec /\ Fairness
-----------------------------------------------------------------------------
\* Every proof the batcher took is in exactly one place and once: in the queue,
\* in the batch of one task that has yet to answer it, or answered.  However
\* the tasks of several blocks interleave, splitting and clearing the queue
\* neither drops nor duplicates a proof; the only ones that are never answered
\* are in the batch of a task that panicked or returned an error.
InQueue(m) == {i \in DOMAIN batch_queue : batch_queue[i] = m}
Pending(m) == UNION {LET w == worker[b] IN
                         {<<b, i>> : i \in {j \in w.pos + 1..Len(w.batch) : w.batch[j] = m}} :
                     b \in Blocks}
AnswersTo(m) == {x \in answers : x.message = m}

NoProofLost ==
    \A m \in accepted :
        Cardinality(InQueue(m)) + Cardinality(Pending(m)) + Cardinality(AnswersTo(m)) = 1

(***************************************************************************)
(* What the batcher promises, as ProofService.                             *)
(***************************************************************************)
\* A message that add_to_batch has taken from its client, in this life or an
\* earlier one; and one that can still be answered: it is in the queue or in the
\* batch of a task that has not ended with an error.
Known(m) == \E c \in Clients : \E i \in 1..read[c] : sends[c][i] = m
Held(m) == InQueue(m) # {} \/ \E p \in Pending(m) : worker[p[1]].pc # "lost"

Status(m) == CASE AnswersTo(m) # {} -> "answered"
               [] AnswersTo(m) = {} /\ Held(m) -> "held"
               [] AnswersTo(m) = {} /\ ~Held(m) /\ Known(m) -> "lost"
               [] OTHER -> "outside"

Service == INSTANCE ProofService WITH
    MayDrop <- Faults \cap {"s3", "events"} # {},
    MayForget <- "restart" \in Faults,
    status <- [m \in Messages |-> Status(m)],
    published <- stored

\* What clients see of the batcher is ProofService, however its tasks interleave
\* and fail: a proof that was taken is answered at most once, for a batch in S3
\* made of proofs that were held when it was uploaded; only a failed upload or
\* subscription drops any, and only a restart forgets them.
ImplementsService == Service!Spec

\* Inclusion data that a client holds can be checked: the batch is in S3 under
\* the root it names and has the client's commitment at the index it names.
\* Clients verify the Merkle proof against the contract, and operators can
\* only sign what they can download.
AnswerIsRetrievable ==
    \A x \in answers :
        /\ x.root \in stored
        /\ x.index + 1 \in DOMAIN x.root
        /\ x.root[x.index + 1] = content[x.message]

\* A mutex is only held inside its critical section, whatever fails there: a
\* lock that outlived a panic would stop every later block and connection.
LocksHeldInside ==
    \A b \in Blocks :
        /\ queueLock = b <=> worker[b].pc = "check"
        /\ lastLock = b <=> worker[b].pc \in {"upload", "create"}

\* A message that reached add_to_batch gets into the queue, although the queue
\* may be locked for the whole of another task's upload and transaction.
MessagesAreQueued == \A c \in Clients : waiting[c] ~> ~waiting[c]

\* A queue that is long enough is posted by the task of some later block, in as
\* many batches as it needs, whether or not transactions fail; unless it has
\* come to a length at which is_batch_ready splits off nothing.
Stuck == JsonSize(batch_queue) > max_batch_size /\ SplitIndex(batch_queue) = 0

QueueDrains ==
    Len(batch_queue) >= min_batch_len /\ block < MaxBlock
        ~> Len(batch_queue) < min_batch_len \/ Stuck
-----------------------------------------------------------------------------
(***************************************************************************)
(* What comments of the code say and the code does not do.                 *)
(***************************************************************************)
\* is_batch_ready: "An extra sanity check is made to check if the batch size is
\* 0, since it does not make sense to post an empty batch".
NeverFinalizeEmpty == \A b \in Blocks : worker[b].pc = "build" => worker[b].batch # <<>>

\* finalize_batch: "The last uploaded batch block is updated once the task is
\* created in Aligned".
LastUploadedOnceCreated ==
    [][\A b \in Blocks :
          worker[b].pc = "create" /\ last_uploaded_batch_block' # last_uploaded_batch_block
              => Root(worker[b].batch) \in tasks']_<<last_uploaded_batch_block, worker, tasks>>
=============================================================================
