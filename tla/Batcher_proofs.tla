--------------------------- MODULE Batcher_proofs ---------------------------
(***************************************************************************)
(* Proofs about the batcher, for every set of clients and messages, every  *)
(* size of a batch, every number of blocks and every combination of faults. *)
(***************************************************************************)
EXTENDS Batcher, FiniteSetTheorems, SequenceTheorems, WellFoundedInduction, TLAPS

\* A task that is under way belongs to a block that was mined.
Spawned == \A b \in Blocks : worker[b].pc # "none" => b <= block

\* How far a task has got with its batch: past MerkleTree::build it is not
\* empty, past the upload it is in S3, and no client has its answer before the
\* transaction.
Progress(b) ==
    LET w == worker[b] IN
    /\ w.pc \in {"build", "submit", "upload", "create"} => w.pos = 0
    /\ w.pc \in {"submit", "upload", "create"} => w.batch # <<>>
    /\ w.pc \in {"create", "answer"} => Root(w.batch) \in stored
    /\ w.pc = "answer" => w.pos < Len(w.batch)

EveryTaskProgresses == \A b \in Blocks : Progress(b)

BatcherInv ==
    /\ BatcherTypeOK
    /\ LocksHeldInside
    /\ Spawned
    /\ EveryTaskProgresses
    /\ AnswerIsRetrievable
-----------------------------------------------------------------------------
\* The order of the naturals as a relation.
Below == {p \in Nat \X Nat : p[1] < p[2]}

\* A nonempty set of naturals, as that of the places where the loop of
\* is_batch_ready may stop, has a least element.
LEMMA MinInSet ==
    ASSUME NEW S, S \subseteq Nat, S # {}
    PROVE  Min(S) \in S
  <1>1. OpToRel(<, Nat) = Below
    BY DEF OpToRel, Below
  <1>2. IsWellFoundedOn(Below, Nat)
    BY <1>1, NatLessThanWellFounded, Zenon
  <1>3. PICK x \in S : \A y \in S : ~(<<y, x>> \in Below)
    BY <1>2, WFMin
  <1>4. ASSUME NEW y \in S
        PROVE  x <= y
    <2>1. x \in Nat /\ y \in Nat /\ <<y, x>> \in Nat \X Nat
      OBVIOUS
    <2>2. ~(<<y, x>>[1] < <<y, x>>[2])
      BY <1>3, <2>1 DEF Below
    <2> QED
      BY <2>1, <2>2
  <1> QED
    BY <1>4 DEF Min

\* is_batch_ready takes a prefix of the queue, wherever it splits it.
LEMMA TakenInQueue ==
    ASSUME batch_queue \in Seq(Messages)
    PROVE  Taken \in 0..Len(batch_queue)
  <1> DEFINE past == {i \in DOMAIN batch_queue :
                         SumOfSizes(SubSeq(batch_queue, 1, i)) > max_batch_size}
  <1>1. Len(batch_queue) \in Nat /\ past \subseteq 1..Len(batch_queue)
    OBVIOUS
  <1>2. SplitIndex(batch_queue) = IF past = {} THEN 0 ELSE Min(past) - 1
    BY DEF SplitIndex
  <1> HIDE DEF past
  <1>3. CASE past = {}
    BY <1>1, <1>2, <1>3 DEF Taken
  <1>4. CASE past # {}
    <2>1. past \subseteq Nat
      BY <1>1
    <2>2. Min(past) \in past
      BY <1>4, <2>1, MinInSet
    <2> QED
      <3>1. SplitIndex(batch_queue) = Min(past) - 1
        BY <1>2, <1>4
      <3>2. Min(past) \in 1..Len(batch_queue)
        BY <1>1, <2>2
      <3> QED
        BY <1>1, <3>1, <3>2 DEF Taken
  <1> QED
    BY <1>3, <1>4

\* Cutting the queue gives two queues.
LEMMA CutTyped ==
    ASSUME batch_queue \in Seq(Messages)
    PROVE  /\ SubSeq(batch_queue, 1, Taken) \in Seq(Messages)
           /\ SubSeq(batch_queue, Taken + 1, Len(batch_queue)) \in Seq(Messages)
  <1>1. Taken \in 0..Len(batch_queue) /\ Len(batch_queue) \in Nat
    BY TakenInQueue
  <1>2. \A i \in 1..Len(batch_queue) : batch_queue[i] \in Messages
    OBVIOUS
  <1> QED
    BY <1>1, <1>2, SubSeqProperties

\* The root of a batch names one commitment for each of its messages.
LEMMA RootTyped ==
    ASSUME NEW s \in Seq(Messages)
    PROVE  /\ Root(s) \in Roots
           /\ DOMAIN Root(s) = 1..Len(s)
           /\ \A i \in 1..Len(s) : Root(s)[i] = content[s[i]]
  <1>1. Len(s) \in Nat /\ DOMAIN s = 1..Len(s) /\ \A i \in 1..Len(s) : s[i] \in Messages
    OBVIOUS
  <1>2. Root(s) = [i \in 1..Len(s) |-> content[s[i]]]
    BY <1>1 DEF Root
  <1>3. Root(s) \in [1..Len(s) -> {content[m] : m \in Messages}]
    BY <1>1, <1>2
  <1>4. Root(s) \in Seq({content[m] : m \in Messages})
    BY <1>1, <1>3, SeqDef
  <1> QED
    BY <1>2, <1>4 DEF Roots
-----------------------------------------------------------------------------
\* The batcher starts with nothing done.
LEMMA InvInit == Init => BatcherInv
  <1> SUFFICES ASSUME Init PROVE BatcherInv
    OBVIOUS
  <1> USE BatcherAssumption DEF Init
  <1>1. NoWorker \in Worker /\ Len(NoWorker.batch) = 0 /\ NoWorker.pos = 0
        /\ NoWorker.pc = "none"
    BY DEF NoWorker, Worker, WorkerStates
  <1>2. BatcherTypeOK
    BY <1>1 DEF BatcherTypeOK, Blocks
  <1>3. LocksHeldInside
    BY <1>1 DEF LocksHeldInside, Blocks
  <1>4. Spawned /\ EveryTaskProgresses /\ AnswerIsRetrievable
    BY <1>1 DEF Spawned, EveryTaskProgresses, Progress, AnswerIsRetrievable
  <1> QED
    BY <1>2, <1>3, <1>4 DEF BatcherInv
-----------------------------------------------------------------------------
\* The tasks have types, and none is past the end of its batch.
WorkersTyped ==
    /\ worker \in [Blocks -> Worker]
    /\ \A b \in Blocks : worker[b].pos <= Len(worker[b].batch)

\* A task that only moves on keeps its batch and its place in it.
LEMMA TaskMoves ==
    ASSUME WorkersTyped, NEW b \in Blocks, NEW pc \in WorkerStates,
           worker' = [worker EXCEPT ![b].pc = pc]
    PROVE  /\ WorkersTyped'
           /\ \A d \in Blocks :
                 /\ worker'[d].batch = worker[d].batch /\ worker'[d].pos = worker[d].pos
                 /\ worker'[d].pc = IF d = b THEN pc ELSE worker[d].pc
  <1> USE DEF WorkersTyped
  <1>1. [worker[b] EXCEPT !.pc = pc] \in Worker
    BY DEF Worker
  <1>2. worker' = [worker EXCEPT ![b] = [worker[b] EXCEPT !.pc = pc]]
    OBVIOUS
  <1>3. worker' \in [Blocks -> Worker]
    BY <1>1, <1>2
  <1>4. ASSUME NEW d \in Blocks
        PROVE  /\ worker'[d].batch = worker[d].batch /\ worker'[d].pos = worker[d].pos
               /\ worker'[d].pc = IF d = b THEN pc ELSE worker[d].pc
    BY <1>2 DEF Worker
  <1> QED
    BY <1>3, <1>4

\* A task that gets a batch, or moves on in it, is the only one that changes.
LEMMA TaskReplaced ==
    ASSUME WorkersTyped, NEW b \in Blocks, NEW w \in Worker, w.pos <= Len(w.batch),
           worker' = [worker EXCEPT ![b] = w]
    PROVE  /\ WorkersTyped'
           /\ \A d \in Blocks : worker'[d] = IF d = b THEN w ELSE worker[d]
  BY DEF WorkersTyped

\* What a task is when it has answered one message more: behind the last one
\* handle_new_block looks at the queue again.
AfterAnswer(w) == [w EXCEPT
    !.pos = w.pos + 1,
    !.pc = IF w.pos + 1 = Len(w.batch) THEN "start" ELSE "answer"]

\* It has the same batch, and its place in it is not past the end.
LEMMA TaskAnswered ==
    ASSUME NEW w \in Worker, w.pos < Len(w.batch)
    PROVE  /\ AfterAnswer(w) \in Worker
           /\ AfterAnswer(w).pos <= Len(AfterAnswer(w).batch)
           /\ AfterAnswer(w).pos = w.pos + 1
           /\ AfterAnswer(w).batch = w.batch
           /\ AfterAnswer(w).pc \in {"start", "answer"}
           /\ AfterAnswer(w).pc = "start" <=> w.pos + 1 = Len(w.batch)
  <1> DEFINE pc == IF w.pos + 1 = Len(w.batch) THEN "start" ELSE "answer"
             u == [w EXCEPT !.pos = w.pos + 1]
             v == [u EXCEPT !.pc = pc]
  <1>1. w.pos \in Nat /\ w.batch \in Seq(Messages) /\ Len(w.batch) \in Nat
    BY DEF Worker
  <1>2. /\ pc \in {"start", "answer"} /\ pc \in WorkerStates
        /\ pc = "start" <=> w.pos + 1 = Len(w.batch)
    BY DEF WorkerStates
  <1>3. u \in Worker /\ u.pos = w.pos + 1 /\ u.batch = w.batch
    BY <1>1 DEF Worker
  <1>4. AfterAnswer(w) = v
    BY DEF AfterAnswer
  <1> HIDE DEF u, pc
  <1>5. v \in Worker /\ v.pc = pc /\ v.pos = w.pos + 1 /\ v.batch = w.batch
    BY <1>2, <1>3 DEF Worker
  <1> HIDE DEF v
  <1>6. v.pos <= Len(v.batch)
    BY <1>1, <1>5
  <1> QED
    BY <1>2, <1>4, <1>5, <1>6

\* This is what send_batch_inclusion_data_responses makes of it.
LEMMA TaskAnswers ==
    ASSUME WorkersTyped, NEW b \in Blocks, SendResponse(b)
    PROVE  /\ worker' = [worker EXCEPT ![b] = AfterAnswer(worker[b])]
           /\ worker'[b] = AfterAnswer(worker[b])
           /\ \A d \in Blocks \ {b} : worker'[d] = worker[d]
  <1>1. worker' = [worker EXCEPT ![b] = AfterAnswer(worker[b])]
    BY DEF SendResponse, AfterAnswer
  <1> QED
    BY <1>1 DEF WorkersTyped
-----------------------------------------------------------------------------
\* Whatever a client sends and whatever block a task works for, the variables
\* keep their types: a cut of the queue is a queue, and the block of the last
\* batch is never past the newest one.
LEMMA TypeStep == BatcherInv /\ [Next]_vars => BatcherTypeOK'
  <1> SUFFICES ASSUME BatcherInv, [Next]_vars PROVE BatcherTypeOK'
    OBVIOUS
  <1> USE BatcherAssumption DEF BatcherTypeOK
  <1>0. BatcherTypeOK /\ WorkersTyped /\ Spawned /\ EveryTaskProgresses /\ AnswerIsRetrievable
    BY DEF BatcherInv, WorkersTyped
  <1>1. ASSUME NEW c \in Clients, HandleMessage(c)
        PROVE  BatcherTypeOK'
    BY <1>0, <1>1 DEF HandleMessage, service
  <1>2. ASSUME NEW c \in Clients, AddToBatch(c)
        PROVE  BatcherTypeOK'
    <2>1. read[c] + 1 \in 1..Len(sends[c]) /\ sends[c] \in Seq(Messages)
      BY <1>0, <1>2 DEF AddToBatch
    <2>2. sends[c][read[c] + 1] \in Messages
      BY <2>1
    <2>3. batch_queue' \in Seq(Messages) /\ accepted' \subseteq Messages
      BY <1>0, <1>2, <2>2 DEF AddToBatch
    <2>4. /\ read' \in [Clients -> Nat] /\ \A d \in Clients : read'[d] <= Len(sends[d])
          /\ waiting' \in [Clients -> BOOLEAN]
          /\ \A d \in Clients : waiting'[d] => read'[d] < Len(sends[d])
      BY <1>0, <1>2, <2>1 DEF AddToBatch
    <2> QED
      BY <1>0, <1>2, <2>3, <2>4 DEF AddToBatch, service
  <1>3. CASE NewBlock
    <2>1. block + 1 \in Blocks /\ block' \in 0..MaxBlock /\ last_uploaded_batch_block' \in 0..block'
      BY <1>0, <1>3 DEF NewBlock, Blocks
    <2>2. WorkersTyped'
      <3>1. CASE listening
        BY <1>0, <1>3, <2>1, <3>1, TaskMoves, "start" \in WorkerStates DEF NewBlock, WorkerStates
      <3>2. CASE ~listening
        BY <1>0, <1>3, <3>2 DEF NewBlock, WorkersTyped
      <3> QED
        BY <3>1, <3>2
    <2> QED
      BY <1>0, <1>3, <2>1, <2>2 DEF WorkersTyped, NewBlock, connections, service
  <1>4. CASE StreamEnds
    BY <1>0, <1>4 DEF StreamEnds, connections, service
  <1>5. CASE Restart
    <2>1. /\ NoWorker \in Worker
          /\ NoWorker.pos <= Len(NoWorker.batch)
      BY DEF NoWorker, Worker, WorkerStates
    <2>2. WorkersTyped'
      BY <1>5, <2>1 DEF Restart, WorkersTyped
    <2> QED
      BY <1>0, <1>5, <2>2 DEF WorkersTyped, Restart, service
  <1>6. ASSUME NEW b \in Blocks, LockQueue(b)
        PROVE  BatcherTypeOK'
    <2>1. WorkersTyped'
      BY <1>0, <1>6, TaskMoves, "check" \in WorkerStates DEF LockQueue, WorkerStates
    <2> QED
      BY <1>0, <1>6, <2>1 DEF WorkersTyped, LockQueue, connections, service
  <1>7. ASSUME NEW b \in Blocks, IsBatchReady(b)
        PROVE  BatcherTypeOK'
    <2>1. /\ SubSeq(batch_queue, 1, Taken) \in Seq(Messages)
          /\ SubSeq(batch_queue, Taken + 1, Len(batch_queue)) \in Seq(Messages)
      BY <1>0, CutTyped
    <2>2. batch_queue' \in Seq(Messages)
      BY <1>0, <1>7, <2>1 DEF IsBatchReady
    <2>3. CASE NotReady(b)
      <3>1. WorkersTyped'
        BY <1>0, <1>7, <2>3, TaskMoves, "done" \in WorkerStates DEF IsBatchReady, WorkerStates
      <3> QED
        BY <1>0, <1>7, <2>2, <3>1 DEF WorkersTyped, IsBatchReady, connections, service
    <2>4. CASE ~NotReady(b)
      <3> DEFINE w == [pc |-> "build", batch |-> SubSeq(batch_queue, 1, Taken), pos |-> 0]
      <3>1. w \in Worker /\ w.pos <= Len(w.batch)
        BY <2>1 DEF Worker, WorkerStates
      <3>2. worker' = [worker EXCEPT ![b] = w]
        BY <1>7, <2>4 DEF IsBatchReady
      <3> HIDE DEF w
      <3>3. WorkersTyped'
        BY <1>0, <3>1, <3>2, TaskReplaced
      <3> QED
        BY <1>0, <1>7, <2>2, <3>3 DEF WorkersTyped, IsBatchReady, connections, service
    <2> QED
      BY <2>3, <2>4
  <1>8. ASSUME NEW b \in Blocks, BuildFails(b) \/ Build(b) \/ LockLast(b) \/ UploadFails(b)
        PROVE  BatcherTypeOK'
    <2>1. PICK pc \in WorkerStates : worker' = [worker EXCEPT ![b].pc = pc]
      BY <1>8 DEF BuildFails, Build, LockLast, UploadFails, WorkerStates
    <2>2. WorkersTyped'
      BY <1>0, <2>1, TaskMoves
    <2> QED
      BY <1>0, <1>8, <2>2
      DEF WorkersTyped, BuildFails, Build, LockLast, UploadFails, elsewhere, connections, service
  <1>9. ASSUME NEW b \in Blocks, Upload(b) \/ CreateTask(b)
        PROVE  BatcherTypeOK'
    <2>1. PICK pc \in WorkerStates : worker' = [worker EXCEPT ![b].pc = pc]
      BY <1>9 DEF Upload, CreateTask, WorkerStates
    <2>2. WorkersTyped'
      BY <1>0, <2>1, TaskMoves
    <2>3. Root(worker[b].batch) \in Roots
      BY <1>0, RootTyped DEF Worker
    <2>4. CASE Upload(b)
      BY <1>0, <2>2, <2>3, <2>4 DEF WorkersTyped, Upload, elsewhere, connections
    <2>5. CASE CreateTask(b)
      <3>1. Root(worker[b].batch) \in stored
        BY <1>0, <2>5 DEF CreateTask, EveryTaskProgresses, Progress
      <3>2. b \in 0..block
        BY <1>0, <2>5 DEF CreateTask, Spawned, Blocks
      <3> QED
        BY <1>0, <2>2, <2>5, <3>1, <3>2 DEF WorkersTyped, CreateTask, elsewhere, connections
    <2> QED
      BY <1>9, <2>4, <2>5
  <1>10. ASSUME NEW b \in Blocks, SendResponse(b)
         PROVE  BatcherTypeOK'
    <2> DEFINE w == worker[b]
    <2>1. w \in Worker /\ w.pos < Len(w.batch)
      BY <1>0, <1>10 DEF SendResponse, EveryTaskProgresses, Progress
    <2>2. w.pos \in Nat /\ w.batch \in Seq(Messages) /\ Len(w.batch) \in Nat
      BY <2>1 DEF Worker
    <2>3. w.batch[w.pos + 1] \in Messages
      BY <2>1, <2>2
    <2>4. InclusionData(w) \in Answers
      BY <2>2, <2>3, RootTyped DEF InclusionData, Answers
    <2>5. WorkersTyped'
      <3>1. AfterAnswer(w) \in Worker /\ AfterAnswer(w).pos <= Len(AfterAnswer(w).batch)
        BY <2>1, TaskAnswered
      <3>2. worker' = [worker EXCEPT ![b] = AfterAnswer(w)]
        BY <1>0, <1>10, TaskAnswers
      <3> HIDE DEF w
      <3> QED
        BY <1>0, <3>1, <3>2, TaskReplaced
    <2> QED
      BY <1>0, <1>10, <2>4, <2>5 DEF WorkersTyped, SendResponse, elsewhere, connections
  <1>11. CASE UNCHANGED vars
    BY <1>0, <1>11 DEF vars, connections, service
  <1> QED
    BY <1>1, <1>2, <1>3, <1>4, <1>5, <1>6, <1>7, <1>8, <1>9, <1>10, <1>11
    DEF Next, HandleNewBlock
-----------------------------------------------------------------------------
\* handle_new_block touches no other task, and only runs once it was spawned.
LEMMA OneTaskSteps ==
    ASSUME WorkersTyped, NEW b \in Blocks, HandleNewBlock(b)
    PROVE  /\ worker[b].pc # "none" /\ block' = block
           /\ \A d \in Blocks \ {b} : worker'[d] = worker[d]
           /\ stored \subseteq stored'
  <1> USE DEF WorkersTyped
  <1>1. CASE LockQueue(b)
    BY <1>1 DEF LockQueue, service
  <1>2. CASE IsBatchReady(b)
    BY <1>2 DEF IsBatchReady, service
  <1>3. CASE BuildFails(b) \/ Build(b) \/ LockLast(b) \/ UploadFails(b)
    BY <1>3 DEF BuildFails, Build, LockLast, UploadFails, elsewhere, service
  <1>4. CASE Upload(b) \/ CreateTask(b) \/ SendResponse(b)
    BY <1>4 DEF Upload, CreateTask, SendResponse, elsewhere
  <1> QED
    BY <1>1, <1>2, <1>3, <1>4 DEF HandleNewBlock

\* A block's task is spawned when the block is mined, and never before.
LEMMA SpawnedStep == BatcherInv /\ [Next]_vars => Spawned'
  <1> SUFFICES ASSUME BatcherInv, [Next]_vars PROVE Spawned'
    OBVIOUS
  <1> USE DEF Spawned
  <1>0. block \in Nat /\ WorkersTyped /\ Spawned
    BY BatcherAssumption DEF BatcherInv, BatcherTypeOK, WorkersTyped
  <1>1. ASSUME NEW c \in Clients, HandleMessage(c) \/ AddToBatch(c)
        PROVE  Spawned'
    BY <1>0, <1>1 DEF HandleMessage, AddToBatch
  <1>2. CASE NewBlock
    BY <1>0, <1>2 DEF NewBlock, WorkersTyped, Blocks
  <1>3. CASE StreamEnds
    BY <1>0, <1>3 DEF StreamEnds
  <1>4. CASE Restart
    BY <1>4 DEF Restart, NoWorker
  <1>5. ASSUME NEW b \in Blocks, HandleNewBlock(b)
        PROVE  Spawned'
    BY <1>0, <1>5, OneTaskSteps
  <1>6. CASE UNCHANGED vars
    BY <1>0, <1>6 DEF vars
  <1> QED
    BY <1>1, <1>2, <1>3, <1>4, <1>5, <1>6 DEF Next
-----------------------------------------------------------------------------
\* Every way into and out of a critical section takes or releases its mutex:
\* LockQueue and is_batch_ready for the queue; LockLast, the transaction and a
\* panic of the upload for last_uploaded_batch_block.
LEMMA LocksStep == BatcherInv /\ [Next]_vars => LocksHeldInside'
  <1> SUFFICES ASSUME BatcherInv, [Next]_vars PROVE LocksHeldInside'
    OBVIOUS
  <1> USE DEF LocksHeldInside
  <1>0. /\ block \in Nat /\ WorkersTyped /\ Spawned /\ LocksHeldInside
        /\ \A b \in Blocks : b # Free /\ b \in Nat
    BY BatcherAssumption DEF BatcherInv, BatcherTypeOK, WorkersTyped, Blocks
  <1>1. ASSUME NEW c \in Clients, HandleMessage(c) \/ AddToBatch(c)
        PROVE  LocksHeldInside'
    BY <1>0, <1>1 DEF HandleMessage, AddToBatch
  <1>2. CASE NewBlock
    <2>1. ASSUME listening
          PROVE  /\ worker[block + 1].pc = "none" /\ block + 1 \in Blocks
                 /\ worker'[block + 1].pc = "start"
                 /\ \A d \in Blocks \ {block + 1} : worker'[d] = worker[d]
      <3>1. block + 1 \in Blocks
        BY <1>0, <1>2, BatcherAssumption DEF NewBlock, Blocks
      <3>2. worker[block + 1].pc = "none"
        BY <1>0, <3>1 DEF Spawned
      <3> QED
        BY <1>0, <1>2, <2>1, <3>1, <3>2 DEF NewBlock, WorkersTyped, Worker
    <2> QED
      BY <1>0, <1>2, <2>1 DEF NewBlock
  <1>3. CASE StreamEnds
    BY <1>0, <1>3 DEF StreamEnds
  <1>4. CASE Restart
    BY <1>0, <1>4 DEF Restart, NoWorker
  <1>5. ASSUME NEW b \in Blocks, HandleNewBlock(b)
        PROVE  LocksHeldInside'
    <2>1. CASE LockQueue(b)
      <3>1. worker'[b].pc = "check" /\ \A d \in Blocks \ {b} : worker'[d] = worker[d]
        BY <1>0, <2>1 DEF LockQueue, WorkersTyped, Worker
      <3> QED
        BY <1>0, <2>1, <3>1 DEF LockQueue
    <2>2. CASE IsBatchReady(b)
      <3>1. /\ worker'[b].pc \in {"done", "build"}
            /\ \A d \in Blocks \ {b} : worker'[d] = worker[d]
        BY <1>0, <2>2 DEF IsBatchReady, WorkersTyped, Worker
      <3> QED
        BY <1>0, <2>2, <3>1 DEF IsBatchReady
    <2>3. CASE BuildFails(b) \/ Build(b)
      <3>1. /\ worker'[b].pc \in {"submit", "lost"}
            /\ \A d \in Blocks \ {b} : worker'[d] = worker[d]
        BY <1>0, <2>3 DEF BuildFails, Build, WorkersTyped, Worker
      <3> QED
        BY <1>0, <2>3, <3>1 DEF BuildFails, Build, elsewhere
    <2>4. CASE LockLast(b)
      <3>1. worker'[b].pc = "upload" /\ \A d \in Blocks \ {b} : worker'[d] = worker[d]
        BY <1>0, <2>4 DEF LockLast, WorkersTyped, Worker
      <3> QED
        BY <1>0, <2>4, <3>1 DEF LockLast, elsewhere
    <2>5. CASE Upload(b)
      <3>1. worker'[b].pc = "create" /\ \A d \in Blocks \ {b} : worker'[d] = worker[d]
        BY <1>0, <2>5 DEF Upload, WorkersTyped, Worker
      <3> QED
        BY <1>0, <2>5, <3>1 DEF Upload, elsewhere
    <2>6. CASE UploadFails(b) \/ CreateTask(b)
      <3>1. /\ worker'[b].pc \in {"answer", "lost"}
            /\ \A d \in Blocks \ {b} : worker'[d] = worker[d]
        BY <1>0, <2>6 DEF UploadFails, CreateTask, WorkersTyped, Worker
      <3> QED
        BY <1>0, <2>6, <3>1 DEF UploadFails, CreateTask, elsewhere
    <2>7. CASE SendResponse(b)
      <3>1. /\ worker'[b].pc \in {"start", "answer"}
            /\ \A d \in Blocks \ {b} : worker'[d] = worker[d]
        BY <1>0, <2>7 DEF SendResponse, WorkersTyped, Worker
      <3> QED
        BY <1>0, <2>7, <3>1 DEF SendResponse, elsewhere
    <2> QED
      BY <1>5, <2>1, <2>2, <2>3, <2>4, <2>5, <2>6, <2>7 DEF HandleNewBlock
  <1>6. CASE UNCHANGED vars
    BY <1>0, <1>6 DEF vars
  <1> QED
    BY <1>1, <1>2, <1>3, <1>4, <1>5, <1>6 DEF Next
-----------------------------------------------------------------------------
\* A step of the task of b advances it in order: a batch is built before it is
\* posted, is in S3 before the transaction, and is answered only after it.
LEMMA StepProgresses ==
    ASSUME BatcherInv, NEW b \in Blocks, HandleNewBlock(b)
    PROVE  Progress(b)'
  <1>0. WorkersTyped /\ Progress(b)
    BY DEF BatcherInv, BatcherTypeOK, WorkersTyped, EveryTaskProgresses
  <1>1. CASE LockQueue(b)
    <2>1. worker'[b].pc = "check"
      BY <1>0, <1>1 DEF LockQueue, WorkersTyped, Worker
    <2> QED
      BY <2>1 DEF Progress
  <1>2. CASE IsBatchReady(b)
    <2>1. \/ worker'[b].pc = "done"
          \/ worker'[b].pc = "build" /\ worker'[b].pos = 0
      BY <1>0, <1>2 DEF IsBatchReady, WorkersTyped, Worker
    <2> QED
      BY <2>1 DEF Progress
  <1>3. CASE BuildFails(b) \/ UploadFails(b)
    <2>1. worker'[b].pc = "lost"
      BY <1>0, <1>3 DEF BuildFails, UploadFails, WorkersTyped, Worker
    <2> QED
      BY <2>1 DEF Progress
  <1>4. CASE Build(b)
    <2>1. worker[b].batch # <<>> /\ worker[b].pos = 0
      BY <1>0, <1>4 DEF Build, Progress
    <2>2. /\ worker'[b].pc = "submit" /\ worker'[b].pos = worker[b].pos
          /\ worker'[b].batch = worker[b].batch
      BY <1>0, <1>4 DEF Build, WorkersTyped, Worker
    <2> QED
      BY <2>1, <2>2 DEF Progress
  <1>5. CASE LockLast(b)
    <2>1. worker[b].batch # <<>> /\ worker[b].pos = 0
      BY <1>0, <1>5 DEF LockLast, Progress
    <2>2. /\ worker'[b].pc = "upload" /\ worker'[b].pos = worker[b].pos
          /\ worker'[b].batch = worker[b].batch
      BY <1>0, <1>5 DEF LockLast, WorkersTyped, Worker
    <2> QED
      BY <2>1, <2>2 DEF Progress
  <1>6. CASE Upload(b)
    <2>1. worker[b].batch # <<>> /\ worker[b].pos = 0
      BY <1>0, <1>6 DEF Upload, Progress
    <2>2. /\ worker'[b].pc = "create" /\ worker'[b].pos = worker[b].pos
          /\ worker'[b].batch = worker[b].batch
      BY <1>0, <1>6 DEF Upload, WorkersTyped, Worker
    <2>3. Root(worker'[b].batch) \in stored'
      BY <1>6, <2>2 DEF Upload
    <2> QED
      BY <2>1, <2>2, <2>3 DEF Progress, Root
  <1>7. CASE CreateTask(b)
    <2>1. /\ worker[b].batch # <<>> /\ worker[b].pos = 0
          /\ Root(worker[b].batch) \in stored /\ worker[b].batch \in Seq(Messages)
      BY <1>0, <1>7 DEF CreateTask, Progress, WorkersTyped, Worker
    <2>2. /\ worker'[b].pc = "answer" /\ worker'[b].pos = worker[b].pos
          /\ worker'[b].batch = worker[b].batch
      BY <1>0, <1>7 DEF CreateTask, WorkersTyped, Worker
    <2>3. worker'[b].pos < Len(worker'[b].batch)
      BY <2>1, <2>2, EmptySeq
    <2>4. Root(worker'[b].batch) \in stored'
      BY <1>7, <2>1, <2>2 DEF CreateTask
    <2> QED
      BY <2>2, <2>3, <2>4 DEF Progress, Root
  <1>8. CASE SendResponse(b)
    <2> DEFINE w == worker[b]
    <2>1. /\ w \in Worker /\ w.pos < Len(w.batch) /\ Root(w.batch) \in stored
          /\ w.pos \in Nat /\ Len(w.batch) \in Nat
      BY <1>0, <1>8 DEF SendResponse, Progress, WorkersTyped, Worker
    <2>2. worker'[b] = AfterAnswer(w)
      BY <1>0, <1>8, TaskAnswers
    <2>3. /\ worker'[b].pc \in {"start", "answer"} /\ worker'[b].pos = w.pos + 1
          /\ worker'[b].batch = w.batch
          /\ worker'[b].pc = "start" <=> w.pos + 1 = Len(w.batch)
      BY <2>1, <2>2, TaskAnswered
    <2>4. Root(worker'[b].batch) \in stored'
      BY <1>8, <2>1, <2>3 DEF SendResponse
    <2>5. \/ worker'[b].pc = "start"
          \/ worker'[b].pc = "answer" /\ worker'[b].pos < Len(worker'[b].batch)
      BY <2>1, <2>3
    <2> QED
      BY <2>4, <2>5 DEF Progress, Root
  <1> QED
    BY <1>1, <1>2, <1>3, <1>4, <1>5, <1>6, <1>7, <1>8 DEF HandleNewBlock

\* A task that does not move keeps its progress, for nothing leaves S3.
LEMMA ProgressKept ==
    ASSUME NEW b \in Blocks, Progress(b), worker'[b] = worker[b], stored \subseteq stored'
    PROVE  Progress(b)'
  BY DEF Progress, Root

\* No step puts a task out of order.
LEMMA ProgressStep == BatcherInv /\ [Next]_vars => EveryTaskProgresses'
  <1> SUFFICES ASSUME BatcherInv, [Next]_vars, NEW d \in Blocks PROVE Progress(d)'
    BY DEF EveryTaskProgresses
  <1>0. WorkersTyped /\ Progress(d)
    BY DEF BatcherInv, BatcherTypeOK, WorkersTyped, EveryTaskProgresses
  <1>1. ASSUME NEW c \in Clients, HandleMessage(c) \/ AddToBatch(c)
        PROVE  Progress(d)'
    BY <1>0, <1>1, ProgressKept DEF HandleMessage, AddToBatch, service
  <1>2. CASE NewBlock
    <2>1. worker'[d] = worker[d] \/ worker'[d].pc = "start"
      BY <1>0, <1>2 DEF NewBlock, WorkersTyped, Worker
    <2>2. CASE worker'[d] = worker[d]
      BY <1>0, <1>2, <2>2, ProgressKept DEF NewBlock, service
    <2>3. CASE worker'[d].pc = "start"
      BY <2>3 DEF Progress
    <2> QED
      BY <2>1, <2>2, <2>3
  <1>3. CASE StreamEnds \/ UNCHANGED vars
    BY <1>0, <1>3, ProgressKept DEF StreamEnds, vars, service
  <1>4. CASE Restart
    BY <1>4 DEF Restart, NoWorker, Progress
  <1>5. ASSUME NEW b \in Blocks, HandleNewBlock(b)
        PROVE  Progress(d)'
    <2>1. CASE d = b
      BY <1>5, <2>1, StepProgresses
    <2>2. CASE d # b
      <3>1. worker'[d] = worker[d] /\ stored \subseteq stored'
        BY <1>0, <1>5, <2>2, OneTaskSteps
      <3> QED
        BY <1>0, <3>1, ProgressKept
    <2> QED
      BY <2>1, <2>2
  <1> QED
    BY <1>1, <1>2, <1>3, <1>4, <1>5 DEF Next
-----------------------------------------------------------------------------
\* The only answers a task sends name the root it uploaded and the place of
\* the message in its batch.
LEMMA AnswersStep == BatcherInv /\ [Next]_vars => AnswerIsRetrievable'
  <1> SUFFICES ASSUME BatcherInv, [Next]_vars PROVE AnswerIsRetrievable'
    OBVIOUS
  <1>0. WorkersTyped /\ EveryTaskProgresses /\ AnswerIsRetrievable
    BY DEF BatcherInv, BatcherTypeOK, WorkersTyped
  <1>1. CASE answers' = answers /\ stored \subseteq stored'
    BY <1>0, <1>1 DEF AnswerIsRetrievable
  <1>2. ASSUME NEW b \in Blocks, SendResponse(b)
        PROVE  AnswerIsRetrievable'
    <2> DEFINE w == worker[b]
               a == InclusionData(w)
    <2>1. w.pos \in Nat /\ w.batch \in Seq(Messages) /\ w.pos < Len(w.batch)
          /\ Root(w.batch) \in stored
      BY <1>0, <1>2 DEF SendResponse, EveryTaskProgresses, Progress, WorkersTyped, Worker
    <2>2. answers' = answers \cup {a} /\ stored' = stored
      BY <1>2 DEF SendResponse
    <2>3. a.root = Root(w.batch) /\ a.index = w.pos /\ a.message = w.batch[w.pos + 1]
      BY DEF InclusionData
    <2>4. w.pos + 1 \in 1..Len(w.batch)
      BY <2>1
    <2> HIDE DEF a
    <2>5. /\ a.root \in stored
          /\ a.index + 1 \in DOMAIN a.root
          /\ a.root[a.index + 1] = content[a.message]
      BY <2>1, <2>3, <2>4, RootTyped
    <2> QED
      BY <1>0, <2>2, <2>5 DEF AnswerIsRetrievable
  <1>3. ASSUME NEW b \in Blocks, HandleNewBlock(b), ~SendResponse(b)
        PROVE  answers' = answers /\ stored \subseteq stored'
    BY <1>3 DEF HandleNewBlock, LockQueue, IsBatchReady, BuildFails, Build, LockLast,
                Upload, UploadFails, CreateTask, elsewhere, service
  <1>4. ASSUME NEW c \in Clients, HandleMessage(c) \/ AddToBatch(c)
        PROVE  answers' = answers /\ stored \subseteq stored'
    BY <1>4 DEF HandleMessage, AddToBatch, service
  <1>5. CASE NewBlock \/ StreamEnds \/ Restart \/ UNCHANGED vars
    BY <1>1, <1>5 DEF NewBlock, StreamEnds, Restart, vars, service
  <1> QED
    BY <1>1, <1>2, <1>3, <1>4, <1>5 DEF Next
-----------------------------------------------------------------------------
\* The five parts of the invariant hold together of every execution.
THEOREM BatcherInvariant == Spec => []BatcherInv
  <1>1. BatcherInv /\ [Next]_vars => BatcherInv'
    BY TypeStep, LocksStep, SpawnedStep, ProgressStep, AnswersStep DEF BatcherInv
  <1> QED
    BY InvInit, <1>1, PTL DEF Spec

\* The variables of the batcher keep their types; in particular a task is only
\* created for a batch that is in S3.
THEOREM BatcherTypeCorrect == Spec => []BatcherTypeOK
  <1>1. BatcherInv => BatcherTypeOK
    BY DEF BatcherInv
  <1> QED
    BY BatcherInvariant, <1>1, PTL

\* Each mutex is held exactly while a task is inside its critical section,
\* whichever of its steps fail.
THEOREM MutexesReleased == Spec => []LocksHeldInside
  <1>1. BatcherInv => LocksHeldInside
    BY DEF BatcherInv
  <1> QED
    BY BatcherInvariant, <1>1, PTL

\* The inclusion data of every client names a batch that is in S3 and has the
\* client's commitment where it says.
THEOREM AnswersAreRetrievable == Spec => []AnswerIsRetrievable
  <1>1. BatcherInv => AnswerIsRetrievable
    BY DEF BatcherInv
  <1> QED
    BY BatcherInvariant, <1>1, PTL
-----------------------------------------------------------------------------
(***************************************************************************)
(* NoProofLost.  It counts places; what is inductive is that no message    *)
(* is in two of them, that only messages that were read are in any, and    *)
(* that a task that is not working on a batch has answered all of its last *)
(* one, so that the batch it takes next drops nothing.                     *)
(***************************************************************************)
Somewhere(m) == InQueue(m) # {} \/ Pending(m) # {} \/ AnswersTo(m) # {}

NotInTwoPlaces(m) ==
    /\ \A i, j \in InQueue(m) : i = j
    /\ \A p, q \in Pending(m) : p = q
    /\ \A x, y \in AnswersTo(m) : x = y
    /\ InQueue(m) = {} \/ Pending(m) = {}
    /\ InQueue(m) = {} \/ AnswersTo(m) = {}
    /\ Pending(m) = {} \/ AnswersTo(m) = {}

Located(m) ==
    /\ NotInTwoPlaces(m)
    /\ Somewhere(m) => Known(m)
    /\ m \in accepted => Somewhere(m)

EveryProofLocated == \A m \in Messages : Located(m)

IdleTasksHoldNothing ==
    \A b \in Blocks : worker[b].pc \in {"none", "start", "check", "done"}
                          => worker[b].pos = Len(worker[b].batch)

\* The place of a message in the batch of a task that has yet to answer it.
Holds(b, i, m) == i \in worker[b].pos + 1..Len(worker[b].batch) /\ worker[b].batch[i] = m

PendingIsPlaces ==
    \A m, p : p \in Pending(m) <=>
                  \E b \in Blocks : \E i \in Int : Holds(b, i, m) /\ p = <<b, i>>

\* Pending is the set of those places, in every state.
LEMMA PendingMembers == PendingIsPlaces
  <1> SUFFICES ASSUME NEW m, NEW p
               PROVE  p \in Pending(m) <=>
                          \E b \in Blocks : \E i \in Int : Holds(b, i, m) /\ p = <<b, i>>
    BY DEF PendingIsPlaces
  <1> DEFINE Here(b) == {i \in worker[b].pos + 1..Len(worker[b].batch) :
                            worker[b].batch[i] = m}
             Places(b) == {<<b, i>> : i \in Here(b)}
  <1>1. Pending(m) = UNION {Places(b) : b \in Blocks}
    BY Zenon DEF Pending
  <1>2. \A b, i : i \in Here(b) <=> Holds(b, i, m)
    BY Zenon DEF Holds
  <1>3. \A b, i : i \in Here(b) => i \in Int
    OBVIOUS
  <1> HIDE DEF Here
  <1>4. \A b : p \in Places(b) <=> \E i \in Int : Holds(b, i, m) /\ p = <<b, i>>
    BY <1>2, <1>3
  <1> HIDE DEF Places
  <1> QED
    BY <1>1, <1>4

\* The batches of the tasks hold the same proofs after a step that leaves the
\* batch and the position of every task alone.
LEMMA PendingKept ==
    ASSUME \A b \in Blocks : /\ worker'[b].batch = worker[b].batch
                             /\ worker'[b].pos = worker[b].pos
    PROVE  \A m : Pending(m)' = Pending(m)
  <1>1. PendingIsPlaces /\ PendingIsPlaces'
    BY PendingMembers, PTL
  <1>2. \A b \in Blocks : \A i, m : Holds(b, i, m)' <=> Holds(b, i, m)
    BY DEF Holds
  <1>3. \A m, p : p \in Pending(m)' <=> p \in Pending(m)
    BY <1>1, <1>2 DEF PendingIsPlaces
  <1> QED
    BY <1>3

\* What was read stays read.
LEMMA KnownKept ==
    ASSUME read \in [Clients -> Nat], read' \in [Clients -> Nat],
           \A c \in Clients : read[c] <= read'[c]
    PROVE  \A m : Known(m) => Known(m)'
  BY DEF Known

\* A step that moves no proof keeps every one where it is.
LEMMA LocatedKept ==
    ASSUME NEW m, Located(m),
           InQueue(m)' = InQueue(m), Pending(m)' = Pending(m), AnswersTo(m)' = AnswersTo(m),
           Known(m) => Known(m)', m \in accepted' => m \in accepted
    PROVE  Located(m)'
  BY Zenon DEF Located, NotInTwoPlaces, Somewhere
-----------------------------------------------------------------------------
\* add_to_batch puts a proof at the end of the queue that no client had sent
\* before, and touches no other.
AddedBy(c) == sends[c][read[c] + 1]

LEMMA AddToBatchEffect ==
    ASSUME BatcherInv, NEW c \in Clients, AddToBatch(c)
    PROVE  /\ AddedBy(c) \in Messages /\ ~Known(AddedBy(c))
           /\ accepted' = accepted \cup {AddedBy(c)}
           /\ \A m : m = AddedBy(c) =>
                  Known(m)' /\ InQueue(m)' = InQueue(m) \cup {Len(batch_queue) + 1}
           /\ \A m : m # AddedBy(c) => InQueue(m)' = InQueue(m) /\ (Known(m)' <=> Known(m))
           /\ \A m : Pending(m)' = Pending(m) /\ AnswersTo(m)' = AnswersTo(m)
  <1> DEFINE n == sends[c][read[c] + 1]
  <1>0. /\ read \in [Clients -> Nat] /\ waiting \in [Clients -> BOOLEAN]
        /\ read[c] + 1 \in 1..Len(sends[c])
        /\ batch_queue \in Seq(Messages) /\ Len(batch_queue) \in Nat
        /\ sends \in [Clients -> Seq(Messages)]
    <2>1. /\ read \in [Clients -> Nat] /\ waiting \in [Clients -> BOOLEAN]
          /\ batch_queue \in Seq(Messages) /\ Len(batch_queue) \in Nat
          /\ sends \in [Clients -> Seq(Messages)]
      BY BatcherAssumption DEF BatcherInv, BatcherTypeOK
    <2>2. read[c] < Len(sends[c])
      BY Zenon DEF BatcherInv, BatcherTypeOK, AddToBatch
    <2>3. Len(sends[c]) \in Nat /\ read[c] \in Nat
      BY <2>1
    <2>4. read[c] + 1 \in 1..Len(sends[c])
      BY <2>2, <2>3
    <2> QED
      BY <2>1, <2>4
  <1>1. n \in Messages
    BY <1>0
  <1>2. /\ batch_queue' = Append(batch_queue, n) /\ accepted' = accepted \cup {n}
        /\ read' = [read EXCEPT ![c] = @ + 1]
        /\ worker' = worker /\ answers' = answers
    BY DEF AddToBatch, service
  <1>3. /\ read' \in [Clients -> Nat] /\ read'[c] = read[c] + 1
        /\ \A d \in Clients \ {c} : read'[d] = read[d]
    BY <1>0, <1>2
  <1>4. \A m : Pending(m)' = Pending(m)
    BY <1>2, PendingKept
  <1>5. \A m : AnswersTo(m)' = AnswersTo(m)
    BY <1>2 DEF AnswersTo
  <1>6. \A m : Known(m)' <=> Known(m) \/ m = n
    <2>1. \A d \in Clients : \A i : i \in 1..read'[d] <=>
                                        \/ i \in 1..read[d]
                                        \/ d = c /\ i = read[c] + 1
      BY <1>0, <1>3
    <2> QED
      BY <2>1 DEF Known
  <1>7. ~Known(n)
    <2>1. ASSUME NEW d \in Clients, NEW i \in 1..read[d], sends[d][i] = n
          PROVE  FALSE
      <3>1. i \in DOMAIN sends[d] /\ read[c] + 1 \in DOMAIN sends[c]
        BY <1>0, <2>1 DEF BatcherInv, BatcherTypeOK
      <3>2. d = c /\ i = read[c] + 1
        BY <2>1, <3>1, BatcherAssumption
      <3> QED
        BY <1>0, <3>2
    <2> QED
      BY <2>1 DEF Known
  <1> HIDE DEF n
  <1>8. /\ DOMAIN batch_queue = 1..Len(batch_queue)
        /\ DOMAIN batch_queue' = 1..Len(batch_queue) + 1
        /\ \A i \in 1..Len(batch_queue) : batch_queue'[i] = batch_queue[i]
        /\ batch_queue'[Len(batch_queue) + 1] = n
    BY <1>0, <1>1, <1>2
  <1>9. \A m, i : i \in InQueue(m)' <=> i \in InQueue(m) \/ (m = n /\ i = Len(batch_queue) + 1)
    BY <1>0, <1>8 DEF InQueue
  <1>10. \A m : m = n => InQueue(m)' = InQueue(m) \cup {Len(batch_queue) + 1}
    BY <1>9
  <1>11. \A m : m # n => InQueue(m)' = InQueue(m)
    <2> SUFFICES ASSUME NEW m, m # n
                 PROVE  InQueue(m)' = InQueue(m)
      OBVIOUS
    <2>1. \A i : i \in InQueue(m)' <=> i \in InQueue(m)
      BY <1>9
    <2> QED
      BY <2>1
  <1>12. AddedBy(c) = n
    BY DEF AddedBy, n
  <1> QED
    BY <1>1, <1>2, <1>4, <1>5, <1>6, <1>7, <1>10, <1>11, <1>12

\* So a new proof is in the queue and nowhere else.
LEMMA AddToBatchLocates ==
    ASSUME BatcherInv, NEW m \in Messages, Located(m), NEW c \in Clients, AddToBatch(c)
    PROVE  Located(m)'
  <1>1. CASE m # AddedBy(c)
    <2>1. m \in accepted' => m \in accepted
      BY <1>1, AddToBatchEffect
    <2> QED
      BY <1>1, <2>1, AddToBatchEffect, LocatedKept
  <1>2. CASE m = AddedBy(c)
    <2>1. ~Known(m) /\ Known(m)'
      BY <1>2, AddToBatchEffect
    <2>2. InQueue(m) = {} /\ Pending(m) = {} /\ AnswersTo(m) = {}
      BY <2>1, Zenon DEF Located, Somewhere
    <2>3. InQueue(m)' = {Len(batch_queue) + 1} /\ Pending(m)' = {} /\ AnswersTo(m)' = {}
      BY <1>2, <2>2, AddToBatchEffect
    <2>4. \A i, j \in InQueue(m)' : i = j
      BY <2>3
    <2> QED
      BY <2>1, <2>3, <2>4, Zenon DEF Located, NotInTwoPlaces, Somewhere
  <1> QED
    BY <1>1, <1>2

\* is_batch_ready moves the first t messages of the queue into the batch of its
\* task, which had answered all of the batch before; what is left moves up.
Splits(b, m, t) ==
    /\ \A i : i \in InQueue(m)' <=> i \in Int /\ i >= 1 /\ i + t \in InQueue(m)
    /\ \A i \in Int : Holds(b, i, m)' <=> i \in InQueue(m) /\ i <= t
    /\ \A i \in Int : ~Holds(b, i, m)

LEMMA QueueSplit ==
    ASSUME BatcherInv, IdleTasksHoldNothing, NEW b \in Blocks, IsBatchReady(b), ~NotReady(b)
    PROVE  /\ worker'[b].pc = "build"
           /\ \A d \in Blocks \ {b} : worker'[d] = worker[d]
           /\ \E t \in 0..Len(batch_queue) : \A m : Splits(b, m, t)
  <1> DEFINE batch == SubSeq(batch_queue, 1, Taken)
             rest == SubSeq(batch_queue, Taken + 1, Len(batch_queue))
             w == [pc |-> "build", batch |-> batch, pos |-> 0]
  <1>0. /\ WorkersTyped /\ batch_queue \in Seq(Messages) /\ Len(batch_queue) \in Nat
        /\ worker[b].pos = Len(worker[b].batch)
    BY DEF BatcherInv, BatcherTypeOK, WorkersTyped, IsBatchReady, IdleTasksHoldNothing
  <1>1. PICK t \in 0..Len(batch_queue) : t = Taken
    BY <1>0, TakenInQueue
  <1>2. /\ Len(batch) = t /\ \A i \in 1..t : batch[i] = batch_queue[i]
        /\ rest \in Seq(Messages) /\ Len(rest) = Len(batch_queue) - t
        /\ \A i \in 1..Len(batch_queue) - t : rest[i] = batch_queue[i + t]
    BY <1>0, <1>1, CutTyped, SubSeqProperties
  <1>3. worker'[b] = w /\ \A d \in Blocks \ {b} : worker'[d] = worker[d]
    BY <1>0 DEF IsBatchReady, WorkersTyped
  <1>4. batch_queue' = rest
    BY DEF IsBatchReady
  <1> HIDE DEF batch, rest
  <1>5. w.batch = batch /\ w.pos = 0 /\ w.pc = "build"
    OBVIOUS
  <1> HIDE DEF w
  <1>6. ASSUME NEW m
        PROVE  Splits(b, m, t)
    <2>1. \A i : i \in InQueue(m)' <=> i \in Int /\ i >= 1 /\ i + t \in InQueue(m)
      BY <1>0, <1>2, <1>4 DEF InQueue
    <2>2. \A i \in Int : Holds(b, i, m)' <=> i \in InQueue(m) /\ i <= t
      BY <1>0, <1>2, <1>3, <1>5 DEF InQueue, Holds
    <2>3. \A i \in Int : ~Holds(b, i, m)
      BY <1>0 DEF Holds, WorkersTyped, Worker
    <2> QED
      BY <2>1, <2>2, <2>3 DEF Splits
  <1> QED
    BY <1>3, <1>5, <1>6

\* So it drops no proof and takes none twice.
LEMMA IsBatchReadyLocates ==
    ASSUME BatcherInv, IdleTasksHoldNothing, NEW m \in Messages, Located(m),
           NEW b \in Blocks, IsBatchReady(b)
    PROVE  Located(m)'
  <1>0. /\ WorkersTyped /\ batch_queue \in Seq(Messages) /\ Len(batch_queue) \in Nat
        /\ read' = read /\ accepted' = accepted /\ answers' = answers
    BY DEF BatcherInv, BatcherTypeOK, WorkersTyped, IsBatchReady, connections, service
  <1>1. AnswersTo(m)' = AnswersTo(m) /\ (Known(m)' <=> Known(m))
    BY <1>0, Zenon DEF AnswersTo, Known
  <1>2. CASE NotReady(b)
    <2>1. worker' = [worker EXCEPT ![b].pc = "done"] /\ batch_queue' = batch_queue
      BY <1>2 DEF IsBatchReady
    <2>2. Pending(m)' = Pending(m)
      BY <1>0, <2>1, TaskMoves, PendingKept, "done" \in WorkerStates DEF WorkerStates
    <2>3. InQueue(m)' = InQueue(m)
      BY <2>1 DEF InQueue
    <2> QED
      BY <1>0, <1>1, <2>2, <2>3, LocatedKept
  <1>3. CASE ~NotReady(b)
    <2>1. PICK t \in 0..Len(batch_queue) : Splits(b, m, t)
      BY <1>3, QueueSplit
    <2>2. \A d \in Blocks \ {b} : \A i \in Int : Holds(d, i, m)' <=> Holds(d, i, m)
      BY <1>3, QueueSplit DEF Holds
    <2>3. PendingIsPlaces /\ PendingIsPlaces'
      BY PendingMembers, PTL
    <2>4. InQueue(m) \subseteq 1..Len(batch_queue)
      BY <1>0 DEF InQueue
    <2>5. \A p : p \in Pending(m)' <=> \/ p \in Pending(m)
                                       \/ \E i \in InQueue(m) : i <= t /\ p = <<b, i>>
      <3>1. \A i \in InQueue(m) : i \in Int
        BY <2>4
      <3> QED
        BY <2>1, <2>2, <2>3, <3>1 DEF PendingIsPlaces, Splits
    <2>6. \A i : i \in InQueue(m)' <=> i \in Int /\ i >= 1 /\ i + t \in InQueue(m)
      BY <2>1 DEF Splits
    <2>7. \A i, j \in InQueue(m) : i = j
      BY DEF Located, NotInTwoPlaces
    <2>8. CASE InQueue(m) = {}
      <3>1. InQueue(m)' = {}
        BY <2>6, <2>8
      <3>2. Pending(m)' = Pending(m)
        BY <2>5, <2>8
      <3> QED
        BY <1>0, <1>1, <2>8, <3>1, <3>2, LocatedKept
    <2>9. CASE InQueue(m) # {}
      <3>1. PICK k \in InQueue(m) : InQueue(m) = {k}
        BY <2>7, <2>9
      <3>2. Pending(m) = {} /\ AnswersTo(m) = {} /\ Known(m)
        BY <2>9 DEF Located, NotInTwoPlaces, Somewhere
      <3>3. CASE k <= t
        <4>1. InQueue(m)' = {}
          BY <2>4, <2>6, <3>1, <3>3
        <4>2. Pending(m)' = {<<b, k>>}
          BY <2>5, <3>1, <3>2, <3>3
        <4>3. \A p, q \in Pending(m)' : p = q
          BY <4>2
        <4> QED
          BY <1>1, <3>2, <4>1, <4>2, <4>3, Zenon DEF Located, NotInTwoPlaces, Somewhere
      <3>4. CASE k > t
        <4>1. InQueue(m)' = {k - t}
          BY <2>4, <2>6, <3>1, <3>4
        <4>2. Pending(m)' = {}
          BY <2>4, <2>5, <3>1, <3>2, <3>4
        <4>3. \A i, j \in InQueue(m)' : i = j
          BY <4>1
        <4> QED
          BY <1>1, <3>2, <4>1, <4>2, <4>3, Zenon DEF Located, NotInTwoPlaces, Somewhere
      <3> QED
        BY <2>4, <3>3, <3>4
    <2> QED
      BY <2>8, <2>9
  <1> QED
    BY <1>2, <1>3

\* An answer takes its proof out of the batch of the task.
LEMMA SendResponseLocates ==
    ASSUME BatcherInv, NEW m \in Messages, Located(m), NEW b \in Blocks, SendResponse(b)
    PROVE  Located(m)'
  <1> DEFINE w == worker[b]
             v == AfterAnswer(w)
             a == InclusionData(w)
             n == w.batch[w.pos + 1]
  <1>0. /\ WorkersTyped /\ w \in Worker /\ w.pos < Len(w.batch)
        /\ w.pos \in Nat /\ Len(w.batch) \in Nat
    BY DEF BatcherInv, BatcherTypeOK, WorkersTyped, EveryTaskProgresses, Progress,
           SendResponse, Worker
  <1>1. /\ batch_queue' = batch_queue /\ read' = read /\ accepted' = accepted
        /\ answers' = answers \cup {a}
    BY DEF SendResponse, elsewhere, connections
  <1>2. InQueue(m)' = InQueue(m) /\ (Known(m)' <=> Known(m))
    BY <1>1, Zenon DEF InQueue, Known
  <1>3. a.message = n
    BY DEF InclusionData
  <1>4. v.pos = w.pos + 1 /\ v.batch = w.batch
    BY <1>0, TaskAnswered
  <1>5. worker'[b] = v /\ \A d \in Blocks \ {b} : worker'[d] = worker[d]
    BY <1>0, TaskAnswers
  <1> HIDE DEF a, v
  <1>6. \A i \in Int : Holds(b, i, m)' <=> Holds(b, i, m) /\ i # w.pos + 1
    BY <1>0, <1>4, <1>5 DEF Holds
  <1>7. \A d \in Blocks \ {b} : \A i \in Int : Holds(d, i, m)' <=> Holds(d, i, m)
    BY <1>5 DEF Holds
  <1>8. Holds(b, w.pos + 1, m) <=> n = m
    BY <1>0 DEF Holds
  <1>9. PendingIsPlaces /\ PendingIsPlaces'
    BY PendingMembers, PTL
  <1>10. \A p : p \in Pending(m)' <=> p \in Pending(m) /\ p # <<b, w.pos + 1>>
    <2>1. w.pos + 1 \in Int
      BY <1>0
    <2> QED
      BY <1>6, <1>7, <1>9, <2>1 DEF PendingIsPlaces
  <1>11. <<b, w.pos + 1>> \in Pending(m) <=> n = m
    <2>1. w.pos + 1 \in Int
      BY <1>0
    <2> QED
      BY <1>8, <1>9, <2>1 DEF PendingIsPlaces
  <1>12. \A x : x \in AnswersTo(m)' <=> x \in AnswersTo(m) \/ (x = a /\ n = m)
    BY <1>1, <1>3 DEF AnswersTo
  <1> HIDE DEF n, w
  <1>13. CASE n # m
    <2>1. Pending(m)' = Pending(m)
      BY <1>10, <1>11, <1>13
    <2>2. AnswersTo(m)' = AnswersTo(m)
      BY <1>12, <1>13
    <2> QED
      BY <1>1, <1>2, <2>1, <2>2, LocatedKept
  <1>14. CASE n = m
    <2>1. <<b, w.pos + 1>> \in Pending(m)
      BY <1>11, <1>14
    <2>2. /\ InQueue(m) = {} /\ AnswersTo(m) = {} /\ Known(m)
          /\ \A p, q \in Pending(m) : p = q
      BY <2>1, Zenon DEF Located, NotInTwoPlaces, Somewhere
    <2>3. Pending(m)' = {}
      BY <1>10, <2>1, <2>2
    <2>4. AnswersTo(m)' = {a}
      BY <1>12, <1>14, <2>2
    <2>5. \A x, y \in AnswersTo(m)' : x = y
      BY <2>4
    <2> QED
      BY <1>2, <2>2, <2>3, <2>4, <2>5, Zenon DEF Located, NotInTwoPlaces, Somewhere
  <1> QED
    BY <1>13, <1>14

\* A restart forgets the queue and every batch, and with them what it accepted.
LEMMA RestartLocates ==
    ASSUME NEW m, Located(m), Restart
    PROVE  Located(m)'
  <1>1. /\ batch_queue' = <<>> /\ worker' = [b \in Blocks |-> NoWorker] /\ accepted' = {}
        /\ answers' = answers /\ read' = read
    BY DEF Restart, service
  <1>2. AnswersTo(m)' = AnswersTo(m) /\ (Known(m)' <=> Known(m))
    BY <1>1, Zenon DEF AnswersTo, Known
  <1>3. InQueue(m)' = {}
    BY <1>1 DEF InQueue
  <1>4. \A b \in Blocks : \A i \in Int : ~Holds(b, i, m)'
    BY <1>1 DEF Holds, NoWorker
  <1>5. PendingIsPlaces'
    BY PendingMembers, PTL
  <1>6. Pending(m)' = {}
    BY <1>4, <1>5 DEF PendingIsPlaces
  <1> QED
    BY <1>1, <1>2, <1>3, <1>6, Zenon DEF Located, NotInTwoPlaces, Somewhere

\* No other step moves a proof: a message that is handled has yet to reach
\* add_to_batch, and a task that goes on keeps its batch and its place in it.
LEMMA OtherStepsLocate ==
    ASSUME BatcherInv, [Next]_vars, NEW m \in Messages, Located(m), ~Restart,
           \A c \in Clients : ~AddToBatch(c),
           \A b \in Blocks : ~IsBatchReady(b) /\ ~SendResponse(b)
    PROVE  Located(m)'
  <1>0. WorkersTyped /\ block \in Nat
    BY BatcherAssumption DEF BatcherInv, BatcherTypeOK, WorkersTyped
  <1>1. /\ batch_queue' = batch_queue /\ read' = read /\ accepted' = accepted
        /\ answers' = answers
        /\ \/ worker' = worker
           \/ \E b \in Blocks, pc \in WorkerStates : worker' = [worker EXCEPT ![b].pc = pc]
    <2>1. CASE \E c \in Clients : HandleMessage(c)
      BY <2>1 DEF HandleMessage, service
    <2>2. CASE NewBlock
      <3>1. block + 1 \in Blocks /\ "start" \in WorkerStates
        BY <1>0, <2>2, BatcherAssumption DEF NewBlock, Blocks, WorkerStates
      <3> QED
        BY <2>2, <3>1, Zenon DEF NewBlock, connections, service
    <2>3. CASE StreamEnds
      BY <2>3 DEF StreamEnds, connections, service
    <2>4. ASSUME NEW b \in Blocks, HandleNewBlock(b)
          PROVE  /\ batch_queue' = batch_queue /\ read' = read /\ accepted' = accepted
                 /\ answers' = answers
                 /\ \E pc \in WorkerStates : worker' = [worker EXCEPT ![b].pc = pc]
      <3>1. \/ LockQueue(b) \/ BuildFails(b) \/ Build(b) \/ LockLast(b)
            \/ Upload(b) \/ UploadFails(b) \/ CreateTask(b)
        BY <2>4 DEF HandleNewBlock
      <3>2. {"check", "lost", "submit", "upload", "create", "answer"} \subseteq WorkerStates
        BY DEF WorkerStates
      <3> QED
        BY <3>1, <3>2 DEF LockQueue, BuildFails, Build, LockLast, Upload, UploadFails,
           CreateTask, elsewhere, connections, service
    <2>5. CASE UNCHANGED vars
      BY <2>5 DEF vars, connections, service
    <2> QED
      BY <2>1, <2>2, <2>3, <2>4, <2>5 DEF Next
  <1>2. \A b \in Blocks : worker'[b].batch = worker[b].batch /\ worker'[b].pos = worker[b].pos
    BY <1>0, <1>1, TaskMoves
  <1>3. Pending(m)' = Pending(m)
    BY <1>2, PendingKept
  <1>4. /\ InQueue(m)' = InQueue(m) /\ AnswersTo(m)' = AnswersTo(m)
        /\ (Known(m) => Known(m)') /\ (m \in accepted' => m \in accepted)
    BY <1>1, Zenon DEF InQueue, AnswersTo, Known
  <1> QED
    BY <1>3, <1>4, LocatedKept

\* Every step leaves every proof in one place.
LEMMA LocatedStep ==
    BatcherInv /\ IdleTasksHoldNothing /\ EveryProofLocated /\ [Next]_vars => EveryProofLocated'
  <1> SUFFICES ASSUME BatcherInv, IdleTasksHoldNothing, EveryProofLocated, [Next]_vars,
                      NEW m \in Messages
               PROVE  Located(m)'
    BY Zenon DEF EveryProofLocated
  <1>1. Located(m)
    BY DEF EveryProofLocated
  <1> QED
    BY <1>1, AddToBatchLocates, IsBatchReadyLocates, SendResponseLocates, RestartLocates,
       OtherStepsLocate
-----------------------------------------------------------------------------
\* A task stops working on its batch only behind the last answer.
LEMMA IdleStep ==
    BatcherInv /\ IdleTasksHoldNothing /\ [Next]_vars => IdleTasksHoldNothing'
  <1> SUFFICES ASSUME BatcherInv, IdleTasksHoldNothing, [Next]_vars, NEW d \in Blocks,
                      worker'[d].pc \in {"none", "start", "check", "done"}
               PROVE  worker'[d].pos = Len(worker'[d].batch)
    BY DEF IdleTasksHoldNothing
  <1>0. /\ WorkersTyped /\ Spawned /\ block \in Nat
        /\ worker[d].pc \in {"none", "start", "check", "done"}
                => worker[d].pos = Len(worker[d].batch)
    BY BatcherAssumption
    DEF BatcherInv, BatcherTypeOK, WorkersTyped, IdleTasksHoldNothing
  <1>1. CASE worker'[d] = worker[d]
    BY <1>0, <1>1
  <1>2. CASE NewBlock
    <2>1. block + 1 \in Blocks /\ "start" \in WorkerStates
      BY <1>0, <1>2, BatcherAssumption DEF NewBlock, Blocks, WorkerStates
    <2>2. worker[block + 1].pc = "none"
      BY <1>0, <2>1 DEF Spawned
    <2>3. CASE listening /\ d = block + 1
      BY <1>0, <1>2, <2>1, <2>2, <2>3, TaskMoves DEF NewBlock
    <2>4. CASE ~(listening /\ d = block + 1)
      BY <1>0, <1>1, <1>2, <2>1, <2>4 DEF NewBlock, WorkersTyped
    <2> QED
      BY <2>3, <2>4
  <1>3. CASE Restart
    BY <1>3 DEF Restart, NoWorker
  <1>4. CASE LockQueue(d)
    <2>1. "check" \in WorkerStates
      BY DEF WorkerStates
    <2> QED
      BY <1>0, <1>4, <2>1, TaskMoves DEF LockQueue
  <1>5. CASE IsBatchReady(d)
    <2>1. CASE NotReady(d)
      <3>1. "done" \in WorkerStates
        BY DEF WorkerStates
      <3> QED
        BY <1>0, <1>5, <2>1, <3>1, TaskMoves DEF IsBatchReady
    <2>2. CASE ~NotReady(d)
      BY <1>0, <1>5, <2>2 DEF IsBatchReady, WorkersTyped
    <2> QED
      BY <2>1, <2>2
  <1>6. CASE BuildFails(d) \/ Build(d) \/ LockLast(d) \/ Upload(d) \/ UploadFails(d)
                \/ CreateTask(d)
    <2>1. PICK pc \in {"lost", "submit", "upload", "create", "answer"} :
              worker' = [worker EXCEPT ![d].pc = pc]
      BY <1>6 DEF BuildFails, Build, LockLast, Upload, UploadFails, CreateTask
    <2>2. pc \in WorkerStates
      BY DEF WorkerStates
    <2> QED
      BY <1>0, <2>1, <2>2, TaskMoves
  <1>7. CASE SendResponse(d)
    <2>1. worker[d] \in Worker /\ worker[d].pos < Len(worker[d].batch)
      BY <1>7 DEF BatcherInv, BatcherTypeOK, EveryTaskProgresses, Progress, SendResponse
    <2>2. worker'[d] = AfterAnswer(worker[d])
      BY <1>0, <1>7, TaskAnswers
    <2>3. /\ worker'[d].pc \in {"start", "answer"} /\ worker'[d].batch = worker[d].batch
          /\ worker'[d].pos = worker[d].pos + 1
          /\ worker'[d].pc = "start" => worker[d].pos + 1 = Len(worker[d].batch)
      BY <2>1, <2>2, TaskAnswered
    <2> QED
      BY <2>3
  <1>8. ASSUME NEW b \in Blocks \ {d}, HandleNewBlock(b)
        PROVE  worker'[d] = worker[d]
    BY <1>0, <1>8, OneTaskSteps
  <1>9. CASE StreamEnds \/ UNCHANGED vars \/ \E c \in Clients : HandleMessage(c) \/ AddToBatch(c)
    BY <1>1, <1>9 DEF StreamEnds, vars, HandleMessage, AddToBatch
  <1> QED
    BY <1>1, <1>2, <1>3, <1>4, <1>5, <1>6, <1>7, <1>8, <1>9 DEF Next, HandleNewBlock
-----------------------------------------------------------------------------
\* Every message is in at most one place, every accepted one in some place, and
\* what a task has yet to answer is only in a batch it is working on or lost.
PlacesInv == IdleTasksHoldNothing /\ EveryProofLocated

\* The places of the proofs hold together of every execution.
THEOREM PlacesInvariant == Spec => []PlacesInv
  <1>1. Init => PlacesInv
    <2> SUFFICES ASSUME Init PROVE PlacesInv
      OBVIOUS
    <2>1. IdleTasksHoldNothing
      BY DEF Init, IdleTasksHoldNothing, NoWorker
    <2>2. ASSUME NEW m \in Messages
          PROVE  Located(m)
      <3>1. InQueue(m) = {} /\ AnswersTo(m) = {} /\ m \notin accepted
        BY DEF Init, InQueue, AnswersTo
      <3>2. \A b \in Blocks : \A i \in Int : ~Holds(b, i, m)
        BY DEF Init, Holds, NoWorker
      <3>3. Pending(m) = {}
        BY <3>2, PendingMembers DEF PendingIsPlaces
      <3> QED
        BY <3>1, <3>3, Zenon DEF Located, NotInTwoPlaces, Somewhere
    <2> QED
      BY <2>1, <2>2 DEF PlacesInv, EveryProofLocated
  <1>2. BatcherInv /\ PlacesInv /\ [Next]_vars => PlacesInv'
    BY LocatedStep, IdleStep DEF PlacesInv
  <1> QED
    BY BatcherInvariant, <1>1, <1>2, PTL DEF Spec

\* A set without two different elements counts 1 if it has one, and else 0.
LEMMA CountOfAtMostOne ==
    ASSUME NEW S, \A x, y \in S : x = y
    PROVE  Cardinality(S) = IF S = {} THEN 0 ELSE 1
  <1>1. CASE S = {}
    BY <1>1, FS_EmptySet
  <1>2. CASE S # {}
    <2>1. PICK x : S = {x}
      BY <1>2
    <2> QED
      BY <1>2, <2>1, FS_Singleton
  <1> QED
    BY <1>1, <1>2

\* Every proof the batcher took is in the queue, in the batch of one task that
\* has yet to answer it, or answered, and only once, for any number of clients,
\* messages and tasks however these interleave.
THEOREM ProofsAreNeverLost == Spec => []NoProofLost
  <1>1. BatcherInv /\ PlacesInv => NoProofLost
    <2> SUFFICES ASSUME BatcherInv, PlacesInv, NEW m \in accepted
                 PROVE  Cardinality(InQueue(m)) + Cardinality(Pending(m))
                            + Cardinality(AnswersTo(m)) = 1
      BY DEF NoProofLost
    <2>1. NotInTwoPlaces(m) /\ Somewhere(m)
      BY DEF BatcherInv, BatcherTypeOK, PlacesInv, EveryProofLocated, Located
    <2>2. /\ Cardinality(InQueue(m)) = IF InQueue(m) = {} THEN 0 ELSE 1
          /\ Cardinality(Pending(m)) = IF Pending(m) = {} THEN 0 ELSE 1
          /\ Cardinality(AnswersTo(m)) = IF AnswersTo(m) = {} THEN 0 ELSE 1
      BY <2>1, CountOfAtMostOne, Zenon DEF NotInTwoPlaces
    <2>3. \/ InQueue(m) # {} /\ Pending(m) = {} /\ AnswersTo(m) = {}
          \/ InQueue(m) = {} /\ Pending(m) # {} /\ AnswersTo(m) = {}
          \/ InQueue(m) = {} /\ Pending(m) = {} /\ AnswersTo(m) # {}
      BY <2>1 DEF NotInTwoPlaces, Somewhere
    <2> QED
      BY <2>2, <2>3
  <1> QED
    BY BatcherInvariant, PlacesInvariant, <1>1, PTL
-----------------------------------------------------------------------------
(***************************************************************************)
(* The batcher implements ProofService: each of its steps takes, publishes, *)
(* creates, answers, drops or forgets, or is not seen by any client.       *)
(***************************************************************************)
\* A proof is held if it is in the queue or in its place in the batch of a task
\* that has not ended with an error.
HeldRule ==
    \A m : Held(m) <=> \/ InQueue(m) # {}
                       \/ \E d \in Blocks : \E i \in Int :
                             Holds(d, i, m) /\ worker[d].pc # "lost"

\* Held says so, in every state.
LEMMA HeldMeans == HeldRule
  <1>1. PendingIsPlaces
    BY PendingMembers
  <1>2. ASSUME NEW m
        PROVE  (\E p \in Pending(m) : worker[p[1]].pc # "lost")
                   <=> \E d \in Blocks : \E i \in Int : Holds(d, i, m) /\ worker[d].pc # "lost"
    <2>1. ASSUME NEW d \in Blocks, NEW i \in Int, Holds(d, i, m), worker[d].pc # "lost"
          PROVE  \E p \in Pending(m) : worker[p[1]].pc # "lost"
      <3>1. <<d, i>> \in Pending(m)
        BY <1>1, <2>1 DEF PendingIsPlaces
      <3> QED
        BY <2>1, <3>1
    <2>2. ASSUME NEW p \in Pending(m), worker[p[1]].pc # "lost"
          PROVE  \E d \in Blocks : \E i \in Int : Holds(d, i, m) /\ worker[d].pc # "lost"
      <3>1. PICK d \in Blocks : \E i \in Int : Holds(d, i, m) /\ p = <<d, i>>
        BY <1>1 DEF PendingIsPlaces
      <3>2. p[1] = d
        BY <3>1
      <3> QED
        BY <2>2, <3>1, <3>2
    <2> QED
      BY <2>1, <2>2, Zenon
  <1> QED
    BY <1>2, Zenon DEF HeldRule, Held

\* What a client sees of a proof depends on three facts only.
SameFacts(m) ==
    /\ AnswersTo(m)' = AnswersTo(m)
    /\ Held(m)' <=> Held(m)
    /\ Known(m)' <=> Known(m)

SameStatus == \A m \in Messages : Status(m)' = Status(m)

\* So nothing changes for it while they stay the same.
LEMMA StatusKept ==
    ASSUME NEW m, SameFacts(m)
    PROVE  Status(m)' = Status(m)
  BY DEF SameFacts, Status

\* A step that no client sees.
LEMMA Unseen ==
    ASSUME SameStatus, UNCHANGED service
    PROVE  UNCHANGED Service!vars
  BY DEF SameStatus, service, Service!vars

\* A step of one task that neither takes a batch nor answers: it holds what it
\* held, unless it ends with an error.
LEMMA OneTaskMoves ==
    ASSUME WorkersTyped, NEW b \in Blocks, NEW pc \in WorkerStates,
           worker' = [worker EXCEPT ![b].pc = pc],
           UNCHANGED <<batch_queue, answers, read>>
    PROVE  /\ \A m : AnswersTo(m)' = AnswersTo(m) /\ (Known(m)' <=> Known(m))
           /\ \A m : worker[b].pc # "lost" /\ Held(m)' => Held(m)
           /\ \A m : pc # "lost" \/ worker[b].batch = <<>> => (Held(m) => Held(m)')
  <1>1. /\ \A d \in Blocks : worker'[d].batch = worker[d].batch /\ worker'[d].pos = worker[d].pos
        /\ \A d \in Blocks : worker'[d].pc = IF d = b THEN pc ELSE worker[d].pc
    BY TaskMoves
  <1>2. \A d \in Blocks : \A i, m : Holds(d, i, m)' <=> Holds(d, i, m)
    BY <1>1 DEF Holds
  <1>3. HeldRule /\ HeldRule'
    BY HeldMeans, PTL
  <1>4. \A m : /\ AnswersTo(m)' = AnswersTo(m) /\ (Known(m)' <=> Known(m))
               /\ InQueue(m)' = InQueue(m)
    BY Zenon DEF AnswersTo, Known, InQueue
  <1>5. worker[b].batch = <<>> => \A m : \A i \in Int : ~Holds(b, i, m)
    BY DEF Holds, WorkersTyped, Worker
  <1> QED
    BY <1>1, <1>2, <1>3, <1>4, <1>5 DEF HeldRule
-----------------------------------------------------------------------------
\* add_to_batch takes a proof that was outside.
LEMMA AddToBatchTakes ==
    ASSUME BatcherInv, PlacesInv, NEW c \in Clients, AddToBatch(c)
    PROVE  \E n \in Messages : Service!Take(n)
  <1>1. PICK n \in Messages : n = AddedBy(c)
    BY AddToBatchEffect
  <1>2. /\ ~Known(n) /\ Known(n)' /\ InQueue(n)' = InQueue(n) \cup {Len(batch_queue) + 1}
        /\ Pending(n)' = Pending(n) /\ AnswersTo(n)' = AnswersTo(n)
    BY <1>1, AddToBatchEffect
  <1>3. InQueue(n) = {} /\ Pending(n) = {} /\ AnswersTo(n) = {}
    BY <1>2, Zenon DEF PlacesInv, EveryProofLocated, Located, Somewhere
  <1>4. Status(n) = "outside" /\ Status(n)' = "held"
    BY <1>2, <1>3 DEF Status, Held
  <1>5. ASSUME NEW m \in Messages \ {n}
        PROVE  Status(m)' = Status(m)
    <2>1. /\ InQueue(m)' = InQueue(m) /\ (Known(m)' <=> Known(m))
          /\ Pending(m)' = Pending(m) /\ AnswersTo(m)' = AnswersTo(m)
      BY <1>1, AddToBatchEffect
    <2>2. worker' = worker
      BY DEF AddToBatch
    <2>3. SameFacts(m)
      BY <2>1, <2>2, Zenon DEF SameFacts, Held
    <2> QED
      BY <2>3, StatusKept
  <1>6. UNCHANGED service
    BY DEF AddToBatch
  <1> QED
    BY <1>4, <1>5, <1>6 DEF Service!Take, service

\* A batch is cut from the queue behind the clients' backs.
LEMMA IsBatchReadyUnseen ==
    ASSUME BatcherInv, PlacesInv, NEW b \in Blocks, IsBatchReady(b)
    PROVE  UNCHANGED Service!vars
  <1>0. /\ WorkersTyped /\ batch_queue \in Seq(Messages) /\ Len(batch_queue) \in Nat
        /\ UNCHANGED <<read, answers, service>> /\ worker[b].pc = "check"
        /\ IdleTasksHoldNothing
    BY DEF BatcherInv, BatcherTypeOK, WorkersTyped, IsBatchReady, connections, service, PlacesInv
  <1>1. CASE NotReady(b)
    <2>1. worker' = [worker EXCEPT ![b].pc = "done"] /\ batch_queue' = batch_queue
      BY <1>1 DEF IsBatchReady
    <2>2. "done" \in WorkerStates
      BY DEF WorkerStates
    <2>3. \A m : SameFacts(m)
      BY <1>0, <2>1, <2>2, OneTaskMoves DEF SameFacts
    <2> QED
      BY <1>0, <2>3, StatusKept, Unseen DEF SameStatus
  <1>2. CASE ~NotReady(b)
    <2>1. PICK t \in 0..Len(batch_queue) : \A m : Splits(b, m, t)
      BY <1>0, <1>2, QueueSplit
    <2>2. /\ worker'[b].pc = "build"
          /\ \A d \in Blocks \ {b} : worker'[d] = worker[d]
      BY <1>0, <1>2, QueueSplit
    <2>3. HeldRule /\ HeldRule'
      BY HeldMeans, PTL
    <2>4. ASSUME NEW m
          PROVE  Held(m)' <=> Held(m)
      <3>1. \A d \in Blocks \ {b} : \A i \in Int : Holds(d, i, m)' <=> Holds(d, i, m)
        BY <2>2 DEF Holds
      <3>2. /\ \A i : i \in InQueue(m)' <=> i \in Int /\ i >= 1 /\ i + t \in InQueue(m)
            /\ \A i \in Int : Holds(b, i, m)' <=> i \in InQueue(m) /\ i <= t
            /\ \A i \in Int : ~Holds(b, i, m)
        BY <2>1 DEF Splits
      <3>3. InQueue(m) \subseteq 1..Len(batch_queue)
        BY <1>0 DEF InQueue
      <3>4. InQueue(m) # {} <=> InQueue(m)' # {} \/ \E i \in Int : Holds(b, i, m)'
        <4>1. ASSUME NEW k \in InQueue(m)
              PROVE  InQueue(m)' # {} \/ \E i \in Int : Holds(b, i, m)'
          <5>1. k \in Int /\ k >= 1
            BY <1>0, <3>3
          <5>2. k <= t => Holds(b, k, m)'
            BY <3>2, <5>1
          <5>3. k > t => k - t \in InQueue(m)'
            BY <3>2, <5>1
          <5> QED
            BY <5>1, <5>2, <5>3
        <4> QED
          BY <3>2, <4>1
      <3> QED
        BY <2>2, <2>3, <3>1, <3>2, <3>4 DEF HeldRule
    <2>5. \A m : SameFacts(m)
      BY <1>0, <2>4, Zenon DEF SameFacts, AnswersTo, Known
    <2> QED
      BY <1>0, <2>5, StatusKept, Unseen DEF SameStatus
  <1> QED
    BY <1>1, <1>2

\* An error in a task drops what it held, and it takes the fault to make one.
LEMMA FailuresDrop ==
    ASSUME BatcherInv, PlacesInv, NEW b \in Blocks, BuildFails(b) \/ UploadFails(b)
    PROVE  Service!Drop \/ UNCHANGED Service!vars
  <1>0. /\ WorkersTyped /\ worker' = [worker EXCEPT ![b].pc = "lost"]
        /\ UNCHANGED <<batch_queue, answers, read, service>>
        /\ worker[b].pc # "lost" /\ "lost" \in WorkerStates
    BY DEF BatcherInv, BatcherTypeOK, WorkersTyped, WorkerStates, BuildFails, UploadFails,
           elsewhere, connections, service
  <1>1. \A m : /\ AnswersTo(m)' = AnswersTo(m) /\ (Known(m)' <=> Known(m))
               /\ Held(m)' => Held(m)
               /\ worker[b].batch = <<>> => (Held(m) => Held(m)')
    BY <1>0, OneTaskMoves
  <1>2. CASE worker[b].batch = <<>>
    <2>1. \A m : SameFacts(m)
      BY <1>1, <1>2 DEF SameFacts
    <2> QED
      BY <1>0, <2>1, StatusKept, Unseen DEF SameStatus
  <1>3. CASE worker[b].batch # <<>>
    <2>1. Faults \cap {"s3", "events"} # {}
      BY <1>3 DEF BuildFails, UploadFails
    <2> DEFINE lost == {m \in Messages : Status(m) = "held" /\ Status(m)' # "held"}
    <2>2. ASSUME NEW m \in Messages
          PROVE  Status(m)' = IF m \in lost THEN "lost" ELSE Status(m)
      <3>1. CASE Held(m)' <=> Held(m)
        BY <1>1, <3>1, StatusKept DEF SameFacts
      <3>2. CASE Held(m) /\ ~Held(m)'
        <4>1. Known(m)
          <5>1. Somewhere(m) => Known(m)
            BY DEF PlacesInv, EveryProofLocated, Located
          <5>2. InQueue(m) # {} \/ Pending(m) # {}
            BY <3>2 DEF Held
          <5> QED
            BY <5>1, <5>2, Zenon DEF Somewhere
        <4> QED
          BY <1>1, <3>2, <4>1 DEF Status
      <3> QED
        BY <1>1, <3>1, <3>2
    <2>3. lost \in SUBSET Service!HeldMessages
      BY DEF Service!HeldMessages
    <2> HIDE DEF lost
    <2>4. Service!Losing(lost)
      BY <2>2 DEF Service!Losing
    <2>5. Service!Drop
      BY <1>0, <2>1, <2>3, <2>4 DEF Service!Drop, service
    <2> QED
      BY <2>5
  <1> QED
    BY <1>2, <1>3

\* A restart forgets whatever was held.
LEMMA RestartForgets ==
    ASSUME PlacesInv, Restart
    PROVE  Service!Forget
  <1>1. /\ batch_queue' = <<>> /\ worker' = [d \in Blocks |-> NoWorker]
        /\ UNCHANGED <<answers, read, service>> /\ "restart" \in Faults
    BY DEF Restart, service
  <1>2. \A m : AnswersTo(m)' = AnswersTo(m) /\ (Known(m)' <=> Known(m)) /\ InQueue(m)' = {}
    BY <1>1 DEF AnswersTo, Known, InQueue
  <1>3. \A m : ~Held(m)'
    <2>1. \A d \in Blocks : \A i \in Int : \A m : ~Holds(d, i, m)'
      BY <1>1 DEF Holds, NoWorker
    <2>2. HeldRule'
      BY HeldMeans, PTL
    <2> QED
      BY <1>2, <2>1, <2>2 DEF HeldRule
  <1>4. ASSUME NEW m \in Messages
        PROVE  Status(m)' = IF Status(m) = "held" THEN "lost" ELSE Status(m)
    <2>1. CASE ~Held(m)
      <3>1. SameFacts(m)
        BY <1>2, <1>3, <2>1 DEF SameFacts
      <3>2. Status(m) # "held"
        BY <2>1 DEF Status
      <3> QED
        BY <3>1, <3>2, StatusKept
    <2>2. CASE Held(m)
      <3>1. Known(m)
        <4>1. Somewhere(m) => Known(m)
          BY DEF PlacesInv, EveryProofLocated, Located
        <4>2. InQueue(m) # {} \/ Pending(m) # {}
          BY <2>2 DEF Held
        <4> QED
          BY <4>1, <4>2, Zenon DEF Somewhere
      <3> QED
        BY <1>2, <1>3, <2>2, <3>1 DEF Status
    <2> QED
      BY <2>1, <2>2
  <1>5. \A m \in Messages : m \in Service!HeldMessages <=> Status(m) = "held"
    BY DEF Service!HeldMessages
  <1>6. Service!Losing(Service!HeldMessages)
    BY <1>4, <1>5 DEF Service!Losing
  <1> QED
    BY <1>1, <1>6 DEF Service!Forget, service
-----------------------------------------------------------------------------
\* The task that uploads, creates or answers goes on to a place without error.
LEMMA WorkingTaskKeeps ==
    ASSUME BatcherInv, NEW b \in Blocks, NEW pc \in WorkerStates \ {"lost"},
           worker' = [worker EXCEPT ![b].pc = pc], worker[b].pc # "lost",
           UNCHANGED <<batch_queue, answers, read>>
    PROVE  SameStatus
  <1>1. WorkersTyped
    BY DEF BatcherInv, BatcherTypeOK, WorkersTyped
  <1>2. \A m : SameFacts(m)
    BY <1>1, OneTaskMoves DEF SameFacts
  <1> QED
    BY <1>2, StatusKept DEF SameStatus

\* What a task is about to answer is held, and by nobody else.
LEMMA BatchIsHeld ==
    ASSUME BatcherInv, PlacesInv, NEW b \in Blocks, worker[b].pc # "lost",
           NEW i \in worker[b].pos + 1..Len(worker[b].batch)
    PROVE  worker[b].batch[i] \in Messages /\ Status(worker[b].batch[i]) = "held"
  <1> DEFINE m == worker[b].batch[i]
  <1>0. worker[b] \in Worker /\ worker[b].pos \in Nat /\ worker[b].batch \in Seq(Messages)
        /\ Len(worker[b].batch) \in Nat
    BY DEF BatcherInv, BatcherTypeOK, Worker
  <1>1. i \in Int /\ i \in 1..Len(worker[b].batch)
    BY <1>0
  <1>2. m \in Messages
    BY <1>0, <1>1
  <1>3. Holds(b, i, m)
    BY DEF Holds
  <1> HIDE DEF m
  <1>4. Held(m)
    BY <1>1, <1>3, HeldMeans DEF HeldRule
  <1>5. Pending(m) # {}
    BY <1>1, <1>3, PendingMembers DEF PendingIsPlaces
  <1>6. AnswersTo(m) = {}
    BY <1>2, <1>5, Zenon DEF PlacesInv, EveryProofLocated, Located, NotInTwoPlaces
  <1>7. Status(m) = "held"
    BY <1>4, <1>6 DEF Status
  <1> QED
    BY <1>2, <1>7 DEF m

\* An upload publishes a batch of proofs that are held, or one of equal
\* contents that was published before.
LEMMA UploadPublishes ==
    ASSUME BatcherInv, PlacesInv, NEW b \in Blocks, Upload(b)
    PROVE  Service!Publish \/ UNCHANGED Service!vars
  <1> DEFINE w == worker[b]
             r == Root(w.batch)
  <1>0. /\ w \in Worker /\ w.batch \in Seq(Messages) /\ w.batch # <<>> /\ w.pos = 0
        /\ w.pc = "upload"
    BY DEF BatcherInv, BatcherTypeOK, EveryTaskProgresses, Progress, Upload, Worker
  <1>1. /\ stored' = stored \cup {r} /\ UNCHANGED <<tasks, answers, batch_queue, read>>
        /\ worker' = [worker EXCEPT ![b].pc = "create"]
    BY DEF Upload, elsewhere, connections
  <1>2. SameStatus
    <2>1. "create" \in WorkerStates \ {"lost"}
      BY DEF WorkerStates
    <2> QED
      BY <1>0, <1>1, <2>1, WorkingTaskKeeps
  <1>3. /\ DOMAIN r = 1..Len(w.batch)
        /\ \A i \in 1..Len(w.batch) : r[i] = content[w.batch[i]]
    BY <1>0, RootTyped
  <1>4. \A i \in 1..Len(w.batch) : w.batch[i] \in Messages /\ Status(w.batch[i]) = "held"
    <2>1. \A i \in 1..Len(w.batch) : i \in w.pos + 1..Len(w.batch)
      BY <1>0
    <2>2. w.pc # "lost"
      BY <1>0
    <2> QED
      BY <2>1, <2>2, BatchIsHeld
  <1>5. r # <<>>
    BY <1>0, <1>3
  <1> HIDE DEF r, w
  <1>6. Service!MadeOf(r, Service!HeldMessages)
    BY <1>3, <1>4, <1>5 DEF Service!MadeOf, Service!HeldMessages
  <1>7. CASE r \in stored
    <2>1. UNCHANGED service
      BY <1>1, <1>7 DEF service
    <2> QED
      BY <1>2, <2>1, Unseen
  <1>8. CASE r \notin stored
    <2>1. r \in stored' \ stored
      BY <1>1, <1>8
    <2>2. [m \in Messages |-> Status(m)]' = [m \in Messages |-> Status(m)]
      BY <1>2 DEF SameStatus
    <2> QED
      BY <1>1, <1>6, <2>1, <2>2 DEF Service!Publish
  <1> QED
    BY <1>7, <1>8

\* A task is created for a batch that was published, or the error is logged and
\* no client sees anything.
LEMMA CreateTaskCreates ==
    ASSUME BatcherInv, NEW b \in Blocks, CreateTask(b)
    PROVE  \/ \E root \in stored : Service!CreateTask(root)
           \/ UNCHANGED Service!vars
  <1> DEFINE r == Root(worker[b].batch)
  <1>0. r \in stored /\ worker[b].pc = "create"
    BY DEF BatcherInv, EveryTaskProgresses, Progress, CreateTask
  <1>1. /\ UNCHANGED <<stored, answers, batch_queue, read>>
        /\ worker' = [worker EXCEPT ![b].pc = "answer"]
        /\ tasks' = tasks \cup {r} \/ tasks' = tasks
    BY DEF CreateTask, elsewhere, connections
  <1>2. SameStatus
    <2>1. "answer" \in WorkerStates \ {"lost"}
      BY DEF WorkerStates
    <2> QED
      BY <1>0, <1>1, <2>1, WorkingTaskKeeps
  <1> HIDE DEF r
  <1>3. CASE tasks' = tasks
    <2>1. UNCHANGED service
      BY <1>1, <1>3 DEF service
    <2> QED
      BY <1>2, <2>1, Unseen
  <1>4. CASE tasks' = tasks \cup {r}
    <2>1. [m \in Messages |-> Status(m)]' = [m \in Messages |-> Status(m)]
      BY <1>2 DEF SameStatus
    <2>2. Service!CreateTask(r)
      BY <1>1, <1>4, <2>1 DEF Service!CreateTask
    <2> QED
      BY <1>0, <2>2
  <1> QED
    BY <1>1, <1>3, <1>4

\* An answer goes to a client whose proof is held, and tells where it is.
LEMMA SendResponseAnswers ==
    ASSUME BatcherInv, PlacesInv, [Next]_vars, NEW b \in Blocks, SendResponse(b)
    PROVE  \E n \in Messages : Service!Answer(n)
  <1> DEFINE w == worker[b]
             v == AfterAnswer(w)
             a == InclusionData(w)
  <1>0. /\ WorkersTyped /\ w \in Worker /\ w.pos < Len(w.batch) /\ w.pc = "answer"
        /\ w.pos \in Nat /\ Len(w.batch) \in Nat
    BY DEF BatcherInv, BatcherTypeOK, WorkersTyped, EveryTaskProgresses, Progress,
           SendResponse, Worker
  <1>1. w.pos + 1 \in w.pos + 1..Len(w.batch) /\ w.pos + 1 \in Int
    BY <1>0
  <1>2. PICK n \in Messages : n = w.batch[w.pos + 1] /\ Status(n) = "held"
    BY <1>0, <1>1, BatchIsHeld
  <1>3. /\ UNCHANGED <<batch_queue, read, stored, tasks>>
        /\ answers' = answers \cup {a}
    BY DEF SendResponse, elsewhere, connections
  <1>4. v.pos = w.pos + 1 /\ v.batch = w.batch /\ v.pc \in {"start", "answer"}
    BY <1>0, TaskAnswered
  <1>5. worker'[b] = v /\ \A d \in Blocks \ {b} : worker'[d] = worker[d]
    BY <1>0, TaskAnswers
  <1>6. a.message = n /\ a \in answers'
    BY <1>2, <1>3 DEF InclusionData
  <1>7. v.pc # "lost"
    BY <1>4
  <1> HIDE DEF v
  <1>8. Service!Inclusion(n, a.root, a.index)
    <2>1. AnswerIsRetrievable'
      BY AnswersStep
    <2>2. /\ a.root \in stored'
          /\ a.index + 1 \in DOMAIN a.root
          /\ a.root[a.index + 1] = content[a.message]
      BY <1>6, <2>1 DEF AnswerIsRetrievable
    <2> QED
      BY <1>3, <1>6, <2>2 DEF Service!Inclusion
  <1> HIDE DEF a
  <1>9. AnswersTo(n)' # {} /\ Status(n)' = "answered"
    <2>1. a \in AnswersTo(n)'
      BY <1>6 DEF AnswersTo
    <2> QED
      BY <2>1 DEF Status
  <1>10. ASSUME NEW m \in Messages \ {n}
         PROVE  Status(m)' = Status(m)
    <2>1. AnswersTo(m)' = AnswersTo(m)
      BY <1>3, <1>6 DEF AnswersTo
    <2>2. Known(m)' <=> Known(m)
      BY <1>3, Zenon DEF Known
    <2>3. InQueue(m)' = InQueue(m)
      BY <1>3, Zenon DEF InQueue
    <2>4. \A i \in Int : Holds(b, i, m)' <=> Holds(b, i, m)
      <3>1. w.batch[w.pos + 1] # m
        BY <1>2
      <3> QED
        BY <1>0, <1>4, <1>5, <3>1, SMTT(30) DEF Holds
    <2>5. \A d \in Blocks \ {b} : \A i \in Int : Holds(d, i, m)' <=> Holds(d, i, m)
      BY <1>5 DEF Holds
    <2>6. \A d \in Blocks : worker'[d].pc # "lost" <=> worker[d].pc # "lost"
      BY <1>0, <1>5, <1>7
    <2>7. HeldRule /\ HeldRule'
      BY HeldMeans, PTL
    <2>8. Held(m)' <=> Held(m)
      BY <2>3, <2>4, <2>5, <2>6, <2>7 DEF HeldRule
    <2> QED
      BY <2>1, <2>2, <2>8, StatusKept DEF SameFacts
  <1> HIDE DEF w
  <1>11. Service!Answer(n)
    BY <1>2, <1>3, <1>6, <1>8, <1>9, <1>10 DEF Service!Answer
  <1> QED
    BY <1>11

\* Blocks, subscriptions and what happens before add_to_batch or between two
\* awaits of a task are not seen.
LEMMA QuietStepsUnseen ==
    ASSUME BatcherInv,
           \/ \E c \in Clients : HandleMessage(c)
           \/ NewBlock
           \/ StreamEnds
           \/ \E b \in Blocks : LockQueue(b) \/ Build(b) \/ LockLast(b)
           \/ UNCHANGED vars
    PROVE  UNCHANGED Service!vars
  <1>0. WorkersTyped /\ Spawned /\ block \in Nat
    BY BatcherAssumption DEF BatcherInv, BatcherTypeOK, WorkersTyped
  <1>1. UNCHANGED <<batch_queue, answers, read, service>>
    BY DEF HandleMessage, NewBlock, StreamEnds, LockQueue, Build, LockLast, vars, service,
           connections, elsewhere
  <1>2. CASE worker' = worker
    <2>0. \A m : Pending(m)' = Pending(m)
      BY <1>2, PendingKept
    <2>1. \A m : SameFacts(m)
      BY <1>1, <1>2, <2>0, Zenon DEF SameFacts, AnswersTo, Held, Known, InQueue
    <2> QED
      BY <1>1, <2>1, StatusKept, Unseen DEF SameStatus
  <1>3. ASSUME NEW b \in Blocks, NEW pc \in WorkerStates \ {"lost"}, worker[b].pc # "lost",
               worker' = [worker EXCEPT ![b].pc = pc]
        PROVE  UNCHANGED Service!vars
    <2>1. SameStatus
      BY <1>1, <1>3, WorkingTaskKeeps
    <2> QED
      BY <1>1, <2>1, Unseen
  <1>4. {"start", "check", "submit", "upload"} \subseteq WorkerStates \ {"lost"}
    BY DEF WorkerStates
  <1>5. CASE NewBlock
    <2>1. block + 1 \in Blocks
      BY <1>0, <1>5, BatcherAssumption DEF NewBlock, Blocks
    <2>2. worker[block + 1].pc # "lost"
      BY <1>0, <2>1 DEF Spawned
    <2>3. worker' = worker \/ worker' = [worker EXCEPT ![block + 1].pc = "start"]
      BY <1>5, Zenon DEF NewBlock
    <2> QED
      BY <1>2, <1>3, <1>4, <2>1, <2>2, <2>3
  <1>6. ASSUME NEW b \in Blocks, LockQueue(b) \/ Build(b) \/ LockLast(b)
        PROVE  UNCHANGED Service!vars
    BY <1>3, <1>4, <1>6 DEF LockQueue, Build, LockLast
  <1>7. ASSUME \/ \E c \in Clients : HandleMessage(c)
               \/ StreamEnds
               \/ UNCHANGED vars
        PROVE  worker' = worker
    BY <1>7 DEF HandleMessage, StreamEnds, vars
  <1> QED
    BY <1>2, <1>5, <1>6, <1>7

\* Every step of the batcher is a step of the service, or not seen.
LEMMA ServiceStep ==
    BatcherInv /\ PlacesInv /\ [Next]_vars => [Service!Next]_(Service!vars)
  <1> SUFFICES ASSUME BatcherInv, PlacesInv, [Next]_vars
               PROVE  Service!Next \/ UNCHANGED Service!vars
    OBVIOUS
  <1>1. ASSUME NEW c \in Clients, AddToBatch(c)
        PROVE  Service!Next
    BY <1>1, AddToBatchTakes DEF Service!Next
  <1>2. CASE Restart
    BY <1>2, RestartForgets DEF Service!Next
  <1>3. ASSUME NEW b \in Blocks, HandleNewBlock(b)
        PROVE  Service!Next \/ UNCHANGED Service!vars
    <2>1. CASE BuildFails(b) \/ UploadFails(b)
      BY <2>1, FailuresDrop DEF Service!Next
    <2>2. CASE Upload(b)
      BY <2>2, UploadPublishes DEF Service!Next
    <2>3. CASE CreateTask(b)
      BY <2>3, CreateTaskCreates DEF Service!Next
    <2>4. CASE SendResponse(b)
      BY <2>4, SendResponseAnswers DEF Service!Next
    <2>5. CASE IsBatchReady(b)
      BY <2>5, IsBatchReadyUnseen
    <2>6. CASE LockQueue(b) \/ Build(b) \/ LockLast(b)
      BY <2>6, QuietStepsUnseen
    <2> QED
      BY <1>3, <2>1, <2>2, <2>3, <2>4, <2>5, <2>6 DEF HandleNewBlock
  <1> QED
    BY <1>1, <1>2, <1>3, QuietStepsUnseen DEF Next

\* The batcher starts where the service does.
LEMMA ServiceInit == Init => Service!Init
  <1> SUFFICES ASSUME Init PROVE Service!Init
    OBVIOUS
  <1>1. stored = {} /\ tasks = {} /\ answers = {} /\ batch_queue = <<>>
        /\ worker = [d \in Blocks |-> NoWorker] /\ read = [c \in Clients |-> 0]
    BY DEF Init
  <1>2. \A m : AnswersTo(m) = {} /\ InQueue(m) = {} /\ ~Known(m)
    BY <1>1 DEF AnswersTo, InQueue, Known
  <1>3. \A m : ~Held(m)
    <2>1. \A d \in Blocks : \A i \in Int : \A m : ~Holds(d, i, m)
      BY <1>1 DEF Holds, NoWorker
    <2> QED
      BY <1>2, <2>1, HeldMeans DEF HeldRule
  <1>4. \A m \in Messages : Status(m) = "outside"
    BY <1>2, <1>3 DEF Status
  <1> QED
    BY <1>1, <1>4 DEF Service!Init

\* Whatever the tasks of several blocks, the clients, S3, the chain and a
\* restart do to it, the batcher behaves as ProofService to its clients: no
\* proof is answered twice or after it was lost, none is lost without a fault,
\* and no answer names a batch that cannot be downloaded.
THEOREM BatcherImplementsService == Spec => ImplementsService
  BY ServiceInit, ServiceStep, BatcherInvariant, PlacesInvariant, PTL
  DEF Spec, ImplementsService, Service!Spec
=============================================================================
