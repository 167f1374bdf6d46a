------------------------- MODULE TaskSender_proofs --------------------------
(***************************************************************************)
(* Proofs about the task sender beside the contract, for any number of     *)
(* processes started as any commands, any number of proofs and setups, and *)
(* any failures.                                                           *)
(***************************************************************************)
EXTENDS TaskSender, AlignedLayerServiceManager_proofs

\* The places past the choice of a proving system and past the reading of files.
Reading == {"read", "upload", "estimate", "wait"}
HasRead == {"upload", "estimate", "wait"}

\* Where a process comes to under its command, and what its counters are there.
OnItsWay(s) ==
    /\ x[s] > 0 => command[s].mode = "infinite"
    /\ command[s].mode = "infinite" => pc[s] = "generate" \/ x[s] > 0
    /\ pc[s] \in {"generate", "create", "write"} => command[s].mode = "infinite"
    /\ pc[s] \in Reading => System(s) # NoSystem
    /\ pc[s] \in {"config", "parse"} => at[s] = 1
    /\ pc[s] \in {"upload", "estimate", "wait", "sleep"} => at[s] = 1
    /\ tx[s] = "pending" => pc[s] \in {"wait", "failed"}

\* What has been read of the files given by flags is what they hold; what is
\* sent afterwards is a root.
ReadsItsFiles(s) ==
    /\ x[s] = 0 /\ pc[s] = "read" =>
          /\ at[s] > 1 => data[s].proof = command[s].files.proof
          /\ at[s] > 2 => data[s].pub = command[s].files.pub
    /\ pc[s] \in HasRead \/ tx[s] = "pending" => Root(s) \in Roots

\* Between the upload and the receipt: the data is in the bucket, the root is
\* new to the process, and a receipt means that somebody's task exists.
Sending(s) ==
    /\ pc[s] \in {"estimate", "wait"} \/ tx[s] = "pending" => Root(s) \in store
    /\ pc[s] = "wait" => \A i \in DOMAIN sent[s] : sent[s][i] # Root(s)
    /\ pc[s] = "wait" /\ tx[s] # "pending" => Exists(Root(s))

SenderInv ==
    /\ TaskSenderTypeOK
    /\ DataBeforeTask
    /\ SuccessMeansExists
    /\ NoRootTwice
    /\ \A s \in Senders : OnItsWay(s) /\ ReadsItsFiles(s) /\ Sending(s)
-----------------------------------------------------------------------------
\* A file set is a function on the three names.
LEMMA FilesByName ==
    ASSUME NEW f \in FileSets, NEW i \in 1..3, NEW v \in Setups \cup {Empty}
    PROVE  /\ f[FileNames[i]] \in Setups \cup {Empty}
           /\ [f EXCEPT ![FileNames[i]] = v] \in FileSets
           /\ [f EXCEPT ![WrittenNames[i]] = v] \in FileSets
  <1>1. i = 1 \/ i = 2 \/ i = 3
    OBVIOUS
  <1>2. CASE i = 1
    BY <1>2 DEF FileSets, FileNames, WrittenNames
  <1>3. CASE i = 2
    BY <1>3 DEF FileSets, FileNames, WrittenNames
  <1>4. CASE i = 3
    BY <1>4 DEF FileSets, FileNames, WrittenNames
  <1> QED
    BY <1>1, <1>2, <1>3, <1>4

\* One of the file sets of a directory is replaced.
LEMMA FilesUpdate ==
    ASSUME NEW f \in [1..MaxX -> FileSets], NEW n \in 1..MaxX, NEW g \in FileSets
    PROVE  [f EXCEPT ![n] = g] \in [1..MaxX -> FileSets]
  OBVIOUS

\* The names of the proving systems lead to their identifiers.
LEMMA ParsedIsId ==
    ASSUME NEW name, ParseProvingSystem(name) # NoSystem
    PROVE  ParseProvingSystem(name) \in ProvingSystemIds
  BY DEF ParseProvingSystem, ProvingSystemIds, NoSystem, GnarkPlonkBls12_381, GnarkPlonkBn254,
         Groth16Bn254, SP1, Halo2KZG, Halo2IPA

\* Before any process has started.
LEMMA SenderInit == Init => SenderInv
  <1> SUFFICES ASSUME Init
               PROVE  SenderInv
    OBVIOUS
  <1>1. ChainTypeOK
    BY TypeInit DEF Init
  <1>2. EmptyFiles \in FileSets /\ 0 \in Setups
    BY StartsAssumption DEF EmptyFiles, FileSets, Setups
  <1>3. TaskSenderTypeOK
    BY <1>1, <1>2, StartsAssumption DEF Init, TaskSenderTypeOK, Places
  <1>4. DataBeforeTask
    BY DEF Init, ChainInit, DataBeforeTask, Exists
  <1>5. ASSUME NEW s \in Senders
        PROVE  OnItsWay(s) /\ ReadsItsFiles(s) /\ Sending(s)
    BY DEF Init, OnItsWay, ReadsItsFiles, Sending, Reading, HasRead
  <1> QED
    BY <1>3, <1>4, <1>5 DEF SenderInv, Init, SuccessMeansExists, NoRootTwice
-----------------------------------------------------------------------------
(***************************************************************************)
(* The chain beside the senders: every step creates one task, of a sender  *)
(* whose transaction is mined, or none.                                    *)
(***************************************************************************)
LEMMA ChainEffect ==
    ASSUME SenderInv, [Next]_vars
    PROVE  \/ UNCHANGED chainVars
           \/ \E s \in Senders : /\ tx[s] = "pending" /\ Root(s) \in Roots
                                 /\ Mined(s) /\ CreateNewTask(Root(s))
  <1> USE DEF SenderInv
  <1>1. ASSUME NEW s \in Senders, SenderStep(s) \/ ServiceFails(s)
        PROVE  UNCHANGED chainVars
    BY <1>1 DEF SenderStep, ServiceFails, Generate, Create, Write, Configure, Parse, Read,
               Upload, SendTransaction, Receipt, Wake, Refused, Pass, End
  <1>2. ASSUME NEW s \in Senders, Mined(s)
        PROVE  \/ UNCHANGED chainVars
               \/ tx[s] = "pending" /\ Root(s) \in Roots /\ CreateNewTask(Root(s))
    BY <1>2 DEF Mined, ReadsItsFiles
  <1> QED
    BY <1>1, <1>2 DEF Next, vars

\* The contract keeps its types, and a batch that exists goes on existing.
LEMMA ChainKept ==
    ASSUME SenderInv, [Next]_vars
    PROVE  /\ ChainTypeOK'
           /\ \A r \in Roots : Exists(r) => Exists(r)'
           /\ \A r \in Roots : Exists(r)' => \/ Exists(r)
                                             \/ \E s \in Senders : tx[s] = "pending" /\ r = Root(s)
  <1>0. ChainTypeOK
    BY DEF SenderInv, TaskSenderTypeOK
  <1>1. CASE UNCHANGED chainVars
    <2>1. ChainTypeOK'
      BY <1>0, <1>1, TypeStep
    <2> QED
      BY <1>1, <2>1 DEF chainVars, Exists
  <1>2. ASSUME NEW s \in Senders, tx[s] = "pending", Root(s) \in Roots, CreateNewTask(Root(s))
        PROVE  /\ ChainTypeOK'
               /\ \A r \in Roots : Exists(r)' <=> Exists(r) \/ r = Root(s)
    <2>1. ChainTypeOK'
      BY <1>0, <1>2, TypeStep DEF ChainNext
    <2>2. blockNumber \in 1..MaxBlock /\ uint32(blockNumber) # 0
      BY <1>0, BlockNumberFits DEF ChainTypeOK
    <2>3. \A r \in Roots : Exists(r)' <=> Exists(r) \/ r = Root(s)
      BY <1>0, <1>2, <2>2 DEF ChainTypeOK, CreateNewTask, Exists, BatchState
    <2> QED
      BY <2>1, <2>3
  <1> QED
    BY <1>1, <1>2, ChainEffect
-----------------------------------------------------------------------------
\* A root whose system is known is made of what has been read.
RootRule ==
    TaskSenderTypeOK =>
        \A s \in Senders :
            /\ OnItsWay(s) /\ System(s) # NoSystem /\ pc[s] # "generate"
            /\ x[s] = 0 => data[s] = command[s].files
            => Root(s) \in Roots

\* What has been read is of a kind that the assumption on Roots speaks of.
LEMMA RootFromData == RootRule
  <1> SUFFICES ASSUME TaskSenderTypeOK, NEW s \in Senders, OnItsWay(s), System(s) # NoSystem,
                      pc[s] # "generate",
                      x[s] = 0 => data[s] = command[s].files
               PROVE  Root(s) \in Roots
    BY DEF RootRule
  <1>1. /\ command \in Starts /\ command[s] \in Commands /\ data[s] \in FileSets /\ x[s] \in Nat
    BY StartsAssumption DEF TaskSenderTypeOK
  <1>2. CASE x[s] = 0
    <2>1. command[s].mode # "infinite"
      BY <1>2 DEF OnItsWay
    <2> QED
      BY <1>1, <1>2, <2>1, StartsAssumption DEF Root, System
  <1>3. CASE x[s] # 0
    <2>1. command[s].mode = "infinite"
      BY <1>1, <1>3 DEF OnItsWay
    <2>2. [id : {System(s)}, made : {Groth16Bn254}, proof : Setups \cup {Empty},
           key : Setups \cup {Empty}, pub : BOOLEAN] \subseteq Roots
      BY <1>1, <2>1, StartsAssumption DEF System
    <2>3. Root(s) \in [id : {System(s)}, made : {Groth16Bn254}, proof : Setups \cup {Empty},
                       key : Setups \cup {Empty}, pub : BOOLEAN]
      BY <1>1, <1>3 DEF Root, FileSets
    <2> QED
      BY <2>2, <2>3
  <1> QED
    BY <1>2, <1>3

\* A step of one process leaves the others where they are.
LEMMA Others ==
    ASSUME SenderInv, NEW s \in Senders, SenderStep(s) \/ ServiceFails(s) \/ Mined(s),
           NEW q \in Senders, q # s
    PROVE  /\ UNCHANGED command
           /\ pc'[q] = pc[q] /\ at'[q] = at[q] /\ x'[q] = x[q] /\ data'[q] = data[q]
           /\ tx'[q] = tx[q] /\ sent'[q] = sent[q]
           /\ Root(q)' = Root(q) /\ System(q)' = System(q)
  <1>1. /\ UNCHANGED command
        /\ pc'[q] = pc[q] /\ at'[q] = at[q] /\ x'[q] = x[q] /\ data'[q] = data[q]
        /\ tx'[q] = tx[q] /\ sent'[q] = sent[q]
    BY DEF SenderInv, TaskSenderTypeOK, SenderStep, ServiceFails, Mined, Generate, Create, Write,
           Configure, Parse, Read, Upload, SendTransaction, Receipt, Wake, Refused, Pass, End,
           GoTo, Advance
  <1> QED
    BY <1>1 DEF Root, System

\* Every step keeps the types; a root is a root when it is reported.
LEMMA SenderTypeStep == SenderInv /\ [Next]_vars => TaskSenderTypeOK'
  <1> SUFFICES ASSUME SenderInv, [Next]_vars
               PROVE  TaskSenderTypeOK'
    OBVIOUS
  <1>0. TaskSenderTypeOK /\ ChainTypeOK'
    BY ChainKept DEF SenderInv
  <1> USE DEF TaskSenderTypeOK, GoTo, At, Places
  <1>1. ASSUME NEW s \in Senders, SenderStep(s)
        PROVE  TaskSenderTypeOK'
    <2>1. CASE Generate(s)
      <3>1. x'[s] \in 0..MaxX /\ setups' \in Setups /\ made'[s] \in Setups
        BY <1>0, <2>1, StartsAssumption DEF Generate, NewSetup, Setups
      <3> QED
        BY <1>0, <2>1, <3>1 DEF Generate
    <2>2. ASSUME Create(s) \/ Write(s)
          PROVE  TaskSenderTypeOK'
      <3>1. x[s] \in 1..MaxX /\ at[s] \in 1..3 /\ made[s] \in Setups
        <4>1. OnItsWay(s) /\ pc[s] \in {"create", "write"}
          BY <2>2 DEF SenderInv, Create, Write, Advance
        <4>2. x[s] \in 0..MaxX /\ x[s] > 0
          BY <1>0, <4>1 DEF OnItsWay
        <4> QED
          BY <1>0, <4>2, StartsAssumption
      <3>2. files[x[s]] \in FileSets
        BY <1>0, <3>1
      <3>3. files' \in [1..MaxX -> FileSets]
        <4>1. \A v \in Setups \cup {Empty} :
                  [files[x[s]] EXCEPT ![WrittenNames[at[s]]] = v] \in FileSets
          BY <3>1, <3>2, FilesByName
        <4>2. PICK v \in Setups \cup {Empty} :
                  files' = [files EXCEPT ![x[s]] = [files[x[s]] EXCEPT ![WrittenNames[at[s]]] = v]]
          BY <2>2, <3>1 DEF Create, Write
        <4>3. files \in [1..MaxX -> FileSets]
          BY <1>0
        <4> HIDE DEF TaskSenderTypeOK
        <4> QED
          BY <3>1, <4>1, <4>2, <4>3, FilesUpdate
      <3>4. at' \in [Senders -> 1..3] /\ pc' \in [Senders -> Places]
        <4>1. pc \in [Senders -> Places] /\ at \in [Senders -> 1..3]
          BY <1>0
        <4>2. CASE Create(s)
          BY <4>1, <4>2 DEF Create, Advance
        <4>3. CASE Write(s)
          BY <4>1, <4>3 DEF Write, Advance
        <4> QED
          BY <2>2, <4>2, <4>3
      <3> QED
        BY <1>0, <2>2, <3>3, <3>4 DEF Create, Write
    <2>3. ASSUME Configure(s) \/ Parse(s) \/ Wake(s) \/ Refused(s)
          PROVE  TaskSenderTypeOK'
      BY <1>0, <2>3 DEF Configure, Parse, Wake, Refused, Pass, End
    <2>4. CASE Read(s)
      <3>1. FileRead(s) \in Setups \cup {Empty}
        <4>1. CASE x[s] = 0
          <5>1. command[s].files \in FileSets
            BY <1>0, StartsAssumption DEF Commands
          <5> QED
            BY <1>0, <4>1, <5>1, FilesByName DEF FileRead
        <4>2. CASE x[s] # 0
          <5>1. x[s] \in 1..MaxX
            BY <1>0, <4>2, StartsAssumption
          <5>2. files[x[s]] \in FileSets
            BY <1>0, <5>1
          <5> QED
            BY <1>0, <4>2, <5>2, FilesByName DEF FileRead
        <4> QED
          BY <4>1, <4>2
      <3>2. [data[s] EXCEPT ![FileNames[at[s]]] = FileRead(s)] \in FileSets
        BY <1>0, <3>1, FilesByName
      <3>3. data' \in [Senders -> FileSets]
        BY <1>0, <2>4, <3>2 DEF Read
      <3>4. at' \in [Senders -> 1..3] /\ pc' \in [Senders -> Places]
        <4>1. pc \in [Senders -> Places] /\ at \in [Senders -> 1..3]
          BY <1>0
        <4> QED
          BY <2>4, <4>1 DEF Read, Advance
      <3> QED
        BY <1>0, <2>4, <3>3, <3>4 DEF Read
    <2>5. CASE Upload(s)
      BY <1>0, <2>5 DEF Upload, Pass, SenderInv, ReadsItsFiles, HasRead
    <2>6. CASE SendTransaction(s)
      BY <1>0, <2>6 DEF SendTransaction
    <2>7. CASE Receipt(s)
      <3>1. sent'[s] \in Seq(Roots)
        BY <1>0, <2>7 DEF Receipt, SenderInv, ReadsItsFiles, HasRead
      <3> QED
        BY <1>0, <2>7, <3>1 DEF Receipt
    <2> QED
      BY <1>1, <2>1, <2>2, <2>3, <2>4, <2>5, <2>6, <2>7 DEF SenderStep
  <1>2. ASSUME NEW s \in Senders, ServiceFails(s)
        PROVE  TaskSenderTypeOK'
    BY <1>0, <1>2 DEF ServiceFails, End
  <1>3. ASSUME NEW s \in Senders, Mined(s)
        PROVE  TaskSenderTypeOK'
    BY <1>0, <1>3 DEF Mined
  <1>4. CASE UNCHANGED vars
    BY <1>0, <1>4 DEF vars, process
  <1> QED
    BY <1>1, <1>2, <1>3, <1>4 DEF Next
-----------------------------------------------------------------------------
\* The commands lead their processes from place to place.
LEMMA OnItsWayStep ==
    ASSUME SenderInv, [Next]_vars, NEW q \in Senders
    PROVE  OnItsWay(q)'
  <1>0. TaskSenderTypeOK /\ OnItsWay(q)
    BY DEF SenderInv
  <1> USE DEF OnItsWay, GoTo, At, Reading
  <1>1. ASSUME NEW s \in Senders, SenderStep(s) \/ ServiceFails(s) \/ Mined(s), s # q
        PROVE  OnItsWay(q)'
    BY <1>0, <1>1, Others
  <1>2. CASE Generate(q)
    BY <1>0, <1>2, StartsAssumption DEF Generate, TaskSenderTypeOK
  <1>3. CASE Create(q) \/ Write(q)
    BY <1>0, <1>3 DEF Create, Write, Advance, TaskSenderTypeOK, System
  <1>4. CASE Configure(q) \/ Parse(q) \/ Upload(q)
    BY <1>0, <1>4 DEF Configure, Parse, Upload, Pass, TaskSenderTypeOK, System
  <1>5. CASE Read(q)
    BY <1>0, <1>5 DEF Read, Advance, TaskSenderTypeOK, System
  <1>6. CASE SendTransaction(q)
    BY <1>0, <1>6 DEF SendTransaction, TaskSenderTypeOK, System
  <1>7. CASE Receipt(q)
    BY <1>0, <1>7 DEF Receipt, HasReceipt, TaskSenderTypeOK, System
  <1>8. CASE Wake(q) \/ Refused(q) \/ ServiceFails(q)
    BY <1>0, <1>8 DEF Wake, Refused, ServiceFails, End, TaskSenderTypeOK, System
  <1>9. CASE Mined(q)
    BY <1>0, <1>9 DEF Mined, TaskSenderTypeOK, System
  <1>10. CASE UNCHANGED vars
    BY <1>0, <1>10 DEF vars, process, System
  <1> QED
    BY <1>1, <1>2, <1>3, <1>4, <1>5, <1>6, <1>7, <1>8, <1>9, <1>10 DEF Next, SenderStep

\* A file given by a flag is read to its place in the batch, and the batch is
\* among the roots when the last has been read.
LEMMA ReadsStep ==
    ASSUME SenderInv, [Next]_vars, NEW q \in Senders
    PROVE  ReadsItsFiles(q)'
  <1>0. TaskSenderTypeOK /\ OnItsWay(q) /\ ReadsItsFiles(q)
    BY DEF SenderInv
  <1>a. TaskSenderTypeOK' /\ OnItsWay(q)' /\ RootRule'
    BY SenderTypeStep, OnItsWayStep, RootFromData, PTL
  <1> USE DEF ReadsItsFiles, GoTo, At, HasRead
  <1>1. ASSUME NEW s \in Senders, SenderStep(s) \/ ServiceFails(s) \/ Mined(s), s # q
        PROVE  ReadsItsFiles(q)'
    BY <1>0, <1>1, Others
  <1>2. CASE Generate(q)
    BY <1>0, <1>2, StartsAssumption DEF Generate, TaskSenderTypeOK, OnItsWay
  <1>3. CASE Create(q) \/ Write(q)
    BY <1>0, <1>3 DEF Create, Write, Advance, TaskSenderTypeOK, OnItsWay
  <1>4. CASE Configure(q) \/ Parse(q)
    BY <1>0, <1>4 DEF Configure, Parse, Pass, TaskSenderTypeOK, OnItsWay
  <1>5. CASE Read(q)
    <2>1. /\ at[q] \in 1..3 /\ data[q] \in FileSets /\ command[q].files \in FileSets
          /\ pc[q] = "read" /\ tx[q] # "pending" /\ System(q) # NoSystem
      BY <1>0, <1>5, StartsAssumption
      DEF Read, Advance, At, TaskSenderTypeOK, OnItsWay, Reading, Commands
    <2>2. /\ data'[q] = [data[q] EXCEPT ![FileNames[at[q]]] = FileRead(q)]
          /\ pc'[q] = (IF at[q] = 3 THEN "upload" ELSE "read")
          /\ at'[q] = (IF at[q] = 3 THEN 1 ELSE at[q] + 1)
          /\ UNCHANGED <<command, x, tx>> /\ System(q)' = System(q)
      BY <1>0, <1>5 DEF Read, Advance, TaskSenderTypeOK, System
    <2>3. CASE x[q] = 0
      <3>1. FileRead(q) = command[q].files[FileNames[at[q]]]
        BY <2>3 DEF FileRead
      <3>2. CASE at[q] = 1
        BY <1>0, <2>1, <2>2, <3>1, <3>2 DEF FileNames, FileSets
      <3>3. CASE at[q] = 2
        BY <1>0, <2>1, <2>2, <3>1, <3>3 DEF FileNames, FileSets
      <3>4. CASE at[q] = 3
        <4>1. data'[q] = command[q].files
          BY <1>0, <2>1, <2>2, <2>3, <3>1, <3>4 DEF FileNames, FileSets
        <4>2. Root(q)' \in Roots
          BY <1>a, <2>1, <2>2, <3>4, <4>1 DEF RootRule
        <4> QED
          BY <2>2, <3>4, <4>2
      <3> QED
        BY <2>1, <3>2, <3>3, <3>4
    <2>4. CASE x[q] # 0
      <3>1. CASE at[q] # 3
        BY <1>0, <2>1, <2>2, <2>4, <3>1
      <3>2. CASE at[q] = 3
        <4>1. Root(q)' \in Roots
          BY <1>a, <2>1, <2>2, <2>4, <3>2 DEF RootRule
        <4> QED
          BY <2>2, <2>4, <3>2, <4>1
      <3> QED
        BY <3>1, <3>2
    <2> QED
      BY <2>3, <2>4
  <1>6. CASE Upload(q)
    BY <1>0, <1>6 DEF Upload, Pass, At, TaskSenderTypeOK, Root, System
  <1>7. CASE SendTransaction(q)
    BY <1>0, <1>7 DEF SendTransaction, At, TaskSenderTypeOK, Root, System
  <1>8. CASE Receipt(q)
    BY <1>0, <1>8 DEF Receipt, At, TaskSenderTypeOK, Root, System
  <1>9. CASE Wake(q) \/ Refused(q) \/ ServiceFails(q)
    BY <1>0, <1>9 DEF Wake, Refused, ServiceFails, At, End, TaskSenderTypeOK, Root, System, OnItsWay
  <1>10. CASE Mined(q)
    BY <1>0, <1>10 DEF Mined, TaskSenderTypeOK, Root, System
  <1>11. CASE UNCHANGED vars
    BY <1>0, <1>11 DEF vars, process, Root, System
  <1> QED
    BY <1>1, <1>2, <1>3, <1>4, <1>5, <1>6, <1>7, <1>8, <1>9, <1>10, <1>11 DEF Next, SenderStep
-----------------------------------------------------------------------------
\* The bucket only grows, and the three steps of sending are made in order.
LEMMA SendingStep ==
    ASSUME SenderInv, [Next]_vars, NEW q \in Senders
    PROVE  Sending(q)'
  <1>0. /\ TaskSenderTypeOK /\ OnItsWay(q) /\ ReadsItsFiles(q) /\ Sending(q)
        /\ SuccessMeansExists
    BY DEF SenderInv
  <1>1. \A r \in Roots : Exists(r) => Exists(r)'
    BY ChainKept
  <1>2. store \subseteq store'
    BY DEF Next, SenderStep, ServiceFails, Mined, Generate, Create, Write, Configure, Parse, Read,
           Upload, SendTransaction, Receipt, Wake, Refused, Pass, End, vars
  <1> USE DEF Sending, GoTo, At
  <1>3. ASSUME NEW s \in Senders, SenderStep(s) \/ ServiceFails(s) \/ Mined(s), s # q
        PROVE  Sending(q)'
    BY <1>0, <1>1, <1>2, <1>3, Others DEF ReadsItsFiles, HasRead
  <1>4. CASE Generate(q) \/ Create(q) \/ Write(q) \/ Configure(q) \/ Parse(q) \/ Read(q)
    BY <1>0, <1>4
    DEF Generate, Create, Write, Configure, Parse, Read, Advance, At, Pass, TaskSenderTypeOK,
        OnItsWay
  <1>5. CASE Upload(q)
    BY <1>0, <1>5 DEF Upload, Pass, At, TaskSenderTypeOK, OnItsWay, Root, System
  <1>6. CASE SendTransaction(q)
    <2>1. /\ pc[q] = "estimate" /\ ~Exists(Root(q)) /\ Root(q)' = Root(q)
          /\ tx'[q] = "pending" /\ sent'[q] = sent[q] /\ Root(q) \in store'
      BY <1>0, <1>2, <1>6
      DEF SendTransaction, At, EstimationSucceeds, TaskSenderTypeOK, Root, System
    <2>2. \A i \in DOMAIN sent[q] : sent[q][i] # Root(q)
      BY <1>0, <2>1 DEF SuccessMeansExists
    <2> QED
      BY <2>1, <2>2
  <1>7. CASE Receipt(q)
    BY <1>0, <1>7 DEF Receipt, HasReceipt, At, TaskSenderTypeOK
  <1>8. CASE Wake(q) \/ Refused(q) \/ ServiceFails(q)
    BY <1>0, <1>8
    DEF Wake, Refused, ServiceFails, At, End, TaskSenderTypeOK, OnItsWay, Root, System
  <1>9. CASE Mined(q)
    <2>1. /\ tx[q] = "pending" /\ UNCHANGED <<command, pc, x, data, sent, store>>
          /\ Root(q) \in Roots
      BY <1>0, <1>9 DEF Mined, ReadsItsFiles
    <2>0. Root(q)' = Root(q)
      BY <2>1 DEF Root, System
    <2>2. Exists(Root(q))'
      <3>1. CASE Exists(Root(q)) /\ UNCHANGED chainVars
        BY <2>0, <3>1 DEF chainVars, Exists
      <3>2. CASE CreateNewTask(Root(q))
        <4>1. ChainTypeOK /\ uint32(blockNumber) # 0
          BY <1>0, BlockNumberFits DEF ChainTypeOK, TaskSenderTypeOK
        <4> QED
          BY <2>0, <2>1, <3>2, <4>1 DEF ChainTypeOK, CreateNewTask, Exists, BatchState
      <3> QED
        BY <1>9, <3>1, <3>2 DEF Mined
    <2> QED
      BY <1>0, <2>0, <2>1, <2>2
  <1>10. CASE UNCHANGED vars
    BY <1>0, <1>10 DEF vars, process, chainVars, Root, System, Exists
  <1> QED
    BY <1>3, <1>4, <1>5, <1>6, <1>7, <1>8, <1>9, <1>10 DEF Next, SenderStep

\* What was reported as sent exists, once, and its data is there.
LEMMA HistoryStep ==
    ASSUME SenderInv, [Next]_vars
    PROVE  (DataBeforeTask /\ SuccessMeansExists /\ NoRootTwice)'
  <1>0. /\ TaskSenderTypeOK /\ DataBeforeTask /\ SuccessMeansExists /\ NoRootTwice
        /\ \A s \in Senders : OnItsWay(s) /\ ReadsItsFiles(s) /\ Sending(s)
    BY DEF SenderInv
  <1>1. \A r \in Roots : Exists(r) => Exists(r)'
    BY ChainKept
  <1>2. store \subseteq store'
    BY DEF Next, SenderStep, ServiceFails, Mined, Generate, Create, Write, Configure, Parse, Read,
           Upload, SendTransaction, Receipt, Wake, Refused, Pass, End, vars
  <1>3. DataBeforeTask'
    BY <1>0, <1>2, ChainKept DEF DataBeforeTask, Sending
  <1>4. CASE sent' = sent
    BY <1>0, <1>1, <1>3, <1>4 DEF SuccessMeansExists, NoRootTwice, TaskSenderTypeOK
  <1>5. ASSUME NEW s \in Senders, Receipt(s)
        PROVE  (SuccessMeansExists /\ NoRootTwice)'
    <2>1. /\ pc[s] = "wait" /\ tx[s] # "pending" /\ UNCHANGED chainVars
          /\ sent' = [sent EXCEPT ![s] = Append(@, Root(s))]
      BY <1>0, <1>5 DEF Receipt, At, HasReceipt
    <2>2. /\ Exists(Root(s)) /\ Root(s) \in Roots
          /\ \A i \in DOMAIN sent[s] : sent[s][i] # Root(s)
      BY <1>0, <2>1 DEF Sending, ReadsItsFiles, HasRead
    <2>3. \A q \in Senders : sent[q] \in Seq(Roots)
      BY <1>0 DEF TaskSenderTypeOK
    <2>4. /\ \A q \in Senders \ {s} : sent'[q] = sent[q]
          /\ sent'[s] = Append(sent[s], Root(s))
      BY <1>0, <2>1 DEF TaskSenderTypeOK
    <2>5. /\ DOMAIN sent'[s] = 1..Len(sent[s]) + 1 /\ DOMAIN sent[s] = 1..Len(sent[s])
          /\ sent'[s][Len(sent[s]) + 1] = Root(s)
          /\ \A i \in DOMAIN sent[s] : sent'[s][i] = sent[s][i]
          /\ Len(sent[s]) \in Nat
      BY <2>2, <2>3, <2>4
    <2>6. \A i \in DOMAIN sent'[s] : i \in DOMAIN sent[s] \/ i = Len(sent[s]) + 1
      BY <2>5
    <2>7. \A i, j \in DOMAIN sent'[s] : sent'[s][i] = sent'[s][j] => i = j
      BY <1>0, <2>2, <2>5, <2>6 DEF NoRootTwice
    <2>8. \A i \in DOMAIN sent'[s] : sent'[s][i] \in Roots /\ Exists(sent'[s][i])
      BY <1>0, <2>2, <2>3, <2>5, <2>6 DEF SuccessMeansExists
    <2>9. \A q \in Senders : \A i \in DOMAIN sent'[q] : Exists(sent'[q][i])
      BY <1>0, <2>4, <2>8 DEF SuccessMeansExists
    <2>10. NoRootTwice'
      BY <1>0, <2>4, <2>7 DEF NoRootTwice
    <2>11. SuccessMeansExists'
      BY <2>1, <2>9 DEF SuccessMeansExists, Exists, chainVars
    <2> QED
      BY <2>10, <2>11
  <1>6. sent' = sent \/ \E s \in Senders : Receipt(s)
    BY DEF Next, SenderStep, ServiceFails, Mined, Generate, Create, Write, Configure, Parse, Read,
           Upload, SendTransaction, Wake, Refused, Pass, End, vars, process
  <1> QED
    BY <1>3, <1>4, <1>5, <1>6
-----------------------------------------------------------------------------
\* All parts of the invariant hold together.
THEOREM SenderInvariant == Spec => []SenderInv
  <1>1. ASSUME SenderInv, [Next]_vars
        PROVE  SenderInv'
    BY <1>1, SenderTypeStep, OnItsWayStep, ReadsStep, SendingStep, HistoryStep DEF SenderInv
  <1> QED
    BY <1>1, SenderInit, PTL DEF Spec

\* Files, counters and roots keep their types for any number of processes.
THEOREM SenderTypeCorrect == Spec => []TaskSenderTypeOK
  <1>1. SenderInv => TaskSenderTypeOK
    BY DEF SenderInv
  <1> QED
    BY <1>1, SenderInvariant, PTL

\* A root reported as sent has a task, whoever created it.
THEOREM SuccessIsOnChain == Spec => []SuccessMeansExists
  <1>1. SenderInv => SuccessMeansExists
    BY DEF SenderInv
  <1> QED
    BY <1>1, SenderInvariant, PTL

\* No process reports one root twice.
THEOREM RootsReportedOnce == Spec => []NoRootTwice
  <1>1. SenderInv => NoRootTwice
    BY DEF SenderInv
  <1> QED
    BY <1>1, SenderInvariant, PTL

\* A task has its data in the bucket from its creation on.
THEOREM DataIsThere == Spec => []DataBeforeTask
  <1>1. SenderInv => DataBeforeTask
    BY DEF SenderInv
  <1> QED
    BY <1>1, SenderInvariant, PTL
-----------------------------------------------------------------------------
(***************************************************************************)
(* SentProofsAreAccepted.  The files named after the counter are one for   *)
(* all processes of a directory, so what an infinite sender reads is what  *)
(* it wrote only while no other one writes.  The invariant follows the     *)
(* number of its setup through the files and what is read of them.         *)
(***************************************************************************)
Alone == \A s, q \in Infinite : s = q

Whole(n) == [proof |-> n, pub |-> n, key |-> n]

\* The files of the infinite sender of a directory, and what it reads of them.
OwnFiles(s) ==
    LET f == files[x[s]] IN
    Alone /\ command[s].mode = "infinite" =>
        /\ pc[s] = "write" => /\ at[s] > 1 => f.proof = made[s]
                              /\ at[s] > 2 => f.key = made[s]
        /\ pc[s] \in {"config", "parse", "read"} => f = Whole(made[s])
        /\ pc[s] = "read" => /\ at[s] > 1 => data[s].proof = made[s]
                             /\ at[s] > 2 => data[s].pub = made[s]
        /\ pc[s] \in HasRead => data[s] = Whole(made[s])

\* What the others send is what the files given by flags hold.
GivenFiles(s) ==
    command[s].mode # "infinite" /\ pc[s] \in HasRead => data[s] = command[s].files

FilesInv ==
    /\ \A s \in Senders : OwnFiles(s) /\ GivenFiles(s)
    /\ SentProofsAreAccepted

\* The operator accepts a valid proof from the object it downloads, whichever
\* its system, the key of a Halo2 proof being cut again where it was joined.
LEMMA ValidIsAccepted ==
    ASSUME NEW r \in Contents, r.id = r.made, r.proof = r.key, r.proof # Empty, r.pub
    PROVE  Accepted(r)
  <1> DEFINE d == Packed(r)
             id == r.id
  <1> USE DEF GnarkPlonkBls12_381, GnarkPlonkBn254, Groth16Bn254, SP1, Halo2KZG, Halo2IPA,
              NoSystem
  <1>1. id = 0 \/ id = 1 \/ id = 2 \/ id = 3 \/ id = 4 \/ id = 5
    BY DEF Contents, ProvingSystemIds
  <1>2. ProvingSystemIdFromString(ProvingSystemIdToString(id)) = id
    BY <1>1 DEF ProvingSystemIdFromString, ProvingSystemIdToString
  <1>3. d.made = id /\ d.holds /\ d.readable \subseteq Parts
    BY DEF Packed, Holding, Parts
  <1>4. Holds(d, id) /\ Reads(d, {"proof"}) /\ Reads(d, {"pub"})
    BY <1>3 DEF Holds, Reads, Packed, Holding
  <1>5. OperatorVerify(d, id) = "accept"
    <2>1. CASE id \in {0, 1, 2}
      <3>1. Reads(d, {"proof", "pub", "key"})
        BY <2>1 DEF Reads, Packed, Holding
      <3>2. OperatorGnark(d, id) = "accept"
        BY <1>4, <3>1 DEF OperatorGnark
      <3> QED
        BY <2>1, <3>2 DEF OperatorVerify
    <2>2. CASE id = 3
      <3>1. Reads(d, {"code"}) /\ d.proof # 0 /\ d.code # 0
        BY <2>2 DEF Reads, Packed, Holding
      <3>2. OperatorSp1(d) = "accept"
        BY <1>4, <2>2, <3>1 DEF OperatorSp1
      <3> QED
        BY <2>2, <3>2 DEF OperatorVerify
    <2>3. CASE id \in {4, 5}
      <3>1. /\ d.cs = 1 /\ d.vk = 1 /\ d.params = 1 /\ d.pub = 1 /\ d.proof = 1 /\ d.key = 15
            /\ Reads(d, {"cs"}) /\ Reads(d, {"vk"}) /\ Reads(d, {"params"})
        BY <2>3 DEF Reads, Packed, Holding
      <3>2. UintRange \in Nat /\ 15 < UintRange
        BY SizeAssumption, PackedFits DEF HeaderLen
      <3>3. /\ LibProofSize >= 1 /\ MaxConstraintSystemSize >= 1 /\ MaxVerifierKeySize >= 1
            /\ MaxParamsSize >= 1 /\ MaxPublicInputSize >= 1
            /\ {LibProofSize, MaxConstraintSystemSize, MaxVerifierKeySize, MaxParamsSize,
                MaxPublicInputSize} \subseteq Nat
        <4>1. {LibProofSize, MaxConstraintSystemSize, MaxVerifierKeySize, MaxParamsSize,
               MaxPublicInputSize} \subseteq Nat
          BY SizeAssumption
        <4>2. /\ LibProofSize # 0 /\ MaxConstraintSystemSize # 0 /\ MaxVerifierKeySize # 0
              /\ MaxParamsSize # 0 /\ MaxPublicInputSize # 0
          BY PackedFits
        <4> QED
          BY <4>1, <4>2
      <3> HIDE DEF d
      <3>4. \A m \in Nat : m < UintRange => m % UintRange = m
        BY <3>2, SMT
      <3>5. VkOffset(d) = 13
        BY <3>1, <3>2, <3>4 DEF VkOffset, uint32sum, HeaderLen
      <3>6. ParamsOffset(d) = 14
        BY <3>1, <3>2, <3>4, <3>5 DEF ParamsOffset, uint32sum
      <3>7. SlicesFit(d)
        BY <3>1, <3>5, <3>6 DEF SlicesFit, HeaderLen
      <3>8. LibHalo2(d, id) = "accept"
        BY <1>4, <3>1, <3>3, <3>6 DEF LibHalo2
      <3> QED
        BY <2>3, <3>7, <3>8 DEF OperatorVerify, OperatorHalo2
    <2> QED
      BY <1>1, <2>1, <2>2, <2>3
  <1> QED
    BY <1>1, <1>2, <1>5 DEF Accepted

\* Nobody else writes to the directory of an infinite sender that has it alone.
LEMMA OthersKeepFiles ==
    ASSUME SenderInv, NEW s \in Senders, SenderStep(s) \/ ServiceFails(s) \/ Mined(s),
           NEW q \in Senders, q # s, Alone, command[q].mode = "infinite"
    PROVE  files' = files /\ made'[q] = made[q]
  <1>1. TaskSenderTypeOK /\ OnItsWay(s)
    BY DEF SenderInv
  <1>2. command[s].mode # "infinite"
    BY DEF Alone, Infinite
  <1>3. pc[s] \notin {"generate", "create", "write"}
    BY <1>1, <1>2 DEF OnItsWay
  <1>4. ~Generate(s) /\ ~Create(s) /\ ~Write(s)
    BY <1>3 DEF Generate, Create, Write, Advance, At
  <1> QED
    BY <1>4
    DEF SenderStep, ServiceFails, Mined, Configure, Parse, Read, Upload, SendTransaction,
        Receipt, Wake, Refused, Pass, End

\* How the commands and the alone sender are told does not change.
LEMMA CommandsKept ==
    ASSUME [Next]_vars
    PROVE  /\ command' = command
           /\ Alone' <=> Alone
           /\ \A s : System(s)' = System(s) /\ (NamesItsProofs(s)' <=> NamesItsProofs(s))
  <1>1. command' = command
    BY DEF Next, SenderStep, ServiceFails, Mined, Generate, Create, Write, Configure, Parse, Read,
           Upload, SendTransaction, Receipt, Wake, Refused, Pass, End, vars, process
  <1>2. \A s : System(s)' = System(s)
    BY <1>1 DEF System
  <1> QED
    BY <1>1, <1>2 DEF Alone, Infinite, NamesItsProofs

\* The public inputs are written last and complete the files of a setup.
LEMMA LastWritten ==
    ASSUME NEW f \in FileSets, NEW n \in Setups, f.proof = n, f.key = n
    PROVE  [f EXCEPT !["pub"] = n] = Whole(n)
  <1>1. [f EXCEPT !["pub"] = n] = [k \in {"proof", "pub", "key"} |-> IF k = "pub" THEN n ELSE f[k]]
    BY DEF FileSets
  <1>2. Whole(n) = [k \in {"proof", "pub", "key"} |-> n]
    BY DEF Whole
  <1> QED
    BY <1>1, <1>2

\* An infinite sender writes the three files of its setup and reads them back.
LEMMA OwnFilesStep ==
    ASSUME SenderInv, NEW q \in Senders, OwnFiles(q), [Next]_vars
    PROVE  OwnFiles(q)'
  <1> SUFFICES ASSUME Alone, command[q].mode = "infinite"
               PROVE  OwnFiles(q)'
    BY CommandsKept, Zenon DEF OwnFiles
  <1>0. TaskSenderTypeOK /\ OnItsWay(q) /\ command' = command
    BY CommandsKept DEF SenderInv
  <1> DEFINE f == files[x[q]]
  <1>a. /\ pc[q] = "write" => /\ at[q] > 1 => f.proof = made[q]
                              /\ at[q] > 2 => f.key = made[q]
        /\ pc[q] \in {"config", "parse", "read"} => f = Whole(made[q])
        /\ pc[q] = "read" => /\ at[q] > 1 => data[q].proof = made[q]
                             /\ at[q] > 2 => data[q].pub = made[q]
        /\ pc[q] \in HasRead => data[q] = Whole(made[q])
    BY Zenon DEF OwnFiles
  <1>1. ASSUME pc'[q] \notin {"write", "config", "parse", "read", "upload", "estimate", "wait"}
        PROVE  OwnFiles(q)'
    BY <1>1 DEF OwnFiles, HasRead
  <1>2. CASE /\ pc'[q] = pc[q] /\ at'[q] = at[q] /\ x'[q] = x[q] /\ made'[q] = made[q]
             /\ files' = files /\ data'[q] = data[q]
    BY <1>a, <1>2 DEF OwnFiles, Whole, HasRead
  <1>3. ASSUME NEW s \in Senders, SenderStep(s) \/ ServiceFails(s) \/ Mined(s), s # q
        PROVE  OwnFiles(q)'
    BY <1>2, <1>3, Others, OthersKeepFiles
  <1>4. CASE Generate(q) \/ Receipt(q) \/ Wake(q) \/ Refused(q) \/ ServiceFails(q)
    <2>1. pc'[q] \in {"create", "done", "sleep", "generate", "refused", "failed"}
      BY <1>0, <1>4 DEF Generate, Receipt, Wake, Refused, ServiceFails, End, GoTo, TaskSenderTypeOK
    <2> QED
      BY <1>1, <2>1
  <1>5. CASE Create(q)
    <2>1. pc'[q] = "create" \/ (pc'[q] = "write" /\ at'[q] = 1)
      BY <1>0, <1>5 DEF Create, Advance, GoTo, TaskSenderTypeOK
    <2> QED
      BY <2>1 DEF OwnFiles, HasRead
  <1>6. CASE Write(q)
    <2>1. /\ x[q] \in 1..MaxX /\ at[q] \in 1..3 /\ pc[q] = "write"
      <3>1. pc[q] = "write"
        BY <1>6 DEF Write, Advance, At
      <3>2. x[q] \in 0..MaxX /\ x[q] > 0 /\ at[q] \in 1..3
        BY <1>0, <3>1 DEF OnItsWay, TaskSenderTypeOK
      <3> QED
        BY <3>1, <3>2, StartsAssumption
    <2>2. f \in FileSets
      BY <1>0, <2>1 DEF TaskSenderTypeOK
    <2>3. /\ files'[x[q]] = [f EXCEPT ![WrittenNames[at[q]]] = made[q]]
          /\ x'[q] = x[q] /\ made'[q] = made[q]
      BY <1>0, <1>6, <2>1 DEF Write, TaskSenderTypeOK
    <2>4. /\ at'[q] = IF at[q] = 3 THEN 1 ELSE at[q] + 1
          /\ pc'[q] = IF at[q] = 3 THEN "config" ELSE "write"
      BY <1>0, <1>6 DEF Write, Advance, GoTo, TaskSenderTypeOK
    <2> HIDE DEF f
    <2>5. CASE at[q] = 1
      <3>1. files'[x[q]].proof = made[q]
        BY <2>2, <2>3, <2>5 DEF FileSets, WrittenNames
      <3>2. at'[q] = 2 /\ ~(at'[q] > 2) /\ pc'[q] = "write"
        BY <2>4, <2>5
      <3>3. files'[x'[q]].proof = made'[q]
        BY <2>3, <3>1
      <3> QED
        BY <3>2, <3>3 DEF OwnFiles, HasRead
    <2>6. CASE at[q] = 2
      <3>1. files'[x[q]].proof = made[q] /\ files'[x[q]].key = made[q]
        BY <1>a, <2>1, <2>2, <2>3, <2>6 DEF FileSets, WrittenNames
      <3>2. pc'[q] = "write"
        BY <2>4, <2>6
      <3> QED
        BY <2>3, <3>1, <3>2 DEF OwnFiles, HasRead
    <2>7. CASE at[q] = 3
      <3>0. f.proof = made[q] /\ f.key = made[q]
        BY <1>a, <2>1, <2>7
      <3>1. files'[x[q]] = Whole(made[q])
        <4>1. files'[x[q]] = [f EXCEPT !["pub"] = made[q]]
          BY <2>3, <2>7 DEF WrittenNames
        <4> QED
          BY <1>0, <2>2, <3>0, <4>1, LastWritten DEF TaskSenderTypeOK
      <3> QED
        BY <2>3, <2>4, <2>7, <3>1 DEF OwnFiles, HasRead, Whole
    <2> QED
      BY <2>1, <2>5, <2>6, <2>7
  <1>7. CASE Configure(q) \/ Parse(q)
    <2>1. /\ pc[q] \in {"config", "parse"} /\ pc'[q] \in {"parse", "read"} /\ at[q] = 1
          /\ at'[q] = at[q] /\ x'[q] = x[q] /\ made'[q] = made[q] /\ files' = files
      BY <1>0, <1>7 DEF Configure, Parse, Pass, At, GoTo, OnItsWay, TaskSenderTypeOK
    <2> QED
      BY <1>a, <2>1 DEF OwnFiles, HasRead, Whole
  <1>8. CASE Read(q)
    <2>1. /\ at[q] \in 1..3 /\ data[q] \in FileSets /\ pc[q] = "read" /\ x[q] # 0
          /\ x[q] \in 0..MaxX
      BY <1>0, <1>8 DEF Read, Advance, At, TaskSenderTypeOK, OnItsWay
    <2>2. /\ data'[q] = [data[q] EXCEPT ![FileNames[at[q]]] = FileRead(q)]
          /\ pc'[q] = (IF at[q] = 3 THEN "upload" ELSE "read")
          /\ at'[q] = (IF at[q] = 3 THEN 1 ELSE at[q] + 1)
          /\ x'[q] = x[q] /\ made'[q] = made[q] /\ files' = files
      BY <1>0, <1>8 DEF Read, Advance, GoTo, TaskSenderTypeOK
    <2>3. f = Whole(made[q])
      BY <1>a, <2>1
    <2>4. FileRead(q) = made[q]
      <3>1. FileRead(q) = f[FileNames[at[q]]]
        BY <2>1 DEF FileRead
      <3> QED
        BY <2>1, <2>3, <3>1 DEF FileNames, Whole
    <2>5. files'[x'[q]] = Whole(made'[q])
      BY <2>2, <2>3
    <2> HIDE DEF f
    <2>6. CASE at[q] = 1
      <3>1. data'[q].proof = made[q]
        BY <2>1, <2>2, <2>4, <2>6 DEF FileNames, FileSets
      <3> QED
        BY <2>2, <2>5, <2>6, <3>1 DEF OwnFiles, HasRead, Whole
    <2>7. CASE at[q] = 2
      <3>1. data'[q].proof = made[q] /\ data'[q].pub = made[q]
        BY <1>a, <2>1, <2>2, <2>4, <2>7 DEF FileNames, FileSets
      <3> QED
        BY <2>2, <2>5, <2>7, <3>1 DEF OwnFiles, HasRead, Whole
    <2>8. CASE at[q] = 3
      <3>1. data'[q] = Whole(made[q])
        BY <1>a, <2>1, <2>2, <2>4, <2>8 DEF FileNames, FileSets, Whole
      <3> QED
        BY <2>2, <2>8, <3>1 DEF OwnFiles, HasRead, Whole
    <2> QED
      BY <2>1, <2>6, <2>7, <2>8
  <1>9. CASE Upload(q) \/ SendTransaction(q)
    <2>1. /\ pc[q] \in HasRead /\ pc'[q] \in {"estimate", "wait"}
          /\ data'[q] = data[q] /\ made'[q] = made[q]
      BY <1>0, <1>9
      DEF Upload, SendTransaction, Pass, At, GoTo, HasRead, TaskSenderTypeOK
    <2> QED
      BY <1>a, <2>1 DEF OwnFiles, HasRead, Whole
  <1>10. CASE Mined(q) \/ UNCHANGED vars
    BY <1>2, <1>10 DEF Mined, vars, process
  <1> QED
    BY <1>3, <1>4, <1>5, <1>6, <1>7, <1>8, <1>9, <1>10 DEF Next, SenderStep

\* The other commands send what the flags name.
LEMMA GivenFilesStep ==
    ASSUME SenderInv, NEW q \in Senders, GivenFiles(q), [Next]_vars
    PROVE  GivenFiles(q)'
  <1> SUFFICES ASSUME command[q].mode # "infinite"
               PROVE  GivenFiles(q)'
    BY CommandsKept, Zenon DEF GivenFiles
  <1>0. TaskSenderTypeOK /\ OnItsWay(q) /\ ReadsItsFiles(q) /\ command' = command
    BY CommandsKept DEF SenderInv
  <1>1. ASSUME pc'[q] \notin HasRead
        PROVE  GivenFiles(q)'
    BY <1>1 DEF GivenFiles
  <1>2. CASE pc'[q] = pc[q] /\ data'[q] = data[q]
    BY <1>0, <1>2 DEF GivenFiles
  <1>3. ASSUME NEW s \in Senders, SenderStep(s) \/ ServiceFails(s) \/ Mined(s), s # q
        PROVE  GivenFiles(q)'
    BY <1>2, <1>3, Others
  <1>4. CASE \/ Generate(q) \/ Create(q) \/ Write(q) \/ Configure(q) \/ Parse(q)
             \/ Receipt(q) \/ Wake(q) \/ Refused(q) \/ ServiceFails(q)
    <2>1. pc'[q] \notin HasRead
      BY <1>0, <1>4
      DEF Generate, Create, Write, Configure, Parse, Receipt, Wake, Refused, ServiceFails, Pass,
          Advance, End, GoTo, HasRead, TaskSenderTypeOK
    <2> QED
      BY <1>1, <2>1
  <1>5. CASE Read(q)
    <2>1. /\ at[q] \in 1..3 /\ data[q] \in FileSets /\ command[q].files \in FileSets
          /\ pc[q] = "read"
      BY <1>0, <1>5, StartsAssumption DEF Read, Advance, At, TaskSenderTypeOK, Commands
    <2>2. x[q] = 0
      BY <1>0, StartsAssumption DEF OnItsWay, TaskSenderTypeOK
    <2>3. /\ data'[q] = [data[q] EXCEPT ![FileNames[at[q]]] = command[q].files[FileNames[at[q]]]]
          /\ pc'[q] = IF at[q] = 3 THEN "upload" ELSE "read"
      BY <1>0, <1>5, <2>2 DEF Read, Advance, GoTo, FileRead, TaskSenderTypeOK
    <2>4. CASE at[q] = 3
      <3>1. data[q].proof = command[q].files.proof /\ data[q].pub = command[q].files.pub
        BY <1>0, <2>1, <2>2, <2>4 DEF ReadsItsFiles
      <3>2. data'[q] = command[q].files
        BY <2>1, <2>3, <2>4, <3>1 DEF FileNames, FileSets
      <3> QED
        BY <1>0, <3>2 DEF GivenFiles
    <2>5. CASE at[q] # 3
      BY <1>1, <2>3, <2>5 DEF HasRead
    <2> QED
      BY <2>4, <2>5
  <1>6. CASE Upload(q) \/ SendTransaction(q)
    <2>1. pc[q] \in HasRead /\ data'[q] = data[q]
      BY <1>6 DEF Upload, SendTransaction, Pass, At, HasRead
    <2> QED
      BY <1>0, <2>1 DEF GivenFiles
  <1>7. CASE Mined(q) \/ UNCHANGED vars
    BY <1>2, <1>7 DEF Mined, vars, process
  <1> QED
    BY <1>3, <1>4, <1>5, <1>6, <1>7 DEF Next, SenderStep

\* What is reported as sent was accepted, or will be by any operator that reads it.
LEMMA AcceptedStep ==
    ASSUME SenderInv, FilesInv, [Next]_vars
    PROVE  SentProofsAreAccepted'
  <1> SUFFICES ASSUME Alone, NEW s \in Senders, NamesItsProofs(s), NEW i \in DOMAIN sent'[s]
               PROVE  Accepted(sent'[s][i])
    <2>1. Alone' <=> (\A s, q \in Infinite : s = q)'
      BY Zenon DEF Alone
    <2> QED
      BY <2>1, CommandsKept DEF SentProofsAreAccepted, Accepted, Packed
  <1>0. TaskSenderTypeOK /\ OnItsWay(s) /\ OwnFiles(s) /\ GivenFiles(s)
    BY DEF SenderInv, FilesInv
  <1>1. \A j \in DOMAIN sent[s] : Accepted(sent[s][j])
    BY DEF FilesInv, SentProofsAreAccepted, Alone
  <1>2. CASE sent'[s] = sent[s]
    BY <1>1, <1>2
  <1>3. CASE Receipt(s)
    <2>1. pc[s] = "wait" /\ sent' = [sent EXCEPT ![s] = Append(@, Root(s))]
      BY <1>3 DEF Receipt, At
    <2>2. sent[s] \in Seq(Roots) /\ Root(s) \in Roots
      BY <1>0, <2>1 DEF TaskSenderTypeOK, SenderInv, ReadsItsFiles, HasRead
    <2>3. \/ i \in DOMAIN sent[s] /\ sent'[s][i] = sent[s][i]
          \/ sent'[s][i] = Root(s)
      BY <1>0, <2>1, <2>2 DEF TaskSenderTypeOK
    <2>4. Accepted(Root(s))
      <3> DEFINE r == Root(s)
      <3>1. /\ made[s] \in Setups /\ command[s] \in Commands /\ data[s] \in FileSets
            /\ x[s] \in 0..MaxX /\ System(s) # NoSystem
            /\ \A n \in Setups : n # Empty
        BY <1>0, <2>1, StartsAssumption DEF TaskSenderTypeOK, OnItsWay, Reading, Setups, Empty
      <3>2. System(s) \in ProvingSystemIds
        BY <3>1, ParsedIsId DEF System
      <3>3. CASE command[s].mode = "infinite"
        <4>1. x[s] # 0 /\ data[s] = Whole(made[s]) /\ System(s) = Groth16Bn254
          BY <1>0, <2>1, <3>1, <3>3 DEF OnItsWay, OwnFiles, HasRead, NamesItsProofs
        <4>2. /\ r.id = Groth16Bn254 /\ r.made = Groth16Bn254 /\ r.proof = data[s].proof
              /\ r.key = data[s].key /\ r.pub = (data[s].pub # Empty)
          BY <3>1, <4>1 DEF Root
        <4>5. data[s].proof = made[s] /\ data[s].key = made[s] /\ data[s].pub = made[s]
          BY <4>1 DEF Whole
        <4>3. Groth16Bn254 \in ProvingSystemIds
          BY DEF Groth16Bn254, ProvingSystemIds
        <4>4. r \in Contents
          BY <3>1, <4>1, <4>3 DEF Contents, Root, Whole
        <4> QED
          BY <3>1, <4>2, <4>4, <4>5, ValidIsAccepted
      <3>4. CASE command[s].mode # "infinite"
        <4>1. /\ x[s] = 0 /\ data[s] = command[s].files /\ System(s) = command[s].made
              /\ Valid(command[s].files)
          BY <1>0, <2>1, <3>1, <3>4 DEF OnItsWay, GivenFiles, HasRead, NamesItsProofs
        <4>2. /\ r.id = System(s) /\ r.made = System(s) /\ r.proof = data[s].proof
              /\ r.key = data[s].key /\ r.pub = (data[s].pub # Empty)
          BY <4>1 DEF Root
        <4>3. data[s].proof = data[s].key /\ data[s].proof # Empty /\ data[s].pub # Empty
          BY <4>1 DEF Valid
        <4>4. r \in Contents
          BY <3>1, <3>2, <4>1 DEF Contents, Root, FileSets
        <4> QED
          BY <4>2, <4>3, <4>4, ValidIsAccepted
      <3> QED
        BY <3>3, <3>4
    <2> QED
      BY <1>1, <2>3, <2>4
  <1>4. sent' = sent \/ \E q \in Senders : Receipt(q)
    BY DEF Next, SenderStep, ServiceFails, Mined, Generate, Create, Write, Configure, Parse, Read,
           Upload, SendTransaction, Wake, Refused, Pass, End, vars, process
  <1>5. ASSUME NEW q \in Senders, q # s, Receipt(q)
        PROVE  sent'[s] = sent[s]
    BY <1>0, <1>5 DEF Receipt, TaskSenderTypeOK
  <1> QED
    BY <1>2, <1>3, <1>4, <1>5

\* What the files and the batches hold, in every execution.
THEOREM FilesInvariant == Spec => []FilesInv
  <1>1. Init => FilesInv
    BY DEF Init, FilesInv, OwnFiles, GivenFiles, HasRead, SentProofsAreAccepted, Infinite, Alone
  <1>2. ASSUME SenderInv, FilesInv, [Next]_vars
        PROVE  FilesInv'
    BY <1>2, OwnFilesStep, GivenFilesStep, AcceptedStep DEF FilesInv
  <1> QED
    BY SenderInvariant, <1>1, <1>2, PTL DEF Spec

\* A task made from valid files, or by the only infinite sender of a directory,
\* carries a proof that every operator accepts, for any number of senders,
\* proofs and setups and every proving system.
THEOREM SentProofsAccepted == Spec => []SentProofsAreAccepted
  <1>1. FilesInv => SentProofsAreAccepted
    BY DEF FilesInv
  <1> QED
    BY FilesInvariant, <1>1, PTL
-----------------------------------------------------------------------------
(***************************************************************************)
(* The contract beside the senders.                                        *)
(***************************************************************************)
\* Whatever commands the senders run and whatever fails, the contract makes only
\* the steps of its own specification: a task of a known root, or none.
THEOREM SendersUseContract == Spec => ChainSpec
  <1>1. Init => ChainInit
    BY DEF Init
  <1>2. SenderInv /\ [Next]_vars => [ChainNext]_chainVars
    BY ChainEffect DEF ChainNext
  <1> QED
    BY <1>1, <1>2, SenderInvariant, PTL DEF Spec, ChainSpec

\* So the ledger the senders share keeps the contract's promise: of several that
\* race for one root at most one creates its task, and none undoes it.
THEOREM SendersImplementPromise ==
    Spec => ImplementsPromise /\ LedgerOnlyGrows /\ []LogMatchesState
  BY SendersUseContract, Refinement, LedgerMonotone, LogFaithful, PTL
=============================================================================
