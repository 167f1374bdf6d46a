--------------------------- MODULE Operator_proofs --------------------------
(***************************************************************************)
(* Proofs about the operators beside the contract, for every set of        *)
(* operators and batches, objects of every length behind the pointers,     *)
(* every stake table, any number of retries, breaks and faults.            *)
(***************************************************************************)
EXTENDS Operator, AlignedLayerServiceManager_proofs, FiniteSetTheorems

WorkerSeqs == Seq({"verify", "done"})
Results == [chan : Seq(BOOLEAN), closed : BOOLEAN]
Sends == [pc : SendStates, tries : 0..MaxRetries, conn : 0..MaxBreaks]

\* The types once more, by component, with the domains of nested functions.
ProcessTypes ==
    /\ up \in [Operators -> BOOLEAN]
    /\ sub \in [Operators -> [open : BOOLEAN, seen : 0..Len(log)]]
    /\ loop \in [Operators -> [pc : LoopStates, root : Roots]]
    /\ missed \in [Operators -> SUBSET Roots]
    /\ fails \in 0..MaxFails

BatchTypes ==
    /\ worker \in [Operators -> [Roots -> WorkerSeqs]]
    /\ results \in [Operators -> [Roots -> Results]]

\* A sender that has not ended has a call left.
SenderTypes ==
    /\ send \in [Operators -> [Roots -> Sends]]
    /\ \A o \in Operators, r \in Roots :
          send[o][r].pc \notin {"none", "sent", "gaveup"} => send[o][r].tries < MaxRetries
    /\ client \in [Operators -> 0..MaxBreaks]
    /\ epoch \in [Operators -> 0..MaxBreaks]
    /\ shut \in [Operators -> Nat] /\ \A o \in Operators : shut[o] <= epoch[o]
    /\ aggUp \in BOOLEAN
    /\ received \in [Roots -> SUBSET Operators]

Types == ChainTypeOK /\ object \in Objects /\ ProcessTypes /\ BatchTypes /\ SenderTypes

\* The verifiers of r that have ended.
Ended(o, r) == {i \in DOMAIN worker[o][r] : worker[o][r][i] = "done"}

\* The verifiers of a batch and their channel: one verifier for each proof, no
\* more results than verifiers that have ended, and the channel is closed behind
\* the last.  While the loop works on the batch, the refusal of a verifier that
\* has ended is in the channel: what the loop has taken out were acceptances.
BatchInOrder(o, r) ==
    /\ worker[o][r] = <<>> \/ Len(worker[o][r]) = Len(object[r].batch)
    /\ results[o][r].closed => \A i \in DOMAIN worker[o][r] : worker[o][r][i] = "done"
    /\ Len(results[o][r].chan) <= Cardinality(Ended(o, r))
    /\ Started(o, r) =>
          /\ Downloads(object[r])
          /\ Len(worker[o][r]) = Len(object[r].batch)
          /\ \A i \in Ended(o, r) : Accepts(object[r], i)
                                    \/ \E k \in DOMAIN results[o][r].chan : ~results[o][r].chan[k]

OperatorInv ==
    /\ Types
    /\ \A o \in Operators, r \in Roots : BatchInOrder(o, r)
    /\ SignedMeansAccepted

\* What is behind a pointer is an object.
LEMMA ObjectTypes ==
    ASSUME OperatorTypeOK, NEW r \in Roots
    PROVE  object[r] \in Object
  BY OperatorAssumption DEF OperatorTypeOK
-----------------------------------------------------------------------------
(***************************************************************************)
(* The kinds of steps, and what each leaves alone.                         *)
(***************************************************************************)
\* A verifier ends with its verdict in the channel.
VerifierEnds(o, r, i) ==
    /\ i \in DOMAIN worker[o][r] /\ worker[o][r][i] = "verify"
    /\ Len(results[o][r].chan) < Capacity(object[r])
    /\ worker' = [worker EXCEPT ![o][r][i] = "done"]
    /\ results' = [results EXCEPT ![o][r].chan = Append(@, Accepts(object[r], i))]
    /\ UNCHANGED <<chainVars, object, up, sub, loop, send, client, shut, remote, missed, fails>>

Subscribes(o) == Boot(o) \/ SubscriptionFails(o) \/ Resubscribe(o)

Verifiers(o) ==
    \E r \in Roots : CloseResults(o, r) \/ \E i \in DOMAIN worker[o][r] : VerifierEnds(o, r, i)

Network == (\E o \in Operators : ConnectionDrops(o)) \/ AggregatorEnds \/ AggregatorStarts

OnChain == Chain \/ \E r \in Roots : AggregatorResponds(r)

\* A process ends, or one of its parts, the network or the chain makes a step.
LEMMA StepKinds ==
    ASSUME [Next]_vars
    PROVE  \/ \E o \in Operators : \/ Die(o) /\ fails' \in {fails, fails + 1}
                                                /\ (fails' = fails \/ fails < MaxFails)
                                   \/ Subscribes(o) \/ MainLoop(o) \/ Verifiers(o)
                                   \/ \E r \in Roots : Sender(o, r)
           \/ Network \/ OnChain \/ UNCHANGED vars
  <1>1. ASSUME NEW o \in Operators, Crash(o) \/ ResubscribeFails(o)
        PROVE  Die(o) /\ fails' \in {fails, fails + 1} /\ (fails' = fails \/ fails < MaxFails)
    BY <1>1 DEF Crash, ResubscribeFails, Fails
  <1>2. ASSUME NEW o \in Operators, NEW r \in Roots, NEW i \in DOMAIN worker[o][r], Verify(o, r, i)
        PROVE  VerifierEnds(o, r, i) \/ (Die(o) /\ fails' = fails)
    BY <1>2 DEF Verify, VerifierEnds, Accepts
  <1>3. ASSUME NEW o \in Operators, OperatorNext(o)
        PROVE  \/ Die(o) /\ fails' \in {fails, fails + 1} /\ (fails' = fails \/ fails < MaxFails)
               \/ Subscribes(o) \/ MainLoop(o) \/ Verifiers(o)
               \/ \E r \in Roots : Sender(o, r)
               \/ ConnectionDrops(o)
    BY <1>1, <1>2, <1>3 DEF OperatorNext, Subscription, Subscribes, Verifiers
  <1> QED
    BY <1>3 DEF Next, Network, OnChain

\* The end of a process touches neither the chain nor the network.
LEMMA DieLeaves ==
    ASSUME NEW o \in Operators, Die(o)
    PROVE  UNCHANGED <<chainVars, object, client, shut, remote>>
  BY DEF Die

\* A subscription concerns the hearing of events only.
LEMMA SubscribesLeaves ==
    ASSUME NEW o \in Operators, Subscribes(o)
    PROVE  UNCHANGED <<chainVars, object, loop, worker, results, send, shut, remote>>
  BY DEF Subscribes, Boot, SubscriptionFails, Resubscribe, remote

\* The main loop leaves the connections to the senders.
LEMMA MainLoopLeaves ==
    ASSUME NEW o \in Operators, MainLoop(o)
    PROVE  /\ UNCHANGED <<object, up, client, shut, remote, missed, fails>>
           /\ UNCHANGED chainVars \/ SignRoot(o, loop[o].root)
  BY DEF MainLoop, Receive, FetchFails, Fetch, Collect, Sign

\* Verifiers know their batch and their channel only.
LEMMA VerifiersLeave ==
    ASSUME NEW o \in Operators, Verifiers(o)
    PROVE  UNCHANGED <<chainVars, object, up, sub, loop, send, client, shut, remote, missed, fails>>
  BY DEF Verifiers, CloseResults, VerifierEnds

\* Senders know their signature and the shared connection only.
LEMMA SenderLeaves ==
    ASSUME NEW o \in Operators, NEW r \in Roots, Sender(o, r)
    PROVE  UNCHANGED <<chainVars, object, up, sub, loop, worker, results, missed, fails>>
                /\ UNCHANGED <<aggUp, epoch>>
  BY DEF Sender, Call, Execute, Reply, CallBreaks, Dial, Store, Wake, SenderOnly, remote

\* Breaks and the aggregator's restarts touch nothing of an operator.
LEMMA NetworkLeaves ==
    ASSUME Network
    PROVE  UNCHANGED <<chainVars, object, local, missed, fails>>
  BY DEF Network, ConnectionDrops, AggregatorEnds, AggregatorStarts

\* Nor does the chain.
LEMMA OnChainLeaves ==
    ASSUME OnChain
    PROVE  UNCHANGED <<object, local, remote, missed, fails>>
  BY DEF OnChain, Chain, AggregatorResponds
-----------------------------------------------------------------------------
(***************************************************************************)
(* The chain.                                                              *)
(***************************************************************************)
\* Every step of the operators' system is one of the contract, or none.
LEMMA StepIsChainStep ==
    ASSUME OperatorTypeOK, [Next]_vars
    PROVE  [ChainNext]_chainVars
  <1>1. ASSUME NEW o \in Operators, MainLoop(o)
        PROVE  [ChainNext]_chainVars
    <2>1. loop[o].root \in Roots
      BY DEF OperatorTypeOK
    <2> QED
      BY <1>1, <2>1, MainLoopLeaves DEF ChainNext
  <1>2. ASSUME NEW r \in Roots, AggregatorResponds(r)
        PROVE  ChainNext
    <2>1. PICK signers \in SUBSET received[r] : RespondToTask(r, signers)
      BY <1>2 DEF AggregatorResponds
    <2>2. signers \in SUBSET Operators
      BY <2>1 DEF OperatorTypeOK
    <2> QED
      BY <2>1, <2>2 DEF ChainNext
  <1>3. CASE OnChain
    BY <1>2, <1>3 DEF OnChain, Chain, ChainNext
  <1>4. CASE UNCHANGED vars
    BY <1>4 DEF vars
  <1> QED
    BY <1>1, <1>3, <1>4, StepKinds, DieLeaves, SubscribesLeaves, VerifiersLeave, SenderLeaves,
       NetworkLeaves

\* The pointers stay, the contract keeps its types, and the log grows at its end.
LEMMA ChainKept ==
    ASSUME OperatorTypeOK, [Next]_vars
    PROVE  /\ ChainTypeOK'
           /\ log \in Seq(Events) /\ Len(log) \in Nat /\ Len(log') \in Nat
           /\ Len(log) <= Len(log')
           /\ object' = object
  <1>1. ChainTypeOK /\ ChainTypeOK' /\ [ChainNext]_chainVars
    BY StepIsChainStep, TypeStep DEF OperatorTypeOK
  <1>2. log \in Seq(Events) /\ log' \in Seq(Events)
    BY <1>1 DEF ChainTypeOK
  <1>3. log' = log \/ \E e \in Events : log' = Append(log, e)
    BY <1>1
    DEF ChainNext, Mine, CreateNewTask, SignRoot, RespondToTask, chainVars, NewBatch,
        BatchVerified, Events
  <1>4. object' = object
    <2>1. UNCHANGED vars => object' = object
      BY DEF vars
    <2> QED
      BY <2>1, StepKinds, DieLeaves, SubscribesLeaves, MainLoopLeaves, VerifiersLeave, SenderLeaves,
         NetworkLeaves, OnChainLeaves
  <1> QED
    BY <1>1, <1>2, <1>3, <1>4
-----------------------------------------------------------------------------
(***************************************************************************)
(* Types.                                                                  *)
(***************************************************************************)
\* The types by component are the types of the specification, and more.
LEMMA TypesSuffice == Types => OperatorTypeOK
  <1> SUFFICES ASSUME Types
               PROVE  OperatorTypeOK
    OBVIOUS
  <1>1. ASSUME NEW o \in Operators, NEW r \in Roots
        PROVE  /\ worker[o][r] \in Seq({"verify", "done"})
               /\ results[o][r].chan \in Seq(BOOLEAN)
               /\ results[o][r].closed \in BOOLEAN
               /\ send[o][r] \in [pc : SendStates, tries : 0..MaxRetries, conn : 0..MaxBreaks]
    <2>1. worker[o][r] \in WorkerSeqs /\ results[o][r] \in Results /\ send[o][r] \in Sends
      BY DEF Types, BatchTypes, SenderTypes
    <2> QED
      BY <2>1 DEF WorkerSeqs, Results, Sends
  <1>2. \A o \in Operators : shut[o] \in 0..epoch[o]
    BY OperatorAssumption DEF Types, SenderTypes
  <1> QED
    BY <1>1, <1>2 DEF Types, ProcessTypes, SenderTypes, OperatorTypeOK

\* Before anything has happened.
LEMMA TypesInit == Init => Types
  <1> SUFFICES ASSUME Init
               PROVE  Types
    OBVIOUS
  <1>1. ChainTypeOK
    BY TypeInit DEF Init
  <1>2. (CHOOSE r \in Roots : TRUE) \in Roots
    BY OperatorAssumption
  <1>3. ProcessTypes
    BY <1>2, OperatorAssumption DEF Init, ChainInit, ProcessTypes, LoopStates
  <1>4. BatchTypes
    BY DEF Init, BatchTypes, WorkerSeqs, Results, NoResults
  <1>5. NoSend \in Sends
    BY OperatorAssumption DEF NoSend, Sends, SendStates
  <1>6. SenderTypes
    BY <1>5, OperatorAssumption DEF Init, SenderTypes, NoSend
  <1> QED
    BY <1>1, <1>3, <1>4, <1>6 DEF Init, Types

\* The roots at any positions of the log are roots.
LEMMA AnnouncedRoots ==
    ASSUME ChainTypeOK
    PROVE  /\ RootsAt(Announced) \subseteq Roots
           /\ \A o \in Operators : RootsAt(Unheard(o)) \subseteq Roots
           /\ \A i \in Announced : log[i].root \in Roots /\ i \in 1..Len(log)
  <1>1. \A i \in Announced : log[i].root \in Roots /\ i \in 1..Len(log)
    <2>1. log \in Seq(Events)
      BY DEF ChainTypeOK
    <2>2. \A i \in DOMAIN log : i \in 1..Len(log) /\ log[i] \in Events
      BY <2>1
    <2> QED
      BY <2>2 DEF Announced, Events
  <1>2. \A o \in Operators : Unheard(o) \subseteq Announced
    BY DEF Unheard
  <1> QED
    BY <1>1, <1>2 DEF RootsAt

\* Positions in the log stay positions in the log.
LEMMA ProcessTypesStep == Types /\ [Next]_vars => ProcessTypes'
  <1> SUFFICES ASSUME Types, [Next]_vars
               PROVE  ProcessTypes'
    OBVIOUS
  <1>0. /\ ProcessTypes /\ ChainTypeOK /\ Len(log) \in Nat /\ Len(log') \in Nat
        /\ Len(log) <= Len(log')
    BY TypesSuffice, ChainKept DEF Types
  <1> USE DEF ProcessTypes, LoopStates
  <1>1. CASE UNCHANGED <<up, sub, loop, missed, fails>>
    BY <1>0, <1>1
  <1>2. ASSUME NEW o \in Operators, Die(o), fails' \in {fails, fails + 1},
               fails' = fails \/ fails < MaxFails
        PROVE  ProcessTypes'
    <2>1. fails' \in 0..MaxFails
      BY <1>0, <1>2, OperatorAssumption
    <2>2. missed' \in [Operators -> SUBSET Roots]
      BY <1>0, <1>2, AnnouncedRoots DEF Die
    <2>3. sub' \in [Operators -> [open : BOOLEAN, seen : 0..Len(log)]] /\ log' = log
      BY <1>0, <1>2 DEF Die, chainVars
    <2> QED
      BY <1>0, <1>2, <2>1, <2>2, <2>3 DEF Die, Idle
  <1>3. ASSUME NEW o \in Operators, Subscribes(o)
        PROVE  ProcessTypes'
    <2>1. log' = log /\ loop' = loop
      BY <1>3, SubscribesLeaves DEF chainVars
    <2>2. CASE Boot(o)
      <3>1. missed' \in [Operators -> SUBSET Roots]
        BY <1>0, <2>2, AnnouncedRoots DEF Boot
      <3> QED
        BY <1>0, <2>1, <2>2, <3>1 DEF Boot
    <2>3. CASE SubscriptionFails(o)
      <3>1. fails' \in 0..MaxFails
        BY <1>0, <2>3, OperatorAssumption DEF SubscriptionFails, Fails
      <3> QED
        BY <1>0, <2>1, <2>3, <3>1 DEF SubscriptionFails
    <2>4. CASE Resubscribe(o)
      <3>1. missed' \in [Operators -> SUBSET Roots]
        BY <1>0, <2>4, AnnouncedRoots DEF Resubscribe
      <3> QED
        BY <1>0, <2>1, <2>4, <3>1 DEF Resubscribe
    <2> QED
      BY <1>3, <2>2, <2>3, <2>4 DEF Subscribes
  <1>4. ASSUME NEW o \in Operators, MainLoop(o)
        PROVE  ProcessTypes'
    <2>1. log' = log
      BY <1>4, MainLoopLeaves DEF chainVars, SignRoot
    <2>2. UNCHANGED <<up, missed, fails>>
      BY <1>4, MainLoopLeaves
    <2>3. CASE Receive(o)
      <3>1. PICK i \in Unheard(o) :
                /\ sub' = [sub EXCEPT ![o].seen = i]
                /\ loop' = [loop EXCEPT ![o] = [pc |-> "fetch", root |-> log[i].root]]
        BY <2>3 DEF Receive
      <3>2. i \in 1..Len(log) /\ log[i].root \in Roots
        BY <1>0, <3>1, AnnouncedRoots DEF Unheard
      <3>3. sub' \in [Operators -> [open : BOOLEAN, seen : 0..Len(log)]]
        <4>1. i \in 0..Len(log) /\ sub \in [Operators -> [open : BOOLEAN, seen : 0..Len(log)]]
          BY <1>0, <3>2
        <4> HIDE DEF ProcessTypes
        <4> QED
          BY <3>1, <4>1
      <3>4. loop' \in [Operators -> [pc : LoopStates, root : Roots]]
        BY <1>0, <3>1, <3>2
      <3> QED
        BY <1>0, <2>1, <2>2, <3>3, <3>4
    <2>4. CASE FetchFails(o) \/ Fetch(o) \/ Collect(o) \/ Sign(o)
      <3>1. sub' = sub
        BY <2>4 DEF FetchFails, Fetch, Collect, Sign
      <3>2. loop' \in [Operators -> [pc : LoopStates, root : Roots]]
        <4>1. loop \in [Operators -> [pc : LoopStates, root : Roots]]
          BY <1>0
        <4>2. Idle(o) \in [pc : LoopStates, root : Roots]
          BY <4>1 DEF Idle
        <4>3. [loop[o] EXCEPT !.pc = "collect"] \in [pc : LoopStates, root : Roots]
          BY <4>1
        <4>4. \/ loop' = loop \/ loop' = [loop EXCEPT ![o] = Idle(o)]
              \/ loop' = [loop EXCEPT ![o] = [loop[o] EXCEPT !.pc = "collect"]]
          BY <2>4 DEF FetchFails, Fetch, Collect, Sign
        <4> QED
          BY <4>1, <4>2, <4>3, <4>4
      <3> QED
        BY <1>0, <2>1, <2>2, <3>1, <3>2
    <2> QED
      BY <1>4, <2>3, <2>4 DEF MainLoop
  <1>5. CASE UNCHANGED vars
    BY <1>1, <1>5 DEF vars, local
  <1>6. CASE Network \/ OnChain
    BY <1>1, <1>6, NetworkLeaves, OnChainLeaves DEF local
  <1> QED
    BY <1>1, <1>2, <1>3, <1>4, <1>5, <1>6, StepKinds, VerifiersLeave, SenderLeaves

\* A function with one value for each proof of a batch is a sequence.
LEMMA OnePerProof ==
    ASSUME NEW x \in Object
    PROVE  /\ Len(x.batch) \in Nat /\ DOMAIN x.batch = 1..Len(x.batch)
           /\ [i \in DOMAIN x.batch |-> "verify"] \in WorkerSeqs
           /\ Len([i \in DOMAIN x.batch |-> "verify"]) = Len(x.batch)
  <1>1. Len(x.batch) \in Nat /\ DOMAIN x.batch = 1..Len(x.batch)
    BY DEF Object
  <1>2. [i \in 1..Len(x.batch) |-> "verify"] \in Seq({"verify", "done"})
    BY <1>1
  <1> QED
    BY <1>1, <1>2 DEF WorkerSeqs

\* One value of a function of two arguments is replaced.
LEMMA Update2 ==
    ASSUME NEW T, NEW f \in [Operators -> [Roots -> T]], NEW o \in Operators, NEW r \in Roots,
           NEW v \in T
    PROVE  /\ [f EXCEPT ![o][r] = v] \in [Operators -> [Roots -> T]]
           /\ [f EXCEPT ![o][r] = v][o][r] = v
           /\ \A p \in Operators, q \in Roots :
                  p # o \/ q # r => [f EXCEPT ![o][r] = v][p][q] = f[p][q]
  OBVIOUS

\* The rest of a sequence that is not empty.
LEMMA RestOf ==
    ASSUME NEW T, NEW s \in Seq(T), s # <<>>
    PROVE  /\ Tail(s) \in Seq(T) /\ Len(s) \in Nat /\ Len(s) > 0
           /\ Len(Tail(s)) = Len(s) - 1
           /\ \A k \in 1..Len(s) - 1 : Tail(s)[k] = s[k + 1]
  OBVIOUS

\* Verifiers and channels keep their types.
LEMMA BatchTypesStep == Types /\ [Next]_vars => BatchTypes'
  <1> SUFFICES ASSUME Types, [Next]_vars
               PROVE  BatchTypes'
    OBVIOUS
  <1>0. /\ worker \in [Operators -> [Roots -> WorkerSeqs]]
        /\ results \in [Operators -> [Roots -> Results]]
        /\ \A o \in Operators : loop[o].root \in Roots
        /\ \A r \in Roots : object[r] \in Object
    BY TypesSuffice, ObjectTypes DEF Types, BatchTypes, ProcessTypes
  <1>n. NoResults \in Results
    BY DEF NoResults, Results
  <1>1. CASE UNCHANGED <<worker, results>>
    BY <1>0, <1>1 DEF BatchTypes
  <1>2. ASSUME NEW o \in Operators, Die(o)
        PROVE  BatchTypes'
    <2>1. [r \in Roots |-> <<>>] \in [Roots -> WorkerSeqs]
      BY DEF WorkerSeqs
    <2> QED
      BY <1>0, <1>n, <1>2, <2>1 DEF Die, BatchTypes
  <1>3. ASSUME NEW o \in Operators, MainLoop(o)
        PROVE  BatchTypes'
    <2>1. CASE Receive(o) \/ FetchFails(o) \/ Sign(o)
      BY <1>1, <2>1 DEF Receive, FetchFails, Sign
    <2>2. CASE Fetch(o)
      <3>1. [i \in DOMAIN object[loop[o].root].batch |-> "verify"] \in WorkerSeqs
        BY <1>0, OnePerProof
      <3> QED
        BY <1>0, <1>n, <2>2, <3>1, Update2 DEF Fetch, BatchTypes
    <2>3. CASE Collect(o)
      <3> DEFINE r == loop[o].root
      <3>1. /\ results[o][r].chan # <<>> /\ worker' = worker
            /\ results' = [results EXCEPT ![o][r].chan = Tail(@)]
        BY <2>3 DEF Collect
      <3>2. results[o][r] \in Results
        BY <1>0
      <3>3. [results[o][r] EXCEPT !.chan = Tail(@)] \in Results
        <4>1. results[o][r].chan \in Seq(BOOLEAN)
          BY <3>2 DEF Results
        <4>2. Tail(results[o][r].chan) \in Seq(BOOLEAN)
          BY <3>1, <4>1, RestOf
        <4> QED
          BY <3>2, <4>2 DEF Results
      <3>4. results' = [results EXCEPT ![o][r] = [results[o][r] EXCEPT !.chan = Tail(@)]]
        BY <3>1
      <3> QED
        BY <1>0, <3>1, <3>3, <3>4, Update2 DEF BatchTypes
    <2> QED
      BY <1>3, <2>1, <2>2, <2>3 DEF MainLoop
  <1>4. ASSUME NEW o \in Operators, NEW r \in Roots, CloseResults(o, r)
        PROVE  BatchTypes'
    <2>1. results[o][r] \in Results
      BY <1>0
    <2>2. [results[o][r] EXCEPT !.closed = TRUE] \in Results
      BY <2>1 DEF Results
    <2>3. results' = [results EXCEPT ![o][r] = [results[o][r] EXCEPT !.closed = TRUE]]
      BY <1>4 DEF CloseResults
    <2> QED
      BY <1>0, <1>4, <2>2, <2>3, Update2 DEF CloseResults, BatchTypes
  <1>5. ASSUME NEW o \in Operators, NEW r \in Roots, NEW i \in DOMAIN worker[o][r],
               VerifierEnds(o, r, i)
        PROVE  BatchTypes'
    <2>1. worker[o][r] \in WorkerSeqs /\ results[o][r] \in Results
      BY <1>0
    <2>2. [worker[o][r] EXCEPT ![i] = "done"] \in WorkerSeqs
      BY <2>1 DEF WorkerSeqs
    <2>3. Accepts(object[r], i) \in BOOLEAN
      BY DEF Accepts
    <2>4. [results[o][r] EXCEPT !.chan = Append(@, Accepts(object[r], i))] \in Results
      <3>1. results[o][r].chan \in Seq(BOOLEAN)
        BY <2>1 DEF Results
      <3>2. Append(results[o][r].chan, Accepts(object[r], i)) \in Seq(BOOLEAN)
        BY <2>3, <3>1
      <3> QED
        BY <2>1, <3>2 DEF Results
    <2>5. /\ worker' = [worker EXCEPT ![o][r] = [worker[o][r] EXCEPT ![i] = "done"]]
          /\ results' = [results EXCEPT ![o][r] =
                            [results[o][r] EXCEPT !.chan = Append(@, Accepts(object[r], i))]]
      BY <1>5 DEF VerifierEnds
    <2>6. worker' \in [Operators -> [Roots -> WorkerSeqs]]
      BY <1>0, <2>2, <2>5, Update2
    <2>7. results' \in [Operators -> [Roots -> Results]]
      BY <1>0, <2>4, <2>5, Update2
    <2> QED
      BY <2>6, <2>7 DEF BatchTypes
  <1>6. CASE UNCHANGED vars
    BY <1>1, <1>6 DEF vars, local
  <1>7. CASE Network \/ OnChain
    BY <1>1, <1>7, NetworkLeaves, OnChainLeaves DEF local
  <1> QED
    BY <1>1, <1>2, <1>3, <1>4, <1>5, <1>6, <1>7, StepKinds, SubscribesLeaves, SenderLeaves
    DEF Verifiers

\* A sender's next state is one of its kind: the number of its calls stays below
\* MaxRetries until it ends.
LEMMA NextTryTypes ==
    ASSUME NEW s \in Sends, s.tries < MaxRetries
    PROVE  /\ NextTry(s) \in Sends
           /\ NextTry(s).pc \notin {"none", "sent", "gaveup"} => NextTry(s).tries < MaxRetries
  <1>1. s.tries + 1 \in 0..MaxRetries
    BY OperatorAssumption DEF Sends
  <1> QED
    BY <1>1 DEF NextTry, Sends, SendStates

\* One field of a sender's state is replaced.
LEMMA OneField ==
    ASSUME NEW f \in [Operators -> [Roots -> Sends]], NEW o \in Operators, NEW r \in Roots,
           NEW p
    PROVE  [f EXCEPT ![o][r].pc = p]
               = [f EXCEPT ![o][r] = [f[o][r] EXCEPT !.pc = p, !.conn = f[o][r].conn]]
  <1>1. f[o][r] \in Sends
    OBVIOUS
  <1>2. [f[o][r] EXCEPT !.pc = p, !.conn = f[o][r].conn] = [f[o][r] EXCEPT !.pc = p]
    BY <1>1 DEF Sends
  <1> QED
    BY <1>1, <1>2

\* Senders, connections and what the aggregator holds keep their types.
LEMMA SenderTypesStep == Types /\ [Next]_vars => SenderTypes'
  <1> SUFFICES ASSUME Types, [Next]_vars
               PROVE  SenderTypes'
    OBVIOUS
  <1>0. SenderTypes /\ \A o \in Operators : loop[o].root \in Roots
    BY DEF Types, ProcessTypes
  <1>b. MaxBreaks \in Nat /\ MaxRetries \in Nat /\ 0 < MaxRetries
    BY OperatorAssumption
  <1> USE DEF SenderTypes
  <1>1. CASE UNCHANGED <<send, client, shut, epoch, aggUp, received>>
    BY <1>0, <1>1
  <1>2. ASSUME NEW o \in Operators, Die(o)
        PROVE  SenderTypes'
    <2>1. NoSend \in Sends /\ NoSend.pc = "none"
      BY <1>b DEF NoSend, Sends, SendStates
    <2> QED
      BY <1>0, <1>2, <2>1 DEF Die, remote
  <1>3. ASSUME NEW o \in Operators, Subscribes(o)
        PROVE  SenderTypes'
    <2>1. UNCHANGED <<send, shut, epoch, aggUp, received>>
      BY <1>3, SubscribesLeaves DEF remote
    <2>2. client' \in [Operators -> 0..MaxBreaks]
      BY <1>0, <1>3 DEF Subscribes, Boot, SubscriptionFails, Resubscribe
    <2> QED
      BY <1>0, <2>1, <2>2
  <1>4. ASSUME NEW o \in Operators, MainLoop(o)
        PROVE  SenderTypes'
    <2>1. UNCHANGED <<client, shut, epoch, aggUp, received>>
      BY <1>4, MainLoopLeaves DEF remote
    <2>2. CASE send' = send
      BY <1>1, <2>1, <2>2
    <2>3. CASE Sign(o)
      <3> DEFINE s == [NoSend EXCEPT !.pc = "call"]
      <3>1. s \in Sends /\ s.tries < MaxRetries
        BY <1>b DEF NoSend, Sends, SendStates
      <3>2. send' = [send EXCEPT ![o][loop[o].root] = s]
        BY <2>3 DEF Sign
      <3> HIDE DEF s
      <3> QED
        BY <1>0, <2>1, <3>1, <3>2, Update2
    <2> QED
      BY <1>4, <2>2, <2>3 DEF MainLoop, Receive, FetchFails, Fetch, Collect
  <1>5. ASSUME NEW o \in Operators, NEW r \in Roots, Sender(o, r)
        PROVE  SenderTypes'
    <2>0. UNCHANGED <<epoch, aggUp>> /\ send[o][r] \in Sends
      BY <1>0, <1>5, SenderLeaves
    <2>1. ASSUME NEW s \in Sends, send' = [send EXCEPT ![o][r] = s],
                 s.pc \notin {"none", "sent", "gaveup"} => s.tries < MaxRetries,
                 client' \in [Operators -> 0..MaxBreaks],
                 shut' = shut \/ Noticed(o, send[o][r].conn) \/ Noticed(o, client[o]),
                 received' \in [Roots -> SUBSET Operators]
          PROVE  SenderTypes'
      <3>1. \A c \in 0..MaxBreaks : Noticed(o, c) =>
                shut' \in [Operators -> Nat] /\ \A p \in Operators : shut'[p] <= epoch[p]
        BY <1>0, <1>b DEF Noticed
      <3>2. send[o][r].conn \in 0..MaxBreaks /\ client[o] \in 0..MaxBreaks
        BY <1>0, <2>0 DEF Sends
      <3>3. shut' \in [Operators -> Nat] /\ \A p \in Operators : shut'[p] <= epoch[p]
        BY <1>0, <2>1, <3>1, <3>2
      <3>4. /\ send' \in [Operators -> [Roots -> Sends]]
            /\ \A p \in Operators, q \in Roots :
                  send'[p][q].pc \notin {"none", "sent", "gaveup"} => send'[p][q].tries < MaxRetries
        BY <1>0, <2>1, Update2
      <3> QED
        BY <1>0, <2>0, <2>1, <3>3, <3>4
    <2>2. CASE Call(o, r)
      <3>1. /\ client[o] \in 0..MaxBreaks /\ send[o][r].tries < MaxRetries
            /\ UNCHANGED <<client, received>>
        BY <1>0, <2>2 DEF Call, remote
      <3>2. PICK p \in {"inflight", "dial", "sleep"} :
                /\ send' = [send EXCEPT ![o][r] = [send[o][r] EXCEPT !.pc = p, !.conn = client[o]]]
                /\ shut' = shut \/ Noticed(o, client[o])
        <4>1. \E p \in {"inflight", "dial", "sleep"} :
                /\ send' = [send EXCEPT ![o][r].pc = p, ![o][r].conn = client[o]]
                /\ shut' = shut \/ Noticed(o, client[o])
          BY <2>2, Zenon DEF Call
        <4>2. PICK p \in {"inflight", "dial", "sleep"} :
                /\ send' = [send EXCEPT ![o][r].pc = p, ![o][r].conn = client[o]]
                /\ shut' = shut \/ Noticed(o, client[o])
          BY <4>1
        <4>3. [send EXCEPT ![o][r].pc = p, ![o][r].conn = client[o]]
                  = [send EXCEPT ![o][r] = [send[o][r] EXCEPT !.pc = p, !.conn = client[o]]]
          <5>1. send \in [Operators -> [Roots -> Sends]]
            BY <1>0
          <5> HIDE DEF SenderTypes
          <5> QED
            BY <5>1
        <4>4. send' = [send EXCEPT ![o][r] = [send[o][r] EXCEPT !.pc = p, !.conn = client[o]]]
          BY <4>2, <4>3, Zenon
        <4> QED
          BY <4>2, <4>4
      <3>3. /\ [send[o][r] EXCEPT !.pc = p, !.conn = client[o]] \in Sends
            /\ [send[o][r] EXCEPT !.pc = p, !.conn = client[o]].tries < MaxRetries
        BY <2>0, <3>1 DEF Sends, SendStates
      <3> QED
        BY <1>0, <2>1, <3>1, <3>2, <3>3
    <2>3. CASE Execute(o, r) \/ Reply(o, r) \/ CallBreaks(o, r) \/ Dial(o, r)
      <3>1. send[o][r].tries < MaxRetries /\ client' = client
        <4>1. send[o][r].pc \in {"inflight", "executed", "dial"} /\ client' = client
          <5>1. CASE Execute(o, r) \/ Reply(o, r)
            BY <5>1 DEF Execute, Reply
          <5>2. CASE CallBreaks(o, r) \/ Dial(o, r)
            BY <5>2 DEF CallBreaks, Dial
          <5> QED
            BY <2>3, <5>1, <5>2
        <4> QED
          BY <1>0, <4>1
      <3>2. received' \in [Roots -> SUBSET Operators]
        BY <1>0, <2>3 DEF Execute, Reply, CallBreaks, Dial, remote
      <3>3. PICK p \in {"executed", "sent", "sleep", "store"}, c \in {send[o][r].conn, epoch[o]} :
                send' = [send EXCEPT ![o][r] = [send[o][r] EXCEPT !.pc = p, !.conn = c]]
        <4>1. \/ \E p \in {"executed", "sent", "sleep"} : send' = [send EXCEPT ![o][r].pc = p]
              \/ send' = [send EXCEPT ![o][r].pc = "store", ![o][r].conn = epoch[o]]
          BY <2>3 DEF Execute, Reply, CallBreaks, Dial
        <4>2. send \in [Operators -> [Roots -> Sends]]
          BY <1>0
        <4>3. ASSUME NEW p \in {"executed", "sent", "sleep"}, send' = [send EXCEPT ![o][r].pc = p]
              PROVE  send' = [send EXCEPT ![o][r] =
                                 [send[o][r] EXCEPT !.pc = p, !.conn = send[o][r].conn]]
          <5>1. [send EXCEPT ![o][r].pc = p]
                    = [send EXCEPT ![o][r] =
                          [send[o][r] EXCEPT !.pc = p, !.conn = send[o][r].conn]]
            BY <4>2, OneField, Zenon
          <5> QED
            BY <4>3, <5>1, Zenon
        <4>4. [send EXCEPT ![o][r].pc = "store", ![o][r].conn = epoch[o]]
                  = [send EXCEPT ![o][r] =
                        [send[o][r] EXCEPT !.pc = "store", !.conn = epoch[o]]]
          BY <4>2
        <4>5. CASE \E p \in {"executed", "sent", "sleep"} : send' = [send EXCEPT ![o][r].pc = p]
          BY <4>3, <4>5
        <4>6. CASE send' = [send EXCEPT ![o][r].pc = "store", ![o][r].conn = epoch[o]]
          <5>1. send' = [send EXCEPT ![o][r] =
                            [send[o][r] EXCEPT !.pc = "store", !.conn = epoch[o]]]
            BY <4>4, <4>6, Zenon
          <5> QED
            BY <5>1
        <4> QED
          BY <4>1, <4>5, <4>6
      <3>4. /\ [send[o][r] EXCEPT !.pc = p, !.conn = c] \in Sends
            /\ [send[o][r] EXCEPT !.pc = p, !.conn = c].tries < MaxRetries
        BY <1>0, <2>0, <3>1 DEF Sends, SendStates
      <3>5. shut' = shut \/ Noticed(o, send[o][r].conn)
        BY <2>3 DEF Execute, Reply, CallBreaks, Dial
      <3> QED
        BY <1>0, <2>1, <3>1, <3>2, <3>3, <3>4, <3>5
    <2>4. CASE Store(o, r) \/ Wake(o, r)
      <3>1. send[o][r].tries < MaxRetries
        BY <1>0, <2>4 DEF Store, Wake
      <3>2. send' = [send EXCEPT ![o][r] = NextTry(send[o][r])] /\ received' = received
        BY <2>4 DEF Store, Wake, remote
      <3>3. client' \in [Operators -> 0..MaxBreaks]
        BY <1>0, <2>0, <2>4 DEF Store, Wake, Sends
      <3>4. shut' = shut \/ Noticed(o, send[o][r].conn)
        BY <2>4 DEF Store, Wake
      <3> QED
        BY <1>0, <2>0, <2>1, <3>1, <3>2, <3>3, <3>4, NextTryTypes
    <2> QED
      BY <1>5, <2>2, <2>3, <2>4 DEF Sender
  <1>6. CASE Network
    <2>1. UNCHANGED <<send, client, shut>>
      BY <1>6, NetworkLeaves DEF local
    <2>2. ASSUME NEW os \in SUBSET Operators, Breaks(os)
          PROVE  /\ epoch' \in [Operators -> 0..MaxBreaks]
                 /\ \A o \in Operators : epoch[o] <= epoch'[o]
      BY <1>0, <1>b, <2>2 DEF Breaks
    <2>3. CASE UNCHANGED epoch
      BY <1>0, <1>6, <2>1, <2>3
      DEF Network, ConnectionDrops, AggregatorEnds, AggregatorStarts
    <2>4. CASE \E os \in SUBSET Operators : Breaks(os)
      <3>1. /\ epoch' \in [Operators -> 0..MaxBreaks]
            /\ \A o \in Operators : epoch[o] <= epoch'[o]
        BY <2>2, <2>4
      <3>2. \A o \in Operators : shut'[o] <= epoch'[o]
        BY <1>0, <1>b, <2>1, <3>1
      <3>3. aggUp' \in BOOLEAN /\ received' \in [Roots -> SUBSET Operators]
        BY <1>0, <1>6 DEF Network, ConnectionDrops, AggregatorEnds, AggregatorStarts
      <3> QED
        BY <1>0, <2>1, <3>1, <3>2, <3>3
    <2> QED
      BY <1>6, <2>3, <2>4 DEF Network, ConnectionDrops, AggregatorEnds, AggregatorStarts
  <1>7. CASE OnChain
    BY <1>1, <1>7, OnChainLeaves DEF local, remote
  <1>8. CASE UNCHANGED vars
    BY <1>1, <1>8 DEF vars, local, remote
  <1>9. ASSUME NEW o \in Operators, Verifiers(o)
        PROVE  SenderTypes'
    BY <1>1, <1>9, VerifiersLeave DEF remote
  <1> QED
    BY <1>2, <1>3, <1>4, <1>5, <1>6, <1>7, <1>8, <1>9, StepKinds

\* The types of the operators' system are kept by every step.
LEMMA TypesStep == Types /\ [Next]_vars => Types'
  BY TypesSuffice, ChainKept, ProcessTypesStep, BatchTypesStep, SenderTypesStep DEF Types

\* The operators' system keeps its types.
THEOREM OperatorTypeCorrect == Spec => []OperatorTypeOK
  <1>1. Spec => []Types
    BY TypesInit, TypesStep, PTL DEF Spec
  <1> QED
    BY <1>1, TypesSuffice, PTL

\* Whatever the operators, their aggregator and the network do, the contract
\* sees a behaviour of its own specification: its theorems hold beside them.
THEOREM OperatorsUseContract == Spec => ChainSpec
  <1>1. Init => ChainInit
    BY DEF Init
  <1> QED
    BY <1>1, StepIsChainStep, OperatorTypeCorrect, PTL DEF Spec, ChainSpec
-----------------------------------------------------------------------------
(***************************************************************************)
(* The verifiers and their channel.                                        *)
(***************************************************************************)
\* The verifiers that have ended are finitely many, one of them per proof.
LEMMA EndedFinite ==
    ASSUME Types, NEW o \in Operators, NEW r \in Roots
    PROVE  /\ Ended(o, r) \subseteq 1..Len(worker[o][r]) /\ Len(worker[o][r]) \in Nat
           /\ DOMAIN worker[o][r] = 1..Len(worker[o][r])
           /\ IsFiniteSet(Ended(o, r)) /\ Cardinality(Ended(o, r)) \in Nat
           /\ \A i \in (1..Len(worker[o][r])) \ Ended(o, r) :
                  Cardinality(Ended(o, r)) < Len(worker[o][r])
  <1>1. worker[o][r] \in WorkerSeqs
    BY DEF Types, BatchTypes
  <1>2. Len(worker[o][r]) \in Nat /\ DOMAIN worker[o][r] = 1..Len(worker[o][r])
    BY <1>1 DEF WorkerSeqs
  <1>3. Ended(o, r) \subseteq 1..Len(worker[o][r])
    BY <1>2 DEF Ended
  <1>4. /\ IsFiniteSet(1..Len(worker[o][r]))
        /\ Cardinality(1..Len(worker[o][r])) = Len(worker[o][r])
    BY <1>2, FS_Interval
  <1>5. IsFiniteSet(Ended(o, r)) /\ Cardinality(Ended(o, r)) \in Nat
    BY <1>3, <1>4, FS_Subset, FS_CardinalityType
  <1>6. ASSUME NEW i \in (1..Len(worker[o][r])) \ Ended(o, r)
        PROVE  Cardinality(Ended(o, r)) < Len(worker[o][r])
    <2>1. Cardinality(Ended(o, r)) <= Len(worker[o][r])
      BY <1>3, <1>4, FS_Subset
    <2>2. Cardinality(Ended(o, r)) # Len(worker[o][r])
      BY <1>3, <1>4, <1>6, FS_Subset
    <2> QED
      BY <1>2, <1>5, <2>1, <2>2
  <1> QED
    BY <1>2, <1>3, <1>5, <1>6

\* A batch whose verifiers and channel a step leaves alone stays in order, unless
\* the loop has just started it.
LEMMA SameBatch ==
    ASSUME NEW o \in Operators, NEW r \in Roots, BatchInOrder(o, r), object' = object,
           worker'[o][r] = worker[o][r], results'[o][r] = results[o][r],
           Started(o, r)' => Started(o, r)
    PROVE  BatchInOrder(o, r)'
  <1>1. Ended(o, r)' = Ended(o, r)
    BY DEF Ended
  <1> QED
    BY <1>1, Zenon DEF BatchInOrder

\* Nothing is out of order where no verifier has ended and nothing was sent.
LEMMA FreshBatch ==
    ASSUME NEW o \in Operators, NEW r \in Roots,
           \A i \in DOMAIN worker[o][r] : worker[o][r][i] = "verify",
           results[o][r] = NoResults,
           \/ worker[o][r] = <<>> /\ ~Started(o, r)
           \/ Len(worker[o][r]) = Len(object[r].batch) /\ Downloads(object[r])
    PROVE  BatchInOrder(o, r)
  <1>1. Ended(o, r) = {}
    BY DEF Ended
  <1>2. Cardinality(Ended(o, r)) = 0
    BY <1>1, FS_EmptySet
  <1>3. results[o][r].chan = <<>> /\ ~results[o][r].closed
    BY DEF NoResults
  <1>4. Len(results[o][r].chan) <= Cardinality(Ended(o, r))
    BY <1>2, <1>3
  <1> QED
    BY <1>1, <1>3, <1>4 DEF BatchInOrder

\* A verifier that ends leaves its refusal in the channel, if it refuses.
LEMMA VerifierInOrder ==
    ASSUME Types, Types', object' = object, NEW o \in Operators, NEW r \in Roots,
           NEW i \in DOMAIN worker[o][r], BatchInOrder(o, r), VerifierEnds(o, r, i)
    PROVE  BatchInOrder(o, r)'
  <1>0. worker[o][r] \in WorkerSeqs /\ results[o][r] \in Results
    BY DEF Types, BatchTypes
  <1> DEFINE chan == results[o][r].chan
  <1>1. worker'[o][r] = [worker[o][r] EXCEPT ![i] = "done"] /\ loop' = loop
    BY DEF VerifierEnds, Types, BatchTypes
  <1>2. results'[o][r] = [results[o][r] EXCEPT !.chan = Append(@, Accepts(object[r], i))]
    BY DEF VerifierEnds, Types, BatchTypes
  <1>3. /\ chan \in Seq(BOOLEAN) /\ results'[o][r].chan = Append(chan, Accepts(object[r], i))
        /\ results'[o][r].closed = results[o][r].closed
    BY <1>0, <1>2 DEF Results
  <1>4. /\ Len(worker'[o][r]) = Len(worker[o][r]) /\ DOMAIN worker'[o][r] = DOMAIN worker[o][r]
        /\ worker[o][r] # <<>> /\ worker[o][r][i] = "verify"
    BY <1>0, <1>1 DEF WorkerSeqs, VerifierEnds
  <1>5. Ended(o, r)' = Ended(o, r) \cup {i} /\ i \notin Ended(o, r)
    BY <1>0, <1>1, <1>4 DEF Ended, WorkerSeqs
  <1>6. Cardinality(Ended(o, r)') = Cardinality(Ended(o, r)) + 1
    BY <1>5, EndedFinite, FS_AddElement
  <1>7. Len(results'[o][r].chan) <= Cardinality(Ended(o, r)')
    <2>1. Len(chan) \in Nat /\ Len(results'[o][r].chan) = Len(chan) + 1
      BY <1>3
    <2>2. Len(chan) <= Cardinality(Ended(o, r))
      BY DEF BatchInOrder
    <2> QED
      BY <1>6, <2>1, <2>2, EndedFinite
  <1>8. ~results'[o][r].closed
    BY <1>3, <1>4 DEF BatchInOrder
  <1>9. ASSUME Started(o, r), NEW j \in Ended(o, r) \cup {i}
        PROVE  Accepts(object[r], j)
               \/ \E k \in DOMAIN results'[o][r].chan : ~results'[o][r].chan[k]
    <2>1. CASE j = i
      <3>1. /\ Len(chan) + 1 \in DOMAIN results'[o][r].chan
            /\ results'[o][r].chan[Len(chan) + 1] = Accepts(object[r], i)
        BY <1>3
      <3> QED
        BY <2>1, <3>1
    <2>2. CASE j \in Ended(o, r)
      <3>1. \A k \in DOMAIN chan :
                k \in DOMAIN results'[o][r].chan /\ results'[o][r].chan[k] = chan[k]
        BY <1>3
      <3>2. Accepts(object[r], j) \/ \E k \in DOMAIN chan : ~chan[k]
        BY <1>9, <2>2 DEF BatchInOrder
      <3> QED
        BY <3>1, <3>2
    <2> QED
      BY <1>9, <2>1, <2>2
  <1>10. Started(o, r)' = Started(o, r)
    BY <1>1 DEF Started
  <1>11. worker'[o][r] = <<>> \/ Len(worker'[o][r]) = Len(object'[r].batch)
    BY <1>4 DEF BatchInOrder
  <1>12. ASSUME Started(o, r)
         PROVE  /\ Downloads(object'[r]) /\ Len(worker'[o][r]) = Len(object'[r].batch)
                /\ \A j \in Ended(o, r)' : Accepts(object'[r], j)
                      \/ \E k \in DOMAIN results'[o][r].chan : ~results'[o][r].chan[k]
    <2>1. Downloads(object'[r]) /\ Len(worker'[o][r]) = Len(object'[r].batch)
      BY <1>4, <1>12 DEF BatchInOrder
    <2>2. ASSUME NEW j \in Ended(o, r)'
          PROVE  Accepts(object'[r], j)
                 \/ \E k \in DOMAIN results'[o][r].chan : ~results'[o][r].chan[k]
      <3>1. j \in Ended(o, r) \cup {i}
        BY <1>5, <2>2
      <3> HIDE DEF chan
      <3>2. object'[r] = object[r]
        BY Zenon
      <3> QED
        BY <1>9, <1>12, <3>1, <3>2, Zenon
    <2> QED
      BY <2>1, <2>2
  <1> QED
    BY <1>7, <1>8, <1>10, <1>11, <1>12 DEF BatchInOrder

\* The loop takes the first verdict out: a refusal, and it leaves the batch, or
\* an acceptance, and the refusals there are stay in the channel.
LEMMA CollectInOrder ==
    ASSUME Types, object' = object, NEW o \in Operators, NEW r \in Roots, r = loop[o].root,
           Collect(o), BatchInOrder(o, r)
    PROVE  BatchInOrder(o, r)'
  <1> DEFINE chan == results[o][r].chan
  <1>0. results[o][r] \in Results /\ loop \in [Operators -> [pc : LoopStates, root : Roots]]
    BY DEF Types, BatchTypes, ProcessTypes
  <1>1. /\ worker' = worker /\ chan # <<>>
        /\ results'[o][r] = [results[o][r] EXCEPT !.chan = Tail(@)]
    BY DEF Collect, Types, BatchTypes
  <1>2. /\ results'[o][r].chan = Tail(chan) /\ results'[o][r].closed = results[o][r].closed
        /\ chan \in Seq(BOOLEAN)
    BY <1>0, <1>1 DEF Results
  <1>3. Ended(o, r)' = Ended(o, r)
    BY <1>1 DEF Ended
  <1>4. Len(results'[o][r].chan) <= Cardinality(Ended(o, r)')
    <2>1. Len(chan) \in Nat /\ Len(Tail(chan)) = Len(chan) - 1
      BY <1>1, <1>2, RestOf
    <2>2. Len(chan) <= Cardinality(Ended(o, r))
      BY DEF BatchInOrder
    <2> QED
      BY <1>2, <1>3, <2>1, <2>2, EndedFinite
  <1>5. Started(o, r)
    BY DEF Started, Collect
  <1>6. Started(o, r)' => Head(chan)
    BY <1>0 DEF Started, Collect, Idle
  <1>7. ASSUME Head(chan), NEW k \in DOMAIN chan, ~chan[k]
        PROVE  \E m \in DOMAIN Tail(chan) : ~Tail(chan)[m]
    <2>0. Len(chan) \in Nat /\ k \in 1..Len(chan)
      BY <1>2
    <2>1. k # 1
      <3>1. Head(chan) = chan[1]
        BY <1>1, <1>2
      <3> QED
        BY <1>7, <3>1, Zenon
    <2>2. /\ k - 1 \in 1..Len(chan) - 1 /\ Tail(chan)[k - 1] = chan[k]
          /\ DOMAIN Tail(chan) = 1..Len(chan) - 1
      BY <1>1, <1>2, <2>0, <2>1, RestOf
    <2> QED
      BY <1>7, <2>2
  <1>8. ASSUME Started(o, r)', NEW i \in Ended(o, r)
        PROVE  Accepts(object[r], i)
               \/ \E m \in DOMAIN results'[o][r].chan : ~results'[o][r].chan[m]
    <2>1. Accepts(object[r], i) \/ \E k \in DOMAIN chan : ~chan[k]
      BY <1>5, <1>8 DEF BatchInOrder
    <2> QED
      BY <1>2, <1>6, <1>7, <1>8, <2>1, Zenon
  <1> QED
    BY <1>1, <1>2, <1>3, <1>4, <1>5, <1>8, ZenonT(30) DEF BatchInOrder

\* The channel is closed behind the last verdict.
LEMMA CloseInOrder ==
    ASSUME Types, object' = object, NEW o \in Operators, NEW r \in Roots, CloseResults(o, r),
           BatchInOrder(o, r)
    PROVE  BatchInOrder(o, r)'
  <1>1. results[o][r] \in Results
    BY DEF Types, BatchTypes
  <1>2. /\ results'[o][r] = [results[o][r] EXCEPT !.closed = TRUE]
        /\ worker' = worker /\ loop' = loop
    BY DEF CloseResults, Types, BatchTypes
  <1>3. results'[o][r].chan = results[o][r].chan
    BY <1>1, <1>2 DEF Results
  <1>4. \A i \in DOMAIN worker[o][r] : worker[o][r][i] = "done"
    BY DEF CloseResults, AllDone
  <1>5. Ended(o, r)' = Ended(o, r) /\ Started(o, r)' = Started(o, r)
    BY <1>2 DEF Ended, Started
  <1> QED
    BY <1>2, <1>3, <1>4, <1>5 DEF BatchInOrder

\* Every step keeps every batch in order.
LEMMA BatchesStep ==
    ASSUME Types, [Next]_vars, NEW q \in Operators, NEW s \in Roots, BatchInOrder(q, s)
    PROVE  BatchInOrder(q, s)'
  <1>0. /\ Types' /\ object' = object /\ OperatorTypeOK
        /\ loop \in [Operators -> [pc : LoopStates, root : Roots]]
        /\ worker \in [Operators -> [Roots -> WorkerSeqs]]
        /\ results \in [Operators -> [Roots -> Results]]
    BY TypesStep, TypesSuffice, ChainKept DEF Types, ProcessTypes, BatchTypes
  <1>1. CASE UNCHANGED <<loop, worker, results>>
    <2>1. Started(q, s)' => Started(q, s)
      BY <1>1 DEF Started
    <2> QED
      BY <1>0, <1>1, <2>1, SameBatch
  <1>2. ASSUME NEW o \in Operators, Die(o)
        PROVE  BatchInOrder(q, s)'
    <2>1. CASE q = o
      <3>1. worker'[q][s] = <<>> /\ results'[q][s] = NoResults /\ loop'[q].pc = "select"
        BY <1>0, <1>2, <2>1 DEF Die, Idle
      <3>2. Ended(q, s)' = {} /\ ~Started(q, s)'
        BY <3>1 DEF Ended, Started
      <3>3. /\ results'[q][s].chan = <<>> /\ ~results'[q][s].closed
            /\ Cardinality(Ended(q, s)') = 0
        BY <3>1, <3>2, FS_EmptySet DEF NoResults
      <3> QED
        BY <3>1, <3>2, <3>3 DEF BatchInOrder
    <2>2. CASE q # o
      <3>1. worker'[q] = worker[q] /\ results'[q] = results[q] /\ loop'[q] = loop[q]
        BY <1>0, <1>2, <2>2 DEF Die
      <3>2. Started(q, s)' => Started(q, s)
        BY <3>1 DEF Started
      <3> QED
        BY <1>0, <3>1, <3>2, SameBatch
    <2> QED
      BY <2>1, <2>2
  <1>3. ASSUME NEW o \in Operators, MainLoop(o)
        PROVE  BatchInOrder(q, s)'
    <2>1. loop[o].root \in Roots
      BY <1>0
    <2>2. CASE Receive(o) \/ FetchFails(o) \/ Sign(o)
      <3>1. worker' = worker /\ results' = results
        BY <2>2 DEF Receive, FetchFails, Sign
      <3>2. Started(q, s)' => Started(q, s)
        <4>1. \/ loop' = [loop EXCEPT ![o] = Idle(o)]
              \/ \E r \in Roots : loop' = [loop EXCEPT ![o] = [pc |-> "fetch", root |-> r]]
          <5>1. \A i \in Unheard(o) : log[i].root \in Roots
            BY AnnouncedRoots DEF Unheard, Types
          <5> QED
            BY <2>2, <5>1 DEF Receive, FetchFails, Sign
        <4> QED
          BY <1>0, <4>1 DEF Started, Idle
      <3> QED
        BY <1>0, <3>1, <3>2, SameBatch
    <2>3. CASE (Fetch(o) \/ Collect(o)) /\ (q # o \/ s # loop[o].root)
      <3>1. /\ worker' = worker
               \/ \E v : worker' = [worker EXCEPT ![o][loop[o].root] = v]
            /\ \/ \E v : results' = [results EXCEPT ![o][loop[o].root] = v]
               \/ \E v : results' = [results EXCEPT ![o][loop[o].root].chan = v]
        BY <2>3 DEF Fetch, Collect
      <3>2. worker'[q][s] = worker[q][s] /\ results'[q][s] = results[q][s]
        <4>1. ASSUME NEW v, worker' = [worker EXCEPT ![o][loop[o].root] = v]
              PROVE  worker'[q][s] = worker[q][s]
          BY <1>0, <2>1, <2>3, <4>1
        <4>2. ASSUME NEW v, \/ results' = [results EXCEPT ![o][loop[o].root] = v]
                            \/ results' = [results EXCEPT ![o][loop[o].root].chan = v]
              PROVE  results'[q][s] = results[q][s]
          BY <1>0, <2>1, <2>3, <4>2
        <4> QED
          BY <3>1, <4>1, <4>2
      <3>3. \/ loop' = loop \/ loop' = [loop EXCEPT ![o] = Idle(o)]
            \/ q = o /\ loop'[o].root = loop[o].root
            \/ q # o /\ loop'[q] = loop[q]
        <4>1. CASE Fetch(o)
          BY <1>0, <4>1 DEF Fetch
        <4>2. CASE Collect(o)
          BY <4>2 DEF Collect
        <4> QED
          BY <2>3, <4>1, <4>2
      <3>4. Started(q, s)' => Started(q, s)
        BY <1>0, <2>3, <3>3 DEF Started, Idle
      <3> QED
        BY <1>0, <3>2, <3>4, SameBatch
    <2>4. CASE Fetch(o) /\ q = o /\ s = loop[o].root
      <3>1. /\ worker'[q][s] = [i \in DOMAIN object[s].batch |-> "verify"]
            /\ results'[q][s] = NoResults /\ Downloads(object[s])
        BY <1>0, <2>4 DEF Fetch
      <3>2. Len(worker'[q][s]) = Len(object[s].batch)
        BY <1>0, <3>1, OnePerProof, ObjectTypes
      <3>3. Ended(q, s)' = {}
        BY <3>1 DEF Ended
      <3>4. /\ results'[q][s].chan = <<>> /\ ~results'[q][s].closed
            /\ Cardinality(Ended(q, s)') = 0
        BY <3>1, <3>3, FS_EmptySet DEF NoResults
      <3> QED
        BY <1>0, <3>1, <3>2, <3>3, <3>4 DEF BatchInOrder
    <2>5. CASE Collect(o) /\ q = o /\ s = loop[o].root
      BY <1>0, <2>5, CollectInOrder
    <2> QED
      BY <1>3, <2>2, <2>3, <2>4, <2>5 DEF MainLoop
  <1>4. ASSUME NEW o \in Operators, NEW r \in Roots, CloseResults(o, r)
        PROVE  BatchInOrder(q, s)'
    <2>1. CASE q = o /\ s = r
      BY <1>0, <1>4, <2>1, CloseInOrder
    <2>2. CASE q # o \/ s # r
      <3>1. worker' = worker /\ results'[q][s] = results[q][s] /\ loop' = loop
        BY <1>0, <1>4, <2>2 DEF CloseResults
      <3> QED
        BY <1>0, <3>1, SameBatch DEF Started
    <2> QED
      BY <2>1, <2>2
  <1>5. ASSUME NEW o \in Operators, NEW r \in Roots, NEW i \in DOMAIN worker[o][r],
               VerifierEnds(o, r, i)
        PROVE  BatchInOrder(q, s)'
    <2>1. CASE q = o /\ s = r
      BY <1>0, <1>5, <2>1, VerifierInOrder
    <2>2. CASE q # o \/ s # r
      <3>1. worker'[q][s] = worker[q][s] /\ results'[q][s] = results[q][s] /\ loop' = loop
        BY <1>0, <1>5, <2>2 DEF VerifierEnds
      <3> QED
        BY <1>0, <3>1, SameBatch DEF Started
    <2> QED
      BY <2>1, <2>2
  <1>6. CASE UNCHANGED vars
    BY <1>1, <1>6 DEF vars, local
  <1>7. CASE Network \/ OnChain
    BY <1>1, <1>7, NetworkLeaves, OnChainLeaves DEF local
  <1>8. ASSUME NEW o \in Operators, Subscribes(o)
        PROVE  BatchInOrder(q, s)'
    BY <1>1, <1>8, SubscribesLeaves
  <1>9. ASSUME NEW o \in Operators, NEW r \in Roots, Sender(o, r)
        PROVE  BatchInOrder(q, s)'
    BY <1>1, <1>9, SenderLeaves
  <1> QED
    BY <1>2, <1>3, <1>4, <1>5, <1>6, <1>7, <1>8, <1>9, StepKinds DEF Verifiers

\* A root is signed when the channel of its batch is closed and empty: every
\* verifier has ended, and no refusal is left, in the channel or out of it.
LEMMA SignedStep ==
    ASSUME OperatorInv, [Next]_vars
    PROVE  SignedMeansAccepted'
  <1>0. Types /\ object' = object /\ signed \in [Roots -> SUBSET Operators]
    BY TypesSuffice, ChainKept DEF OperatorInv, Types, ChainTypeOK
  <1>1. CASE signed' = signed
    BY <1>0, <1>1 DEF OperatorInv, SignedMeansAccepted
  <1>2. ASSUME NEW o \in Operators, Sign(o)
        PROVE  SignedMeansAccepted'
    <2> DEFINE r == loop[o].root
    <2>1. /\ r \in Roots /\ CollectedAll(o, r) /\ Started(o, r)
          /\ signed' = [signed EXCEPT ![r] = @ \cup {o}]
      BY <1>2 DEF OperatorInv, Types, ProcessTypes, Sign, SignRoot, Started
    <2>2. BatchInOrder(o, r)
      BY <2>1 DEF OperatorInv
    <2>3. \A i \in DOMAIN worker[o][r] : worker[o][r][i] = "done" /\ i \in Ended(o, r)
      BY <2>1, <2>2 DEF BatchInOrder, CollectedAll, Ended
    <2>4. DOMAIN results[o][r].chan = {}
      BY <2>1 DEF CollectedAll
    <2>5. \A i \in DOMAIN worker[o][r] : Accepts(object[r], i)
      BY <2>1, <2>2, <2>3, <2>4 DEF BatchInOrder
    <2>6. DOMAIN worker[o][r] = DOMAIN object[r].batch
      <3>1. object[r] \in Object
        BY <1>0, <2>1, TypesSuffice, ObjectTypes
      <3>2. DOMAIN object[r].batch = 1..Len(object[r].batch)
        BY <3>1, OnePerProof
      <3> QED
        BY <1>0, <2>1, <2>2, <3>2, EndedFinite DEF BatchInOrder
    <2>7. Sound(object[r])
      BY <2>1, <2>2, <2>5, <2>6 DEF Sound, BatchInOrder
    <2>8. ASSUME NEW q \in Roots, signed'[q] # {}
          PROVE  Sound(object[q])
      <3>1. CASE q = r
        BY <2>7, <3>1
      <3>2. CASE q # r
        BY <1>0, <2>1, <2>8, <3>2 DEF OperatorInv, SignedMeansAccepted
      <3> QED
        BY <3>1, <3>2
    <2> QED
      BY <1>0, <2>8 DEF SignedMeansAccepted, Sound
  <1>3. ASSUME NEW o \in Operators, MainLoop(o)
        PROVE  SignedMeansAccepted'
    <2>1. CASE Receive(o) \/ FetchFails(o) \/ Fetch(o) \/ Collect(o)
      BY <1>1, <2>1 DEF Receive, FetchFails, Fetch, Collect, chainVars
    <2> QED
      BY <1>2, <1>3, <2>1 DEF MainLoop
  <1>4. CASE OnChain
    BY <1>1, <1>4
    DEF OnChain, Chain, AggregatorResponds, Mine, CreateNewTask, RespondToTask
  <1>5. CASE UNCHANGED chainVars
    BY <1>1, <1>5 DEF chainVars
  <1>6. CASE UNCHANGED vars
    BY <1>5, <1>6 DEF vars
  <1> QED
    BY <1>3, <1>4, <1>5, <1>6, StepKinds, DieLeaves, SubscribesLeaves, VerifiersLeave,
       SenderLeaves, NetworkLeaves
-----------------------------------------------------------------------------
\* Before anything has happened no batch is downloaded and no root is signed.
LEMMA InvInit == Init => OperatorInv
  <1> SUFFICES ASSUME Init
               PROVE  OperatorInv
    OBVIOUS
  <1>1. ASSUME NEW o \in Operators, NEW r \in Roots
        PROVE  BatchInOrder(o, r)
    <2>1. worker[o][r] = <<>> /\ results[o][r] = NoResults /\ ~Started(o, r)
      BY DEF Init, Started
    <2> QED
      BY <2>1, FreshBatch
  <1>2. SignedMeansAccepted
    BY DEF Init, ChainInit, SignedMeansAccepted
  <1> QED
    BY <1>1, <1>2, TypesInit DEF OperatorInv

\* Every step keeps the invariant.
LEMMA InvStep == OperatorInv /\ [Next]_vars => OperatorInv'
  BY TypesStep, BatchesStep, SignedStep DEF OperatorInv

\* The invariant of the operators' system.
LEMMA InvHolds == Spec => []OperatorInv
  BY InvInit, InvStep, PTL DEF Spec

\* An operator signs a root only if every proof of the batch was accepted, in
\* whatever order its verifiers end and whatever else the process does.
THEOREM SignedBatchesAccepted == Spec => []SignedMeansAccepted
  <1>1. OperatorInv => SignedMeansAccepted
    BY DEF OperatorInv
  <1> QED
    BY <1>1, InvHolds, PTL

\* No verifier sends on a closed channel.
THEOREM ChannelsCloseLast == Spec => []NoSendOnClosed
  <1>1. OperatorInv => NoSendOnClosed
    BY DEF OperatorInv, BatchInOrder, NoSendOnClosed
  <1> QED
    BY <1>1, InvHolds, PTL

\* No verifier is blocked on a full channel, whether or not the loop still reads
\* it: one that runs has not sent, so fewer verdicts were sent than proofs are.
THEOREM RoomInChannels == Spec => []RoomForEveryVerdict
  <1>1. ASSUME OperatorInv, NEW o \in Operators, NEW r \in Roots,
               NEW i \in DOMAIN worker[o][r], worker[o][r][i] = "verify"
        PROVE  Len(results[o][r].chan) < Capacity(object[r])
    <2>1. Types /\ BatchInOrder(o, r) /\ results[o][r] \in Results
      BY <1>1 DEF OperatorInv, Types, BatchTypes
    <2>2. /\ i \in (1..Len(worker[o][r])) \ Ended(o, r)
          /\ Cardinality(Ended(o, r)) < Len(worker[o][r])
          /\ Cardinality(Ended(o, r)) \in Nat /\ Len(worker[o][r]) \in Nat
      BY <1>1, <2>1, EndedFinite DEF Ended
    <2>3. Len(worker[o][r]) = Len(object[r].batch)
      BY <1>1, <2>1 DEF BatchInOrder
    <2>4. Len(results[o][r].chan) \in Nat
      BY <2>1 DEF Results
    <2> QED
      BY <2>1, <2>2, <2>3, <2>4 DEF BatchInOrder, Capacity
  <1>2. OperatorInv => RoomForEveryVerdict
    BY <1>1 DEF RoomForEveryVerdict
  <1> QED
    BY <1>2, InvHolds, PTL
-----------------------------------------------------------------------------
(***************************************************************************)
(* From the operators to the contract.                                     *)
(***************************************************************************)
\* A batch is created in a block of the chain.
CreatedInBlocks == \A r \in Roots : batchesState[r].taskCreatedBlock \in Blocks

\* The block a batch records is the one that was being built.
LEMMA CreatedStep ==
    ASSUME ChainTypeOK, CreatedInBlocks, [ChainNext]_chainVars
    PROVE  CreatedInBlocks'
  <1> USE DEF ChainTypeOK, BatchState, CreatedInBlocks
  <1>1. CASE UNCHANGED batchesState
    BY <1>1
  <1>2. ASSUME NEW r \in Roots, CreateNewTask(r)
        PROVE  CreatedInBlocks'
    BY <1>2, BlockNumberFits DEF CreateNewTask
  <1>3. ASSUME NEW r \in Roots, NEW S \in SUBSET Operators, RespondToTask(r, S)
        PROVE  CreatedInBlocks'
    BY <1>3 DEF RespondToTask
  <1> QED
    BY <1>1, <1>2, <1>3 DEF ChainNext, Mine, SignRoot, chainVars

\* Every batch of the ledger was created in a block of the chain.
LEMMA CreatedHolds == ChainSpec => []CreatedInBlocks
  <1>1. ChainInit => CreatedInBlocks
    BY BlockAssumption DEF ChainInit, CreatedInBlocks, Blocks
  <1> QED
    BY <1>1, CreatedStep, TypeCorrect, PTL DEF ChainSpec

\* A batch the contract counts as verified was accepted, every proof of it: the
\* contract had a quorum of signatures, nobody is no quorum, and a signature
\* means acceptance.
THEOREM VerifiedBatchesAccepted == Spec => []VerifiedMeansAccepted
  <1>1. ASSUME ChainTypeOK, QuorumBehindVerified, CreatedInBlocks, SignedMeansAccepted
        PROVE  VerifiedMeansAccepted
    <2> SUFFICES ASSUME NEW r \in Roots, Responded(r)
                 PROVE  Sound(object[r])
      BY DEF VerifiedMeansAccepted
    <2>1. PICK S \in SUBSET signed[r] : IsQuorum(S, stakeAt[batchesState[r].taskCreatedBlock])
      BY <1>1 DEF QuorumBehindVerified
    <2>2. ~IsQuorum({}, stakeAt[batchesState[r].taskCreatedBlock])
      BY <1>1, StakedAssumption DEF ChainTypeOK, CreatedInBlocks
    <2>3. S # {}
      BY <2>1, <2>2
    <2>4. signed[r] # {}
      BY <2>3
    <2> QED
      BY <1>1, <2>4 DEF SignedMeansAccepted
  <1> QED
    BY <1>1, OperatorsUseContract, TypeCorrect, QuorumSafety, CreatedHolds,
       SignedBatchesAccepted, PTL
-----------------------------------------------------------------------------
(***************************************************************************)
(* What breaks of a connection cost a sender, while the aggregator runs.   *)
(* For a sender, the calls it may still lose without another break are     *)
(* counted: the invariant adds them to the calls it has made.              *)
(***************************************************************************)
Is(s, pc, tries, conn) == s.pc = pc /\ s.tries = tries /\ s.conn = conn

\* A call on a connection that has broken, and the connections that are not
\* known to be shut down when it has failed: each can take one more call before
\* the client is found shut down.
Unnoticed(s, h, e) ==
    IF s.pc \in {"inflight", "executed", "sleep"} /\ s.conn < e
    THEN 1 + e - (IF s.conn < h THEN h ELSE s.conn + 1)
    ELSE e - h

\* The call that finds the client shut down: made already, and perhaps to be
\* made again because the new connection has broken too; or still to be made.
Redials(s, c, e) ==
    IF s.pc = "dial" THEN 1
    ELSE IF s.pc = "store" THEN IF s.conn < e THEN 2 ELSE 1
    ELSE IF c < e THEN 1 ELSE 0

HoldsStale(s, e) == s.pc = "store" /\ s.conn < e

\* With the senders of one operator in the states f: the other senders about to
\* put a broken connection in the client.
Restorers(f, r, e) == {q \in Roots \ {r} : HoldsStale(f[q], e)}

\* Connections are numbered by breaks: a sender waits or dials after a break, so
\* the connection it has dialled is not the first.
SenderInOrder(s, e) ==
    /\ s.conn <= e
    /\ s.pc \in {"sleep", "dial"} => s.conn < e
    /\ s.pc = "store" => 0 < s.conn

ConnectionsInOrder(f, c, e) == c <= e /\ \A r \in Roots : SenderInOrder(f[r], e)

CallsBounded(f, r, c, h, e) ==
    f[r].tries + Unnoticed(f[r], h, e) + Redials(f[r], c, e) + Cardinality(Restorers(f, r, e))
        <= 2 * e + (Cardinality(Roots) - 1) * (IF e = 0 THEN 0 ELSE e - 1)

AllBounded(f, c, h, e) == \A r \in Roots : CallsBounded(f, r, c, h, e)

CallsInv ==
    /\ aggUp
    /\ \A o \in Operators :
          /\ ConnectionsInOrder(send[o], client[o], epoch[o])
          /\ AllBounded(send[o], client[o], shut[o], epoch[o])

Notices(h, k, e, conn) == k = (IF conn < e /\ conn >= h THEN conn + 1 ELSE h)

AfterTry(t) == IF t.tries + 1 < MaxRetries THEN "call" ELSE "gaveup"

\* A step of a sender from t to s, while the client goes from c to d and the
\* connections known to be shut down from h to k.
Move(t, s, c, d, h, k, e) ==
    \/ /\ t.pc = "call" /\ c = e
       /\ Is(s, "inflight", t.tries, c) /\ d = c /\ k = h
    \/ /\ t.pc = "call" /\ c # e
       /\ Is(s, "dial", t.tries, c) /\ d = c /\ Notices(h, k, e, c)
    \/ /\ t.pc = "call" /\ c # e /\ h <= c
       /\ Is(s, "sleep", t.tries, c) /\ d = c /\ k = h
    \/ /\ t.pc \in {"inflight", "executed"} /\ t.conn = e /\ d = c /\ k = h
       /\ (Is(s, "executed", t.tries, t.conn) \/ Is(s, "sent", t.tries, t.conn))
    \/ /\ t.pc \in {"inflight", "executed"} /\ t.conn # e
       /\ Is(s, "sleep", t.tries, t.conn) /\ d = c /\ Notices(h, k, e, t.conn)
    \/ /\ t.pc = "dial" /\ Is(s, "store", t.tries, e) /\ d = c /\ k = h
    \/ /\ t.pc = "store" /\ d = t.conn /\ k = h
       /\ Is(s, AfterTry(t), t.tries + 1, t.conn)
    \/ /\ t.pc = "sleep" /\ d = c /\ Notices(h, k, e, t.conn)
       /\ Is(s, AfterTry(t), t.tries + 1, t.conn)

Moves(o, r) ==
    Move(send[o][r], send'[o][r], client[o], client'[o], shut[o], shut'[o], epoch[o])

\* A sender's own step: what it has made and what it may still lose do not grow.
LEMMA OwnMove ==
    ASSUME NEW t \in Sends, NEW s \in Sends, NEW c \in Nat, NEW d \in Nat, NEW h \in Nat,
           NEW k \in Nat, NEW e \in Nat, c <= e, h <= e, SenderInOrder(t, e),
           Move(t, s, c, d, h, k, e)
    PROVE  /\ d <= e /\ SenderInOrder(s, e) /\ ~HoldsStale(s, e)
           /\ s.tries + Unnoticed(s, k, e) + Redials(s, d, e)
                  <= t.tries + Unnoticed(t, h, e) + Redials(t, c, e)
  <1>1. /\ t.tries \in Nat /\ t.conn \in Nat /\ t.pc \in SendStates
        /\ s.tries \in Nat /\ s.conn \in Nat /\ s.pc \in SendStates
    BY OperatorAssumption DEF Sends
  <1> USE <1>1 DEF Move, Is, AfterTry, Notices, SenderInOrder, HoldsStale, Unnoticed, Redials
  <1>2. CASE t.pc = "call" /\ s.pc = "inflight"
    BY <1>2
  <1>3. CASE t.pc = "call" /\ s.pc = "dial"
    BY <1>3
  <1>4. CASE t.pc = "call" /\ s.pc = "sleep"
    BY <1>4
  <1>5. CASE t.pc \in {"inflight", "executed"} /\ t.conn = e
    BY <1>5
  <1>6. CASE t.pc \in {"inflight", "executed"} /\ t.conn # e
    BY <1>6
  <1>7. CASE t.pc = "dial"
    BY <1>7
  <1>8. CASE t.pc = "store"
    BY <1>8
  <1>9. CASE t.pc = "sleep"
    BY <1>9
  <1> QED
    BY <1>2, <1>3, <1>4, <1>5, <1>6, <1>7, <1>8, <1>9

\* Another sender's step costs at most the call that its broken connection was
\* counted for.
LEMMA OthersMove ==
    ASSUME NEW u \in Sends, NEW t \in Sends, NEW s \in Sends, NEW c \in Nat, NEW d \in Nat,
           NEW h \in Nat, NEW k \in Nat, NEW e \in Nat, c <= e, h <= e,
           SenderInOrder(u, e), SenderInOrder(t, e), Move(t, s, c, d, h, k, e)
    PROVE  /\ Unnoticed(u, k, e) <= Unnoticed(u, h, e)
           /\ Redials(u, d, e) <= Redials(u, c, e) + (IF HoldsStale(t, e) THEN 1 ELSE 0)
  <1>1. /\ t.tries \in Nat /\ t.conn \in Nat /\ t.pc \in SendStates
        /\ u.conn \in Nat /\ u.pc \in SendStates
    BY OperatorAssumption DEF Sends
  <1>2. h <= k
    BY <1>1 DEF Move, Notices
  <1>3. d = c \/ (t.pc = "store" /\ d = t.conn)
    BY DEF Move
  <1>4. Unnoticed(u, k, e) <= Unnoticed(u, h, e)
    BY <1>1, <1>2 DEF Unnoticed
  <1>5. Redials(u, d, e) <= Redials(u, c, e) + (IF HoldsStale(t, e) THEN 1 ELSE 0)
    BY <1>1, <1>3 DEF Redials, HoldsStale, SenderInOrder
  <1> QED
    BY <1>4, <1>5

\* A break: two calls more, for a sender whose client was alive.
LEMMA BreakCost ==
    ASSUME NEW u \in Sends, NEW c \in Nat, NEW h \in Nat, NEW e \in Nat, c <= e, h <= e,
           SenderInOrder(u, e)
    PROVE  /\ SenderInOrder(u, e + 1)
           /\ Unnoticed(u, h, e + 1) + Redials(u, c, e + 1)
                  <= Unnoticed(u, h, e) + Redials(u, c, e) + 2
  <1>1. u.conn \in Nat /\ u.pc \in SendStates
    BY OperatorAssumption DEF Sends
  <1> QED
    BY <1>1 DEF Unnoticed, Redials, SenderInOrder, SendStates

\* What a step may do to the senders of one operator.
Same(o) == send'[o] = send[o] /\ client'[o] = client[o] /\ shut'[o] = shut[o]

Ends(o) ==
    /\ \A r \in Roots : send'[o][r] = NoSend
    /\ client'[o] = client[o] /\ shut'[o] = shut[o]

Redialled(o) == send'[o] = send[o] /\ client'[o] = epoch[o] /\ shut'[o] = shut[o]

Starts(o, q) ==
    /\ Is(send'[o][q], "call", 0, 0)
    /\ \A r \in Roots \ {q} : send'[o][r] = send[o][r]
    /\ client'[o] = client[o] /\ shut'[o] = shut[o]

\* With the states f and then g of the senders: only that of q acts.
OthersWait(f, g, q) == \A p \in Roots \ {q} : g[p] = f[p]

Acts(o, q) == Moves(o, q) /\ OthersWait(send[o], send'[o], q)


Others(f, g, o, q) ==
    /\ OthersWait(f[o], g[o], q)
    /\ \A p \in Operators \ {o} : g[p] = f[p]

\* The fields of one sender's state are replaced.
LEMMA FieldsSet ==
    ASSUME NEW f \in [Operators -> [Roots -> Sends]], NEW o \in Operators, NEW q \in Roots,
           NEW p, NEW c, NEW g,
           \/ g = [f EXCEPT ![o][q].pc = p, ![o][q].conn = c]
           \/ g = [f EXCEPT ![o][q].pc = p] /\ c = f[o][q].conn
    PROVE  Is(g[o][q], p, f[o][q].tries, c) /\ Others(f, g, o, q)
  <1>1. f[o][q] \in Sends
    OBVIOUS
  <1>2. CASE g = [f EXCEPT ![o][q].pc = p, ![o][q].conn = c]
    <2>1. g[o][q] = [f[o][q] EXCEPT !.pc = p, !.conn = c]
      BY <1>2
    <2> QED
      BY <1>1, <1>2, <2>1 DEF Sends, Is, Others, OthersWait
  <1>3. CASE g = [f EXCEPT ![o][q].pc = p] /\ c = f[o][q].conn
    <2>1. g[o][q] = [f[o][q] EXCEPT !.pc = p]
      BY <1>3
    <2> QED
      BY <1>1, <1>3, <2>1 DEF Sends, Is, Others, OthersWait
  <1> QED
    BY <1>2, <1>3

\* A sender's step in the terms of its state, the client and the shut
\* connections.
LEMMA SenderMoves ==
    ASSUME Types, aggUp, NEW o \in Operators, NEW q \in Roots, Sender(o, q)
    PROVE  Acts(o, q) /\ \A p \in Operators \ {o} : Same(p)
  <1>0. /\ send \in [Operators -> [Roots -> Sends]] /\ send[o][q] \in Sends
        /\ client \in [Operators -> 0..MaxBreaks] /\ shut \in [Operators -> Nat]
    BY DEF Types, SenderTypes
  <1> DEFINE t == send[o][q]
             To(p, n, c) == Is(send'[o][q], p, n, c) /\ Others(send, send', o, q)
             Notes(c) == /\ Notices(shut[o], shut'[o], epoch[o], c)
                         /\ \A p \in Operators \ {o} : shut'[p] = shut[p]
  <1>1. \A c : Noticed(o, c) => Notes(c)
    BY <1>0 DEF Noticed, Notices
  <1>2. \A p, c : send' = [send EXCEPT ![o][q].pc = p, ![o][q].conn = c] => To(p, t.tries, c)
    BY <1>0, FieldsSet
  <1>3. \A p : send' = [send EXCEPT ![o][q].pc = p] => To(p, t.tries, t.conn)
    BY <1>0, FieldsSet
  <1>4. send' = [send EXCEPT ![o][q] = NextTry(@)] => To(AfterTry(t), t.tries + 1, t.conn)
    <2> SUFFICES ASSUME send' = [send EXCEPT ![o][q] = NextTry(@)]
                 PROVE  To(AfterTry(t), t.tries + 1, t.conn)
      OBVIOUS
    <2>1. send'[o][q] = NextTry(t) /\ Others(send, send', o, q)
      BY <1>0 DEF Others, OthersWait
    <2>2. Is(NextTry(t), AfterTry(t), t.tries + 1, t.conn)
      BY <1>0 DEF NextTry, Is, Sends, AfterTry
    <2> QED
      BY <2>1, <2>2
  <1> HIDE DEF To, Notes
  <1>5. CASE Call(o, q)
    <2>1. /\ t.pc = "call" /\ client' = client
          /\ \/ client[o] = epoch[o] /\ To("inflight", t.tries, client[o]) /\ shut' = shut
             \/ client[o] # epoch[o] /\ To("dial", t.tries, client[o]) /\ Notes(client[o])
             \/ /\ client[o] # epoch[o] /\ shut[o] <= client[o]
                /\ To("sleep", t.tries, client[o]) /\ shut' = shut
      BY <1>1, <1>2, <1>5 DEF Call, Alive
    <2> QED
      BY <2>1 DEF To, Notes, Others, Acts, Moves, Move, Same
  <1>6. CASE Execute(o, q) \/ Reply(o, q)
    <2>1. /\ t.pc \in {"inflight", "executed"} /\ t.conn = epoch[o]
          /\ client' = client /\ shut' = shut
          /\ To("executed", t.tries, t.conn) \/ To("sent", t.tries, t.conn)
      BY <1>3, <1>6 DEF Execute, Reply, Alive
    <2> QED
      BY <2>1 DEF To, Notes, Others, Acts, Moves, Move, Same
  <1>7. CASE CallBreaks(o, q)
    <2>1. /\ t.pc \in {"inflight", "executed"} /\ t.conn # epoch[o]
          /\ client' = client /\ Notes(t.conn) /\ To("sleep", t.tries, t.conn)
      BY <1>1, <1>3, <1>7 DEF CallBreaks, Alive
    <2> QED
      BY <2>1 DEF To, Notes, Others, Acts, Moves, Move, Same
  <1>8. CASE Dial(o, q)
    <2>1. t.pc = "dial" /\ client' = client /\ shut' = shut /\ To("store", t.tries, epoch[o])
      BY <1>2, <1>8 DEF Dial
    <2> QED
      BY <2>1 DEF To, Notes, Others, Acts, Moves, Move, Same
  <1>9. CASE Store(o, q)
    <2>1. /\ t.pc = "store" /\ client'[o] = t.conn /\ shut' = shut
          /\ \A p \in Operators \ {o} : client'[p] = client[p]
      BY <1>0, <1>9 DEF Store
    <2>2. To(AfterTry(t), t.tries + 1, t.conn)
      BY <1>4, <1>9 DEF Store
    <2> QED
      BY <2>1, <2>2 DEF To, Notes, Others, Acts, Moves, Move, Same
  <1>10. CASE Wake(o, q)
    <2>1. t.pc = "sleep" /\ client' = client /\ Notes(t.conn)
      BY <1>1, <1>10 DEF Wake
    <2>2. To(AfterTry(t), t.tries + 1, t.conn)
      BY <1>4, <1>10 DEF Wake
    <2> QED
      BY <2>1, <2>2 DEF To, Notes, Others, Acts, Moves, Move, Same
  <1> QED
    BY <1>5, <1>6, <1>7, <1>8, <1>9, <1>10 DEF Sender

\* A step is one of these to each operator, while the aggregator runs.
LEMMA StepOfOperator ==
    ASSUME Types, "aggregator" \notin Faults, aggUp, [Next]_vars, NEW o \in Operators
    PROVE  /\ aggUp'
           /\ \/ /\ epoch'[o] = epoch[o]
                 /\ \/ Same(o) \/ Ends(o) \/ Redialled(o)
                    \/ \E q \in Roots : Starts(o, q) \/ Acts(o, q)
              \/ epoch'[o] = epoch[o] + 1 /\ Same(o)
  <1>0. /\ send \in [Operators -> [Roots -> Sends]] /\ client \in [Operators -> 0..MaxBreaks]
        /\ epoch \in [Operators -> 0..MaxBreaks]
        /\ \A p \in Operators : loop[p].root \in Roots
    BY DEF Types, SenderTypes, ProcessTypes
  <1>1. CASE UNCHANGED <<send, client, shut, epoch, aggUp>>
    BY <1>1 DEF Same
  <1>2. ASSUME NEW p \in Operators, Die(p)
        PROVE  aggUp' /\ epoch' = epoch /\ (Same(o) \/ Ends(o))
    BY <1>0, <1>2 DEF Die, remote, Same, Ends
  <1>3. ASSUME NEW p \in Operators, Subscribes(p)
        PROVE  aggUp' /\ epoch' = epoch /\ (Same(o) \/ Redialled(o))
    <2>1. UNCHANGED <<send, shut, epoch, aggUp>>
      BY <1>3, SubscribesLeaves DEF remote
    <2>2. client' = client \/ client' = [client EXCEPT ![p] = epoch[p]]
      BY <1>3 DEF Subscribes, Boot, SubscriptionFails, Resubscribe
    <2> QED
      BY <1>0, <2>1, <2>2 DEF Same, Redialled
  <1>4. ASSUME NEW p \in Operators, MainLoop(p)
        PROVE  aggUp' /\ epoch' = epoch /\ (Same(o) \/ \E q \in Roots : Starts(o, q))
    <2>1. UNCHANGED <<client, shut, epoch, aggUp>>
      BY <1>4, MainLoopLeaves DEF remote
    <2>2. CASE send' = send
      BY <2>1, <2>2 DEF Same
    <2>3. CASE Sign(p)
      <3>1. send' = [send EXCEPT ![p][loop[p].root] = [NoSend EXCEPT !.pc = "call"]]
        BY <2>3 DEF Sign
      <3>2. Is([NoSend EXCEPT !.pc = "call"], "call", 0, 0)
        BY DEF Is, NoSend
      <3> QED
        BY <1>0, <2>1, <3>1, <3>2 DEF Same, Starts
    <2>4. send' = send \/ Sign(p)
      <3>1. Receive(p) \/ FetchFails(p) => send' = send
        BY DEF Receive, FetchFails
      <3>2. Fetch(p) => send' = send
        BY Zenon DEF Fetch
      <3>3. Collect(p) => send' = send
        BY Zenon DEF Collect
      <3> QED
        BY <1>4, <3>1, <3>2, <3>3 DEF MainLoop
    <2> QED
      BY <2>2, <2>3, <2>4
  <1>5. ASSUME NEW p \in Operators, NEW q \in Roots, Sender(p, q)
        PROVE  aggUp' /\ epoch' = epoch /\ (Same(o) \/ Acts(o, q))
    BY <1>5, SenderLeaves, SenderMoves
  <1>6. CASE Network
    <2>1. PICK p \in Operators : ConnectionDrops(p)
      BY <1>6 DEF Network, AggregatorEnds, AggregatorStarts
    <2>2. UNCHANGED <<send, client, shut>> /\ aggUp' = aggUp
      BY <2>1 DEF ConnectionDrops, local
    <2>3. epoch'[o] = epoch[o] \/ epoch'[o] = epoch[o] + 1
      BY <2>1 DEF ConnectionDrops, Breaks
    <2> QED
      BY <2>2, <2>3 DEF Same
  <1>7. CASE OnChain
    BY <1>1, <1>7, OnChainLeaves DEF local, remote
  <1>8. CASE UNCHANGED vars
    BY <1>1, <1>8 DEF vars, local, remote
  <1>9. ASSUME NEW p \in Operators, Verifiers(p)
        PROVE  UNCHANGED <<send, client, shut, epoch, aggUp>>
    BY <1>9, VerifiersLeave DEF remote
  <1> QED
    BY <1>1, <1>2, <1>3, <1>4, <1>5, <1>6, <1>7, <1>8, <1>9, StepKinds

\* The others that hold a broken connection are finitely many, and none before
\* the second break: nobody dials before the first.
LEMMA RestorersCount ==
    ASSUME IsFiniteSet(Roots), NEW f \in [Roots -> Sends], NEW r \in Roots, NEW e \in Nat,
           \A q \in Roots : SenderInOrder(f[q], e)
    PROVE  /\ IsFiniteSet(Restorers(f, r, e))
           /\ Cardinality(Restorers(f, r, e)) \in Nat /\ Cardinality(Roots) \in Nat
           /\ Cardinality(Restorers(f, r, e)) <= Cardinality(Roots) - 1
           /\ e <= 1 => Cardinality(Restorers(f, r, e)) = 0
  <1>1. /\ IsFiniteSet(Roots \ {r})
        /\ Cardinality(Roots) \in Nat
        /\ Cardinality(Roots \ {r}) = Cardinality(Roots) - 1
    BY FS_RemoveElement, FS_CardinalityType
  <1>2. Restorers(f, r, e) \subseteq Roots \ {r}
    BY DEF Restorers
  <1>3. IsFiniteSet(Restorers(f, r, e))
            /\ Cardinality(Restorers(f, r, e)) <= Cardinality(Roots \ {r})
    BY <1>1, <1>2, FS_Subset
  <1>4. Cardinality(Restorers(f, r, e)) \in Nat
    BY <1>3, FS_CardinalityType
  <1>5. ASSUME e <= 1
        PROVE  Restorers(f, r, e) = {}
    <2>1. \A q \in Roots : f[q].conn \in Nat
      BY OperatorAssumption DEF Sends
    <2> QED
      BY <1>5, <2>1 DEF Restorers, HoldsStale, SenderInOrder
  <1> QED
    BY <1>1, <1>3, <1>4, <1>5, FS_EmptySet

\* A sender that has not called yet is within the bound.
LEMMA FreshBounded ==
    ASSUME IsFiniteSet(Roots), NEW f \in [Roots -> Sends], NEW r \in Roots, NEW c \in Nat,
           NEW h \in Nat, NEW e \in Nat, h <= e, ConnectionsInOrder(f, c, e),
           f[r].tries = 0, f[r].pc \in {"none", "call"}
    PROVE  CallsBounded(f, r, c, h, e)
  <1> DEFINE m == Cardinality(Roots)
             n == Cardinality(Restorers(f, r, e))
  <1>1. n \in Nat /\ m \in Nat /\ n <= m - 1 /\ (e <= 1 => n = 0)
    BY RestorersCount DEF ConnectionsInOrder
  <1>2. Unnoticed(f[r], h, e) <= e /\ Unnoticed(f[r], h, e) \in Nat
    BY DEF Unnoticed
  <1>3. /\ Redials(f[r], c, e) \in Nat /\ Redials(f[r], c, e) <= 1
        /\ e = 0 => Redials(f[r], c, e) = 0
    BY DEF Redials, ConnectionsInOrder
  <1> HIDE DEF m, n
  <1>4. CASE e <= 1
    BY <1>1, <1>2, <1>3, <1>4 DEF CallsBounded, m, n
  <1>5. CASE e > 1
    <2>1. PICK k \in Nat : e = k + 2
      <3>1. e - 2 \in Nat /\ e = (e - 2) + 2
        BY <1>5
      <3> QED
        BY <3>1
    <2>2. (m - 1) * (k + 1) = (m - 1) * k + (m - 1) /\ (m - 1) * k \in Nat
      BY <1>1
    <2>3. (m - 1) * (e - 1) >= n
      BY <1>1, <2>1, <2>2
    <2> QED
      BY <1>1, <1>2, <1>3, <1>5, <2>3 DEF CallsBounded, m, n
  <1> QED
    BY <1>4, <1>5

\* Without a sender's step nothing grows, though some senders may have ended or
\* start, and the client may be new.
LEMMA ReplacedBounded ==
    ASSUME IsFiniteSet(Roots), NEW f \in [Roots -> Sends], NEW g \in [Roots -> Sends],
           NEW r \in Roots, NEW c \in Nat, NEW h \in Nat, NEW e \in Nat, NEW d \in {c, e},
           h <= e, ConnectionsInOrder(f, c, e), ConnectionsInOrder(g, d, e),
           \A q \in Roots : g[q] = f[q] \/ (g[q].tries = 0 /\ g[q].pc \in {"none", "call"}),
           CallsBounded(f, r, c, h, e)
    PROVE  CallsBounded(g, r, d, h, e)
  <1>1. CASE g[r] # f[r]
    BY <1>1, FreshBounded
  <1>2. CASE g[r] = f[r]
    <2>1. Restorers(g, r, e) \subseteq Restorers(f, r, e)
      BY DEF Restorers, HoldsStale
    <2>2. Cardinality(Restorers(g, r, e)) <= Cardinality(Restorers(f, r, e))
      BY <2>1, RestorersCount, FS_Subset DEF ConnectionsInOrder
    <2>3. Redials(f[r], d, e) <= Redials(f[r], c, e)
              /\ Redials(f[r], d, e) \in Nat /\ Redials(f[r], c, e) \in Nat
      BY DEF Redials, ConnectionsInOrder
    <2>4. /\ Cardinality(Restorers(f, r, e)) \in Nat /\ Cardinality(Restorers(g, r, e)) \in Nat
          /\ Cardinality(Roots) \in Nat
      BY RestorersCount DEF ConnectionsInOrder
    <2>5. Unnoticed(f[r], h, e) \in Int /\ f[r].tries \in Int
      <3>1. f[r].conn \in Nat /\ f[r].tries \in Nat
        BY OperatorAssumption DEF Sends
      <3> QED
        BY <3>1 DEF Unnoticed
    <2>6. (Cardinality(Roots) - 1) * (IF e = 0 THEN 0 ELSE e - 1) \in Int
      BY <2>4
    <2> QED
      BY <1>2, <2>2, <2>3, <2>4, <2>5, <2>6 DEF CallsBounded
  <1> QED
    BY <1>1, <1>2

\* A sender's own step keeps it within the bound.
LEMMA ActingBounded ==
    ASSUME IsFiniteSet(Roots), NEW f \in [Roots -> Sends], NEW g \in [Roots -> Sends],
           NEW q \in Roots, NEW c \in Nat, NEW d \in Nat, NEW h \in Nat, NEW k \in Nat,
           NEW e \in Nat, h <= e, ConnectionsInOrder(f, c, e),
           Move(f[q], g[q], c, d, h, k, e), OthersWait(f, g, q), AllBounded(f, c, h, e)
    PROVE  /\ ConnectionsInOrder(g, d, e)
           /\ AllBounded(g, d, k, e)
  <1>1. \A p \in Roots : SenderInOrder(f[p], e)
    BY DEF ConnectionsInOrder
  <1>2. /\ d <= e /\ SenderInOrder(g[q], e) /\ ~HoldsStale(g[q], e)
        /\ g[q].tries + Unnoticed(g[q], k, e) + Redials(g[q], d, e)
               <= f[q].tries + Unnoticed(f[q], h, e) + Redials(f[q], c, e)
    BY <1>1, OwnMove DEF ConnectionsInOrder
  <1>3. ConnectionsInOrder(g, d, e)
    BY <1>1, <1>2 DEF ConnectionsInOrder, OthersWait
  <1>4. \A p \in Roots : /\ g[p].tries \in Int /\ g[p].conn \in Int
                         /\ f[p].tries \in Int /\ f[p].conn \in Int
    BY OperatorAssumption DEF Sends
  <1>5. \A p \in Roots : /\ Unnoticed(g[p], k, e) \in Int /\ Unnoticed(f[p], h, e) \in Int
                         /\ Redials(g[p], d, e) \in Int /\ Redials(f[p], c, e) \in Int
    BY <1>4 DEF Unnoticed, Redials
  <1> SUFFICES ASSUME NEW r \in Roots
               PROVE  CallsBounded(g, r, d, k, e)
    BY <1>3 DEF AllBounded
  <1>9. CallsBounded(f, r, c, h, e) /\ \A p \in Roots \ {q} : g[p] = f[p]
    BY DEF AllBounded, OthersWait
  <1>6. /\ Cardinality(Restorers(f, r, e)) \in Int /\ Cardinality(Restorers(g, r, e)) \in Int
        /\ IsFiniteSet(Restorers(f, r, e))
        /\ (Cardinality(Roots) - 1) * (IF e = 0 THEN 0 ELSE e - 1) \in Int
    BY <1>1, <1>3, RestorersCount DEF ConnectionsInOrder
  <1>7. CASE r = q
    <2>1. Restorers(g, r, e) = Restorers(f, r, e)
      BY <1>7, <1>9 DEF Restorers
    <2> QED
      BY <1>2, <1>4, <1>5, <1>6, <1>7, <1>9, <2>1 DEF CallsBounded
  <1>8. CASE r # q
    <2>1. /\ g[r] = f[r]
          /\ Unnoticed(f[r], k, e) <= Unnoticed(f[r], h, e)
          /\ Redials(f[r], d, e) <= Redials(f[r], c, e) + (IF HoldsStale(f[q], e) THEN 1 ELSE 0)
      BY <1>1, <1>8, <1>9, OthersMove DEF ConnectionsInOrder
    <2>2. Cardinality(Restorers(g, r, e)) + (IF HoldsStale(f[q], e) THEN 1 ELSE 0)
              = Cardinality(Restorers(f, r, e))
      <3>1. CASE HoldsStale(f[q], e)
        <4>1. Restorers(g, r, e) = Restorers(f, r, e) \ {q}
          BY <1>2, <1>9 DEF Restorers
        <4>2. q \in Restorers(f, r, e)
          BY <1>8, <3>1 DEF Restorers
        <4>3. Cardinality(Restorers(f, r, e) \ {q}) = Cardinality(Restorers(f, r, e)) - 1
          BY <1>6, <4>2, FS_RemoveElement
        <4> QED
          BY <1>6, <3>1, <4>1, <4>3
      <3>2. CASE ~HoldsStale(f[q], e)
        <4>1. Restorers(g, r, e) = Restorers(f, r, e)
          BY <1>2, <1>9, <3>2 DEF Restorers
        <4> QED
          BY <1>6, <3>2, <4>1
      <3> QED
        BY <3>1, <3>2
    <2> QED
      BY <1>4, <1>5, <1>6, <1>9, <2>1, <2>2 DEF CallsBounded
  <1> QED
    BY <1>7, <1>8

\* A break adds two calls to the bound, and one for every other sender that may
\* have dialled the connection that breaks.
LEMMA BreakBounded ==
    ASSUME IsFiniteSet(Roots), NEW f \in [Roots -> Sends], NEW r \in Roots, NEW c \in Nat,
           NEW h \in Nat, NEW e \in Nat, h <= e, ConnectionsInOrder(f, c, e),
           CallsBounded(f, r, c, h, e)
    PROVE  ConnectionsInOrder(f, c, e + 1) /\ CallsBounded(f, r, c, h, e + 1)
  <1> DEFINE m == Cardinality(Roots)
             n == Cardinality(Restorers(f, r, e))
             p == Cardinality(Restorers(f, r, e + 1))
             u == Unnoticed(f[r], h, e) + Redials(f[r], c, e)
             v == Unnoticed(f[r], h, e + 1) + Redials(f[r], c, e + 1)
             b == (m - 1) * (IF e = 0 THEN 0 ELSE e - 1)
  <1>1. ConnectionsInOrder(f, c, e + 1)
    BY BreakCost DEF ConnectionsInOrder
  <1>2. v <= u + 2
    BY BreakCost DEF ConnectionsInOrder
  <1>3. f[r].conn \in Int /\ f[r].tries \in Int
    BY OperatorAssumption DEF Sends
  <1>4. /\ Unnoticed(f[r], h, e) \in Int /\ Unnoticed(f[r], h, e + 1) \in Int
        /\ Redials(f[r], c, e) \in Int /\ Redials(f[r], c, e + 1) \in Int
    BY <1>3 DEF Unnoticed, Redials
  <1>5. n \in Nat /\ m \in Nat
    BY RestorersCount DEF ConnectionsInOrder
  <1>6. p \in Nat /\ p <= m - 1 /\ (e = 0 => p = 0)
    <2>1. e + 1 \in Nat /\ (e = 0 => e + 1 <= 1)
      OBVIOUS
    <2> QED
      BY <1>1, <2>1, RestorersCount DEF ConnectionsInOrder
  <1>7. (m - 1) * e = b + (IF e = 0 THEN 0 ELSE m - 1) /\ b \in Int
    BY <1>5
  <1>8. f[r].tries + u + n <= 2 * e + b
    <2>1. f[r].tries + Unnoticed(f[r], h, e) + Redials(f[r], c, e) + n <= 2 * e + b
      BY DEF CallsBounded
    <2>2. n \in Int /\ b \in Int
      BY <1>5, <1>7
    <2> HIDE DEF n, b
    <2> QED
      BY <1>3, <1>4, <2>1, <2>2
  <1>9. u \in Int /\ v \in Int
    BY <1>4
  <1>10. f[r].tries + v + p <= 2 * (e + 1) + (m - 1) * e
    <2> HIDE DEF u, v, p, m, n, b
    <2> QED
      BY <1>2, <1>3, <1>5, <1>6, <1>7, <1>8, <1>9
  <1>11. (IF e + 1 = 0 THEN 0 ELSE e + 1 - 1) = e
    OBVIOUS
  <1>12. CallsBounded(f, r, c, h, e + 1)
    BY <1>3, <1>4, <1>5, <1>6, <1>10, <1>11 DEF CallsBounded
  <1> QED
    BY <1>1, <1>12

\* Before anything has happened there is no break and no call.
LEMMA CallsInit == IsFiniteSet(Roots) /\ Init => CallsInv
  <1> SUFFICES ASSUME IsFiniteSet(Roots), Init
               PROVE  CallsInv
    OBVIOUS
  <1>1. /\ Types /\ aggUp
        /\ send \in [Operators -> [Roots -> Sends]]
        /\ \A o \in Operators : client[o] = 0 /\ shut[o] = 0 /\ epoch[o] = 0
        /\ \A o \in Operators, r \in Roots : send[o][r] = NoSend
    BY TypesInit DEF Init, Types, SenderTypes
  <1>2. ASSUME NEW o \in Operators
        PROVE  ConnectionsInOrder(send[o], client[o], epoch[o])
    BY <1>1 DEF ConnectionsInOrder, SenderInOrder, NoSend
  <1>3. ASSUME NEW o \in Operators, NEW r \in Roots
        PROVE  CallsBounded(send[o], r, client[o], shut[o], epoch[o])
    <2>1. /\ send[o] \in [Roots -> Sends]
          /\ client[o] \in Nat /\ shut[o] \in Nat /\ epoch[o] \in Nat
          /\ shut[o] <= epoch[o] /\ send[o][r].tries = 0 /\ send[o][r].pc \in {"none", "call"}
      BY <1>1 DEF NoSend
    <2> QED
      BY <1>2, <2>1, FreshBounded
  <1> QED
    BY <1>1, <1>2, <1>3 DEF CallsInv, AllBounded

\* Every step keeps the calls within the bound.
LEMMA CallsStep ==
    ASSUME IsFiniteSet(Roots), "aggregator" \notin Faults, Types, Types', CallsInv, [Next]_vars
    PROVE  CallsInv'
  <1>1. ASSUME NEW o \in Operators
        PROVE  /\ aggUp'
               /\ ConnectionsInOrder(send'[o], client'[o], epoch'[o])
               /\ AllBounded(send'[o], client'[o], shut'[o], epoch'[o])
    <2> DEFINE f == send[o]
               g == send'[o]
               c == client[o]
               h == shut[o]
               e == epoch[o]
    <2>1. /\ f \in [Roots -> Sends] /\ g \in [Roots -> Sends]
          /\ c \in Nat /\ h \in Nat /\ e \in Nat
          /\ client'[o] \in Nat /\ shut'[o] \in Nat /\ h <= e
      BY OperatorAssumption DEF Types, SenderTypes
    <2>2. ConnectionsInOrder(f, c, e) /\ AllBounded(f, c, h, e)
      BY DEF CallsInv
    <2>3. /\ aggUp'
          /\ \/ /\ epoch'[o] = e
                /\ \/ Same(o) \/ Ends(o) \/ Redialled(o)
                   \/ \E q \in Roots : Starts(o, q) \/ Acts(o, q)
             \/ epoch'[o] = e + 1 /\ Same(o)
      BY StepOfOperator DEF CallsInv
    <2>4. CASE /\ epoch'[o] = e
               /\ Same(o) \/ Ends(o) \/ Redialled(o) \/ \E q \in Roots : Starts(o, q)
      <3>1. /\ client'[o] \in {c, e} /\ shut'[o] = h
            /\ \A q \in Roots : \/ g[q] = f[q]
                                \/ g[q].tries = 0 /\ g[q].pc \in {"none", "call"} /\ g[q].conn = 0
        BY <2>4 DEF Same, Ends, Redialled, Starts, NoSend, Is
      <3>2. ConnectionsInOrder(g, client'[o], e)
        BY <2>1, <2>2, <3>1 DEF ConnectionsInOrder, SenderInOrder
      <3>3. AllBounded(g, client'[o], h, e)
        BY <2>1, <2>2, <3>1, <3>2, ReplacedBounded DEF AllBounded
      <3> QED
        BY <2>3, <2>4, <3>1, <3>2, <3>3
    <2>5. CASE epoch'[o] = e /\ \E q \in Roots : Acts(o, q)
      <3>1. PICK q \in Roots : Acts(o, q)
        BY <2>5
      <3>2. Move(f[q], g[q], c, client'[o], h, shut'[o], e) /\ OthersWait(f, g, q)
        BY <3>1 DEF Acts, Moves
      <3>3. ConnectionsInOrder(g, client'[o], e) /\ AllBounded(g, client'[o], shut'[o], e)
        BY <2>1, <2>2, <3>2, ActingBounded
      <3> QED
        BY <2>3, <2>5, <3>3
    <2>6. CASE epoch'[o] = e + 1 /\ Same(o)
      <3>1. ConnectionsInOrder(f, c, e + 1) /\ AllBounded(f, c, h, e + 1)
        BY <2>1, <2>2, BreakBounded, OperatorAssumption DEF AllBounded
      <3> QED
        BY <2>3, <2>6, <3>1 DEF Same
    <2> QED
      BY <2>3, <2>4, <2>5, <2>6
  <1>2. aggUp'
    <2>1. CASE Operators = {}
      BY <2>1, StepKinds, OnChainLeaves
      DEF CallsInv, Network, AggregatorEnds, AggregatorStarts, remote, vars
    <2> QED
      BY <1>1, <2>1
  <1> QED
    BY <1>1, <1>2 DEF CallsInv

\* Who gives up has made all his calls.
GivenUpLast ==
    \A o \in Operators, r \in Roots :
        send[o][r].pc = "gaveup" => send[o][r].tries = MaxRetries

\* Only the last call is followed by giving up.
LEMMA GivenUpStep ==
    ASSUME "aggregator" \notin Faults, Types, CallsInv, GivenUpLast, [Next]_vars
    PROVE  GivenUpLast'
  <1> SUFFICES ASSUME NEW o \in Operators, NEW r \in Roots, send'[o][r].pc = "gaveup"
               PROVE  send'[o][r].tries = MaxRetries
    BY DEF GivenUpLast
  <1>1. CASE send'[o][r] = send[o][r]
    BY <1>1 DEF GivenUpLast
  <1>2. CASE send'[o][r] # send[o][r]
    <2>1. PICK q \in Roots : Acts(o, q)
      BY <1>2, StepOfOperator DEF CallsInv, Same, Ends, Redialled, Starts, NoSend, Is
    <2>2. q = r
      BY <1>2, <2>1 DEF Acts, OthersWait
    <2>3. /\ send[o][r].pc \notin {"none", "sent", "gaveup"}
          /\ Is(send'[o][r], AfterTry(send[o][r]), send[o][r].tries + 1, send[o][r].conn)
      BY <2>1, <2>2 DEF Acts, Moves, Move, Is, AfterTry
    <2>4. send[o][r].tries \in 0..MaxRetries /\ send[o][r].tries < MaxRetries
      BY <2>3 DEF Types, SenderTypes, Sends
    <2> QED
      BY <2>3, <2>4, OperatorAssumption DEF Is, AfterTry
  <1> QED
    BY <1>1, <1>2

\* The calls and the breaks of the senders, in every state.
LEMMA CallsHold ==
    ASSUME IsFiniteSet(Roots), "aggregator" \notin Faults
    PROVE  Spec => [](Types /\ CallsInv /\ GivenUpLast)
  <1>1. Types /\ CallsInv /\ GivenUpLast /\ [Next]_vars => (Types /\ CallsInv /\ GivenUpLast)'
    BY TypesStep, CallsStep, GivenUpStep
  <1>2. Init => GivenUpLast
    BY DEF Init, GivenUpLast, NoSend
  <1>3. Init => Types /\ CallsInv /\ GivenUpLast
    BY <1>2, TypesInit, CallsInit
  <1> QED
    BY <1>1, <1>3, PTL DEF Spec

\* While the aggregator runs, and with finitely many batches, a sender that gives
\* up has met breaks of the connection: two calls for each at most, and one more
\* for every other sender that puts back a connection that has broken since.
THEOREM BreaksAreCheap ==
    ASSUME IsFiniteSet(Roots), "aggregator" \notin Faults
    PROVE  Spec => []BreaksCostFewCalls
  <1>1. Types /\ CallsInv => BreaksCostFewCalls
    <2> SUFFICES ASSUME Types, CallsInv, NEW o \in Operators, NEW r \in Roots
                 PROVE  send[o][r].tries <= 2 * epoch[o] + Stale(o)
      BY DEF BreaksCostFewCalls
    <2> DEFINE f == send[o]
               e == epoch[o]
               n == Cardinality(Restorers(f, r, e))
               b == (Cardinality(Roots) - 1) * (IF e = 0 THEN 0 ELSE e - 1)
               u == Unnoticed(f[r], shut[o], e)
               v == Redials(f[r], client[o], e)
    <2>1. /\ f \in [Roots -> Sends] /\ f[r] \in Sends /\ e \in Nat /\ client[o] \in Nat
          /\ shut[o] \in Nat /\ shut[o] <= e
      BY OperatorAssumption DEF Types, SenderTypes
    <2>2. f[r].tries \in Nat /\ f[r].conn \in Nat
      BY <2>1, OperatorAssumption DEF Sends
    <2>3. \A q \in Roots : SenderInOrder(f[q], e)
      BY DEF CallsInv, ConnectionsInOrder
    <2>4. n \in Nat /\ Cardinality(Roots) \in Nat
      BY <2>1, <2>3, RestorersCount
    <2>5. u \in Nat /\ v \in Nat
      BY <2>1, <2>2 DEF Unnoticed, Redials
    <2>6. f[r].tries + u + v + n <= 2 * e + b
      BY DEF CallsInv, AllBounded, CallsBounded
    <2>7. b \in Int
      BY <2>1, <2>4
    <2>8. Stale(o) = b
      BY DEF Stale
    <2> HIDE DEF n, b, u, v, f, e
    <2>9. f[r].tries <= 2 * e + b
      BY <2>1, <2>2, <2>4, <2>5, <2>6, <2>7
    <2> QED
      BY <2>8, <2>9 DEF f, e
  <1> QED
    BY <1>1, CallsHold, PTL

\* A signature is given up only after as many breaks as MaxRetries calls take:
\* ten, the source's number, outlast four breaks when there is only one batch.
GivingUpTakesBreaks ==
    \A o \in Operators, r \in Roots :
        send[o][r].pc = "gaveup" => MaxRetries <= 2 * epoch[o] + Stale(o)

\* While the aggregator runs, no sender gives up before the connection has
\* broken often enough for all of its calls.
THEOREM NobodyGivesUpEarly ==
    ASSUME IsFiniteSet(Roots), "aggregator" \notin Faults
    PROVE  Spec => []GivingUpTakesBreaks
  <1>1. BreaksCostFewCalls /\ GivenUpLast => GivingUpTakesBreaks
    BY DEF BreaksCostFewCalls, GivenUpLast, GivingUpTakesBreaks
  <1> QED
    BY <1>1, BreaksAreCheap, CallsHold, PTL
-----------------------------------------------------------------------------
\* The contract's own theorems hold of the whole system of operators, verifiers,
\* senders and aggregator: what they do to it is a behaviour of the abstract
\* promise, and every root is announced and verified once, in that order.
THEOREM OperatorsImplementPromise ==
    Spec => ImplementsPromise /\ LedgerOnlyGrows /\ []LogMatchesState
  BY OperatorsUseContract, Refinement, LedgerMonotone, LogFaithful, PTL
=============================================================================
