------------------------------ MODULE Operator ------------------------------
(***************************************************************************)
(* The operators beside the contract.  An operator hears of a batch from   *)
(* its NewBatch event, downloads it, verifies its proofs concurrently,     *)
(* signs the root if all are accepted, and sends the signature to the      *)
(* aggregator by RPC from a goroutine of its own.                          *)
(*                                                                         *)
(* The goroutines of one operator: its main loop, which takes one event at *)
(* a time; for every batch a verifier per proof and one that closes their  *)
(* results channel, all of which outlive the loop's interest in them; and  *)
(* a sender per signed batch.  The senders share one RPC client and        *)
(* replace it when it is shut down.                                        *)
(*                                                                         *)
(* External: the data service (object), the verifiers' cryptography        *)
(* (Verification), and the aggregator, of which only what an operator sees *)
(* is kept: it runs or not, holds the signatures it was given in this life *)
(* (received) and answers a batch with a quorum of them.                   *)
(***************************************************************************)
EXTENDS AlignedLayerServiceManager, Verification, FiniteSets

CONSTANTS Objects,        \* what may lie behind the data pointers: functions on Roots
          MaxBatchSize,   \* the operator's configured limit
          MaxRetries,     \* 10: calls a sender makes
          MaxBreaks,      \* bound: times an operator's connections break
          MaxFails,       \* bound: failed subscriptions and ended processes
          Faults          \* the faults that may happen

VARIABLES object,     \* object[r]: the object the pointer of r's event names
          up,         \* up[o]: whether o's process runs
          sub,        \* o's subscription: whether it is open, the log position it reached
          loop,       \* o's main loop: where it is, and the batch it works on
          worker,     \* worker[o][r]: the states of the verifiers of batch r
          results,    \* results[o][r]: their channel
          send,       \* send[o][r]: the goroutine that sends the signature of r
          client,     \* client[o]: the connection rpcClient stands for
          shut,       \* shut[o]: the connections numbered below it are marked as shut down
          epoch,      \* epoch[o]: how often o's connections have broken
          aggUp,      \* whether the aggregator runs
          received,   \* received[r]: the operators whose signature it holds
          missed,     \* missed[o]: batches announced that o will not hear of (history)
          fails       \* failed subscriptions and ended processes so far

local == <<up, sub, loop, worker, results, send, client, shut>>
remote == <<aggUp, epoch, received>>
vars == <<chainVars, object, local, remote, missed, fails>>

\* size: Content-Length, -1 when the service does not tell; root: the Merkle
\* root of the batch, which no operator computes.
NoLength == -1
Object == [size : Nat \cup {NoLength}, parses : BOOLEAN, root : Roots,
           batch : Seq([id : ProvingSystemIds, d : VerificationData])]

ASSUME OperatorAssumption ==
    /\ Roots # {}
    /\ Objects \subseteq [Roots -> Object]
    /\ MaxBatchSize \in Nat
    /\ MaxRetries \in Nat \ {0}
    /\ MaxBreaks \in Nat /\ MaxFails \in Nat

\* The registries keep some stake in the quorum: nobody is none.
ASSUME StakedAssumption == \A h \in StakeHistories, b \in Blocks : ~IsQuorum({}, h[b])

Accepts(x, i) == OperatorVerify(x.batch[i].d, x.batch[i].id) = "accept"

LoopStates == {"select", "fetch", "collect"}
SendStates == {"none", "call", "inflight", "executed", "dial", "store", "sleep",
               "sent", "gaveup"}

NoResults == [chan |-> <<>>, closed |-> FALSE]
NoSend == [pc |-> "none", tries |-> 0, conn |-> 0]

OperatorTypeOK ==
    /\ ChainTypeOK
    /\ object \in Objects
    /\ up \in [Operators -> BOOLEAN]
    /\ sub \in [Operators -> [open : BOOLEAN, seen : 0..Len(log)]]
    /\ loop \in [Operators -> [pc : LoopStates, root : Roots]]
    /\ \A o \in Operators, r \in Roots :
          /\ worker[o][r] \in Seq({"verify", "done"})
          /\ results[o][r].chan \in Seq(BOOLEAN)
          /\ results[o][r].closed \in BOOLEAN
          /\ send[o][r] \in [pc : SendStates, tries : 0..MaxRetries, conn : 0..MaxBreaks]
    /\ client \in [Operators -> 0..MaxBreaks]
    /\ epoch \in [Operators -> 0..MaxBreaks]
    /\ \A o \in Operators : shut[o] \in 0..epoch[o]
    /\ aggUp \in BOOLEAN
    /\ received \in [Roots -> SUBSET Operators]
    /\ missed \in [Operators -> SUBSET Roots]
    /\ fails \in 0..MaxFails

Idle(o) == [pc |-> "select", root |-> loop[o].root]

Init ==
    /\ ChainInit
    /\ object \in Objects
    /\ up = [o \in Operators |-> TRUE]
    /\ sub = [o \in Operators |-> [open |-> TRUE, seen |-> 0]]
    /\ loop \in [Operators -> {[pc |-> "select", root |-> CHOOSE r \in Roots : TRUE]}]
    /\ worker = [o \in Operators |-> [r \in Roots |-> <<>>]]
    /\ results = [o \in Operators |-> [r \in Roots |-> NoResults]]
    /\ send = [o \in Operators |-> [r \in Roots |-> NoSend]]
    /\ client = [o \in Operators |-> 0]
    /\ epoch = [o \in Operators |-> 0]
    /\ shut = [o \in Operators |-> 0]
    /\ aggUp = TRUE
    /\ received = [r \in Roots |-> {}]
    /\ missed = [o \in Operators |-> {}]
    /\ fails = 0
-----------------------------------------------------------------------------
(***************************************************************************)
(* The process and its subscription.                                       *)
(***************************************************************************)
Announced == {i \in DOMAIN log : log[i].name = "NewBatch"}
Unheard(o) == {i \in Announced : i > sub[o].seen}
RootsAt(positions) == {log[i].root : i \in positions}

\* A fault of the process or of its subscription is counted.
Fails ==
    /\ fails < MaxFails
    /\ fails' = fails + 1

\* The process of o ends; everything it held is gone.
Die(o) ==
    /\ up' = [up EXCEPT ![o] = FALSE]
    /\ sub' = [sub EXCEPT ![o] = [open |-> FALSE, seen |-> Len(log)]]
    /\ loop' = [loop EXCEPT ![o] = Idle(o)]
    /\ worker' = [worker EXCEPT ![o] = [r \in Roots |-> <<>>]]
    /\ results' = [results EXCEPT ![o] = [r \in Roots |-> NoResults]]
    /\ send' = [send EXCEPT ![o] = [r \in Roots |-> NoSend]]
    /\ missed' = [missed EXCEPT ![o] = @ \cup RootsAt(Announced)]
    /\ UNCHANGED <<chainVars, object, client, shut, remote>>

\* A reboot, or the metrics server ends and the loop logs it as fatal.
Crash(o) ==
    /\ "crash" \in Faults
    /\ up[o]
    /\ Die(o)
    /\ Fails

\* NewOperatorFromConfig dials the aggregator and fails without it; Start
\* subscribes to the events from now on.
Boot(o) ==
    /\ ~up[o]
    /\ aggUp
    /\ up' = [up EXCEPT ![o] = TRUE]
    /\ client' = [client EXCEPT ![o] = epoch[o]]
    /\ sub' = [sub EXCEPT ![o] = [open |-> TRUE, seen |-> Len(log)]]
    /\ missed' = [missed EXCEPT ![o] = @ \cup RootsAt(Unheard(o))]
    /\ UNCHANGED <<chainVars, object, loop, worker, results, send, shut, remote, fails>>

SubscriptionFails(o) ==
    /\ "subscription" \in Faults
    /\ sub[o].open
    /\ Fails
    /\ sub' = [sub EXCEPT ![o].open = FALSE]
    /\ UNCHANGED <<chainVars, object, up, loop, worker, results, send, client, shut, remote,
                   missed>>

\* The loop reads sub.Err() and subscribes anew, to future events only.
Resubscribe(o) ==
    /\ up[o] /\ loop[o].pc = "select" /\ ~sub[o].open
    /\ sub' = [sub EXCEPT ![o] = [open |-> TRUE, seen |-> Len(log)]]
    /\ missed' = [missed EXCEPT ![o] = @ \cup RootsAt(Unheard(o))]
    /\ UNCHANGED <<chainVars, object, up, loop, worker, results, send, client, shut, remote, fails>>

\* When WatchNewBatch fails the subscription is nil, and the next reading of
\* sub.Err() ends the process.
ResubscribeFails(o) ==
    /\ "resubscription" \in Faults
    /\ up[o] /\ loop[o].pc = "select" /\ ~sub[o].open
    /\ Die(o)
    /\ UNCHANGED fails
-----------------------------------------------------------------------------
(***************************************************************************)
(* The main loop, one batch at a time.                                     *)
(***************************************************************************)
\* An event comes through NewTaskCreatedChan.
Receive(o) ==
    /\ up[o] /\ loop[o].pc = "select" /\ sub[o].open
    /\ \E i \in Unheard(o) :
          /\ \A j \in Unheard(o) : i <= j
          /\ sub' = [sub EXCEPT ![o].seen = i]
          /\ loop' = [loop EXCEPT ![o] = [pc |-> "fetch", root |-> log[i].root]]
    /\ UNCHANGED <<chainVars, object, up, worker, results, send, client, shut, remote, missed,
                   fails>>

\* getBatchFromS3: the head's length, if known, is within the limit, and the
\* body is a JSON array of verification data.
Downloads(x) == x.size <= MaxBatchSize /\ x.parses

\* A request fails, or the object is refused: the batch is given up.
FetchFails(o) ==
    /\ loop[o].pc = "fetch"
    /\ "service" \in Faults \/ ~Downloads(object[loop[o].root])
    /\ loop' = [loop EXCEPT ![o] = Idle(o)]
    /\ UNCHANGED <<chainVars, object, up, sub, worker, results, send, client, shut, remote,
                   missed, fails>>

\* One goroutine is started for each proof.
Fetch(o) ==
    /\ loop[o].pc = "fetch"
    /\ LET r == loop[o].root IN
       /\ Downloads(object[r])
       /\ worker' = [worker EXCEPT ![o][r] = [i \in DOMAIN object[r].batch |-> "verify"]]
       /\ results' = [results EXCEPT ![o][r] = NoResults]
    /\ loop' = [loop EXCEPT ![o].pc = "collect"]
    /\ UNCHANGED <<chainVars, object, up, sub, send, client, shut, remote, missed, fails>>

\* Mutant: a channel for one result.
Capacity_One(x) == 1

\* make(chan bool, verificationDataBatchLen)
Capacity(x) == Len(x.batch)

\* Verifier i of batch r ends with its verdict in the channel, or the verifying
\* library ends the process.
Verify(o, r, i) ==
    /\ i \in DOMAIN worker[o][r]
    /\ worker[o][r][i] = "verify"
    /\ LET b == object[r].batch[i]
           verdict == OperatorVerify(b.d, b.id) IN
       \/ /\ verdict # "panic"
          /\ Len(results[o][r].chan) < Capacity(object[r])
          /\ worker' = [worker EXCEPT ![o][r][i] = "done"]
          /\ results' = [results EXCEPT ![o][r].chan = Append(@, verdict = "accept")]
          /\ UNCHANGED <<chainVars, object, up, sub, loop, send, client, shut, remote, missed,
                         fails>>
       \/ /\ verdict = "panic"
          /\ Die(o)
          /\ UNCHANGED fails

Started(o, r) == loop[o].root = r /\ loop[o].pc = "collect"

\* Mutant: the channel is closed when the first verifier is done.
AllDone_First(o, r) ==
    worker[o][r] = <<>> \/ \E i \in DOMAIN worker[o][r] : worker[o][r][i] = "done"

\* wg.Wait()
AllDone(o, r) == \A i \in DOMAIN worker[o][r] : worker[o][r][i] = "done"

CloseResults(o, r) ==
    /\ worker[o][r] # <<>> \/ Started(o, r)
    /\ ~results[o][r].closed
    /\ AllDone(o, r)
    /\ results' = [results EXCEPT ![o][r].closed = TRUE]
    /\ UNCHANGED <<chainVars, object, up, sub, loop, worker, send, client, shut, remote, missed,
                   fails>>

\* for result := range results: the loop leaves at the first false.
Collect(o) ==
    /\ loop[o].pc = "collect"
    /\ LET r == loop[o].root
           chan == results[o][r].chan IN
       /\ chan # <<>>
       /\ results' = [results EXCEPT ![o][r].chan = Tail(@)]
       /\ loop' = IF Head(chan) THEN loop ELSE [loop EXCEPT ![o] = Idle(o)]
    /\ UNCHANGED <<chainVars, object, up, sub, worker, send, client, shut, remote, missed, fails>>

\* Mutant: the first result decides.
CollectedAll_First(o, r) ==
    /\ results[o][r].chan = <<>>
    /\ \E i \in DOMAIN worker[o][r] : worker[o][r][i] = "done"

CollectedAll(o, r) == results[o][r].chan = <<>> /\ results[o][r].closed

\* The root is signed and a goroutine starts to send the signature.
Sign(o) ==
    /\ loop[o].pc = "collect"
    /\ LET r == loop[o].root IN
       /\ CollectedAll(o, r)
       /\ SignRoot(o, r)
       /\ send' = [send EXCEPT ![o][r] = [NoSend EXCEPT !.pc = "call"]]
    /\ loop' = [loop EXCEPT ![o] = Idle(o)]
    /\ UNCHANGED <<object, up, sub, worker, results, client, shut, remote, missed, fails>>
-----------------------------------------------------------------------------
(***************************************************************************)
(* The senders.  A connection is named by the number of breaks before it   *)
(* was made, so it is alive while there has been no other.                 *)
(***************************************************************************)
Alive(o, conn) == aggUp /\ conn = epoch[o]

SenderOnly == <<chainVars, object, up, sub, loop, worker, results, missed, fails>>

\* Mutant: the loop has no end.
NextTry_Forever(s) == [s EXCEPT !.tries = @ + 1, !.pc = "call"]

\* Mutant: no second call.
NextTry_Once(s) == [s EXCEPT !.tries = @ + 1, !.pc = "gaveup"]

\* The loop's increment: the next call, or the end after MaxRetries.
NextTry(s) ==
    [s EXCEPT !.tries = @ + 1, !.pc = IF s.tries + 1 < MaxRetries THEN "call" ELSE "gaveup"]

\* The reader of a broken connection notices, at the latest in the seconds a
\* sender waits after an error.
Noticed(o, conn) ==
    shut' = [shut EXCEPT ![o] = IF conn < epoch[o] /\ conn >= @ THEN conn + 1 ELSE @]

\* rpcClient.Call on the client of this moment.  On a broken connection it
\* returns ErrShutdown, or another error while the break is not noticed.
Call(o, r) ==
    /\ send[o][r].pc = "call"
    /\ LET conn == client[o] IN
       \/ /\ Alive(o, conn)
          /\ send' = [send EXCEPT ![o][r].pc = "inflight", ![o][r].conn = conn]
          /\ UNCHANGED shut
       \/ /\ ~Alive(o, conn)
          /\ send' = [send EXCEPT ![o][r].pc = "dial", ![o][r].conn = conn]
          /\ Noticed(o, conn)
       \/ /\ ~Alive(o, conn) /\ conn >= shut[o]
          /\ send' = [send EXCEPT ![o][r].pc = "sleep", ![o][r].conn = conn]
          /\ UNCHANGED shut
    /\ UNCHANGED <<SenderOnly, client, remote>>

\* The aggregator's handler files the signature; or it does not know the batch
\* in time and replies 1, which is a reply like any other.
Execute(o, r) ==
    /\ send[o][r].pc = "inflight"
    /\ Alive(o, send[o][r].conn)
    /\ \/ received' = [received EXCEPT ![r] = @ \cup {o}]
       \/ "unfiled" \in Faults /\ UNCHANGED received
    /\ send' = [send EXCEPT ![o][r].pc = "executed"]
    /\ UNCHANGED <<SenderOnly, client, shut, aggUp, epoch>>

Reply(o, r) ==
    /\ send[o][r].pc = "executed"
    /\ Alive(o, send[o][r].conn)
    /\ send' = [send EXCEPT ![o][r].pc = "sent"]
    /\ UNCHANGED <<SenderOnly, client, shut, remote>>

\* A pending call whose connection breaks ends with an unexpected EOF, which is
\* not ErrShutdown.
CallBreaks(o, r) ==
    /\ send[o][r].pc \in {"inflight", "executed"}
    /\ ~Alive(o, send[o][r].conn)
    /\ send' = [send EXCEPT ![o][r].pc = "sleep"]
    /\ Noticed(o, send[o][r].conn)
    /\ UNCHANGED <<SenderOnly, client, remote>>

\* After ErrShutdown: a new connection, or the wait after a failed dial.
Dial(o, r) ==
    /\ send[o][r].pc = "dial"
    /\ send' = IF aggUp THEN [send EXCEPT ![o][r].pc = "store", ![o][r].conn = epoch[o]]
                        ELSE [send EXCEPT ![o][r].pc = "sleep"]
    /\ UNCHANGED <<SenderOnly, client, shut, remote>>

\* Mutant: a successful dial does not replace the client.
Store_Dropped(o, r) ==
    /\ send[o][r].pc = "store"
    /\ send' = [send EXCEPT ![o][r] = NextTry(@)]
    /\ UNCHANGED <<SenderOnly, client, shut, remote>>

\* c.rpcClient = client, whatever another sender has put there since.
Store(o, r) ==
    /\ send[o][r].pc = "store"
    /\ client' = [client EXCEPT ![o] = send[o][r].conn]
    /\ send' = [send EXCEPT ![o][r] = NextTry(@)]
    /\ UNCHANGED <<SenderOnly, shut, remote>>

\* Mutant: an error that is not ErrShutdown ends the loop.
Wake_Ends(o, r) ==
    /\ send[o][r].pc = "sleep"
    /\ send' = [send EXCEPT ![o][r].pc = "gaveup"]
    /\ Noticed(o, send[o][r].conn)
    /\ UNCHANGED <<SenderOnly, client, remote>>

\* RetryInterval is over.
Wake(o, r) ==
    /\ send[o][r].pc = "sleep"
    /\ send' = [send EXCEPT ![o][r] = NextTry(@)]
    /\ Noticed(o, send[o][r].conn)
    /\ UNCHANGED <<SenderOnly, client, remote>>
-----------------------------------------------------------------------------
(***************************************************************************)
(* The aggregator and the network.                                         *)
(***************************************************************************)
Breaks(os) ==
    /\ \A o \in os : epoch[o] < MaxBreaks
    /\ epoch' = [o \in Operators |-> IF o \in os THEN epoch[o] + 1 ELSE epoch[o]]

\* The connections of o break.
ConnectionDrops(o) ==
    /\ "drop" \in Faults
    /\ aggUp
    /\ Breaks({o})
    /\ UNCHANGED <<chainVars, object, local, aggUp, received, missed, fails>>

\* The aggregator ends, and with it the signatures it held.
AggregatorEnds ==
    /\ "aggregator" \in Faults
    /\ aggUp
    /\ aggUp' = FALSE
    /\ Breaks(Operators)
    /\ received' = [r \in Roots |-> {}]
    /\ UNCHANGED <<chainVars, object, local, missed, fails>>

AggregatorStarts ==
    /\ ~aggUp
    /\ aggUp' = TRUE
    /\ UNCHANGED <<chainVars, object, local, epoch, received, missed, fails>>

\* The aggregator answers with the signatures it holds.
AggregatorResponds(r) ==
    /\ aggUp
    /\ \E signers \in SUBSET received[r] : RespondToTask(r, signers)
    /\ UNCHANGED <<object, local, remote, missed, fails>>

Chain ==
    /\ Mine \/ \E r \in Roots : CreateNewTask(r)
    /\ UNCHANGED <<object, local, remote, missed, fails>>

MainLoop(o) == Receive(o) \/ FetchFails(o) \/ Fetch(o) \/ Collect(o) \/ Sign(o)

Subscription(o) == SubscriptionFails(o) \/ Resubscribe(o) \/ ResubscribeFails(o)

Sender(o, r) ==
    \/ Call(o, r) \/ Execute(o, r) \/ Reply(o, r) \/ CallBreaks(o, r)
    \/ Dial(o, r) \/ Store(o, r) \/ Wake(o, r)

OperatorNext(o) ==
    \/ Crash(o) \/ Boot(o) \/ Subscription(o) \/ MainLoop(o) \/ ConnectionDrops(o)
    \/ \E r \in Roots :
          \/ CloseResults(o, r) \/ Sender(o, r)
          \/ \E i \in DOMAIN worker[o][r] : Verify(o, r, i)

Next ==
    \/ \E o \in Operators : OperatorNext(o)
    \/ AggregatorEnds \/ AggregatorStarts
    \/ Chain
    \/ \E r \in Roots : AggregatorResponds(r)

Spec == Init /\ [][Next]_vars
-----------------------------------------------------------------------------
Sound(x) == Downloads(x) /\ \A i \in DOMAIN x.batch : Accepts(x, i)

\* An operator signs a root only if the object behind its pointer is within the
\* size limit and every single proof in it was accepted, in whatever order the
\* verifiers finish, with verifiers of earlier batches still running, and with
\* the loop leaving a batch at the first refusal.
SignedMeansAccepted ==
    \A r \in Roots : signed[r] # {} => Sound(object[r])

\* No verifier is left to send on a channel that is closed: it would end the
\* process of the operator.
NoSendOnClosed ==
    \A o \in Operators, r \in Roots :
        results[o][r].closed => \A i \in DOMAIN worker[o][r] : worker[o][r][i] = "done"

\* The verdict of every verifier that still runs has room in its channel, also
\* when the loop has left the batch and nobody reads: none is blocked for ever.
RoomForEveryVerdict ==
    \A o \in Operators, r \in Roots : \A i \in DOMAIN worker[o][r] :
        worker[o][r][i] = "verify" => Len(results[o][r].chan) < Capacity(object[r])

\* A batch the contract counts as verified was sound: a quorum of honest
\* operators downloaded it and accepted all of its proofs.
VerifiedMeansAccepted ==
    \A r \in Roots : Responded(r) => Sound(object[r])

\* Stores of a broken connection that the other senders can have made.
Stale(o) == (Cardinality(Roots) - 1) * (IF epoch[o] = 0 THEN 0 ELSE epoch[o] - 1)

\* While the aggregator runs, a break of the connection costs a sender two calls
\* at most, the one that fails and the one that finds the client shut down, and
\* every other sender can cost it one more by putting a connection back that has
\* broken since: all of them write the one rpcClient.  A sender that gives up
\* after its MaxRetries calls has met that many breaks.
BreaksCostFewCalls ==
    \A o \in Operators, r \in Roots : send[o][r].tries <= 2 * epoch[o] + Stale(o)

\* The root an operator signs is the root of the batch it verified.
SignedRootIsRootOfBatch ==
    \A r \in Roots : signed[r] # {} => object[r].root = r
-----------------------------------------------------------------------------
\* Goroutines are scheduled, requests are answered or fail, and a waiting
\* period ends; nobody restarts an operator, and breaks and faults may or may
\* not happen.
OperatorFairness ==
    \A o \in Operators :
        /\ WF_vars(MainLoop(o))
        /\ WF_vars(Resubscribe(o))
        /\ \A r \in Roots :
              /\ WF_vars(\E i \in DOMAIN worker[o][r] : Verify(o, r, i))
              /\ WF_vars(CloseResults(o, r))
              /\ WF_vars(Sender(o, r))

\* The chain goes on, and the aggregator answers what has a quorum (module
\* Aggregator).
SystemSpec ==
    /\ Spec
    /\ OperatorFairness
    /\ WF_vars(Mine /\ UNCHANGED <<object, local, remote, missed, fails>>)
    /\ \A r \in Roots : WF_vars(AggregatorResponds(r))

\* When connections break but the aggregator lives, and MaxRetries is more than
\* the breaks can cost, a sound batch announced to an operator that hears of it
\* ends as a signature at the aggregator.
SignatureArrives ==
    \A o \in Operators, r \in Roots :
        Exists(r) /\ Sound(object[r]) ~> o \in received[r] \/ r \in missed[o]

\* From end to end: a sound batch, once the block of its creation is past, is
\* verified on chain unless operators missed its event.
BatchIsVerified ==
    \A r \in Roots :
        Exists(r) /\ batchesState[r].taskCreatedBlock < blockNumber /\ Sound(object[r])
            ~> Responded(r) \/ \E o \in Operators : r \in missed[o]
=============================================================================
