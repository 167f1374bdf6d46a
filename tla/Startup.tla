------------------------------- MODULE Startup -------------------------------
(***************************************************************************)
(* How the Go processes come up: the commands of the operator binary       *)
(* (start, register, deposit-into-strategy), the aggregator, and the task  *)
(* sender up to its first transaction.  Each reads its configuration,      *)
(* builds its access to the chain, and ends at the first thing it lacks;   *)
(* they meet on the chain (stake, registration), at the aggregator's       *)
(* server, and at the addresses their servers listen on.                   *)
(*                                                                         *)
(* An operator has two keys: the ECDSA key pays and is registered, the BLS *)
(* key pair goes into the registry with it and signs batches later.  Start *)
(* asks the registry for an address, and for neither key.                  *)
(*                                                                         *)
(* External: the registries and the strategy of EigenLayer (registered,    *)
(* pubkey, stake), operators that leave (README_OPERATOR.md, Unregister),  *)
(* the registrations sent by processes that ended before they were mined   *)
(* (orphans), the sockets of the host (owner), and what starts an ended    *)
(* process again (operator/docker/compose.yaml, or its user).  Deposits    *)
(* are never withdrawn here.                                               *)
(***************************************************************************)
EXTENDS Integers, FiniteSets

CONSTANTS Processes,
          Proc,       \* Proc[p]: how p is started, see StartupAssumption
          Files,      \* the configurations the processes may have
          Keys,       \* the ECDSA keys; an address is named by its key
          KeyPairs,   \* the BLS key pairs
          Admitted,   \* keys whitelisted and registered with EigenLayer
          MinStake,   \* what the registry asks of an operator
          MaxEnds     \* bound: processes ended by the chain or by a crash

Operators == {p \in Processes : Proc[p].kind = "operator"}
Registrants == {p \in Processes : Proc[p].kind \in {"operator", "register"}}
Depositors == {p \in Processes : Proc[p].kind = "deposit"}
Aggregators == {p \in Processes : Proc[p].kind = "aggregator"}

\* address and key are set apart in a configuration; listens holds the address
\* of the metrics server if metrics are enabled, and that of the RPC server of
\* an aggregator; dials is the server an operator answers to.
ASSUME StartupAssumption ==
    /\ MinStake \in Nat /\ MaxEnds \in Nat /\ Admitted \subseteq Keys
    /\ \A p \in Processes :
           /\ Proc[p].kind \in {"operator", "register", "deposit", "aggregator", "sender"}
           /\ Proc[p].key \in Keys /\ Proc[p].address \in Keys
           /\ Proc[p].amount \in Int /\ IsFiniteSet(Proc[p].listens)
    /\ \A f \in Files : \A p \in Processes : f[p].bls \in KeyPairs

Sockets == UNION {Proc[p].listens : p \in Processes}
Nobody == "nobody"
None == "none"

ASSUME NobodyAssumption == Nobody \notin Processes /\ None \notin KeyPairs

-----------------------------------------------------------------------------
(* What a configuration is checked for.  An item is a path, file, URL or   *)
(* address; each one missing ends the process, and none has an effect of   *)
(* its own.                                                                *)

NewAlignedLayerDeploymentConfig ==
    {"aligned file", "service manager", "registry coordinator", "state retriever"}

NewEigenLayerDeploymentConfig ==
    {"eigenlayer file", "delegation manager", "avs directory", "slasher"}

NewLogger == {"environment"}

NewBaseConfig ==
    {"setup file", "aligned path", "eigenlayer path", "ws url", "rpc url", "metrics address"}
    \cup NewAlignedLayerDeploymentConfig \cup NewEigenLayerDeploymentConfig \cup NewLogger

NewEcdsaConfig == {"setup file", "ecdsa path", "ecdsa key"}
NewBlsConfig == {"setup file", "bls path", "bls key"}

NewAggregatorConfig == NewBaseConfig \cup NewEcdsaConfig \cup NewBlsConfig
NewTaskSenderConfig == NewBaseConfig \cup NewEcdsaConfig

\* The operator's own section is read as it is: what it lacks is zero, or empty.
NewOperatorConfig == NewBaseConfig \cup NewEcdsaConfig \cup NewBlsConfig
OperatorSection == {"aggregator address"}

Items == NewOperatorConfig \cup OperatorSection

Config(kind) ==
    CASE kind = "aggregator" -> NewAggregatorConfig
      [] kind = "sender" -> NewTaskSenderConfig
      [] OTHER -> NewOperatorConfig

-----------------------------------------------------------------------------

VARIABLES file,         \* file[p]: the items its configuration has, its BLS key pair
          pc,           \* where p is
          pending,      \* the addresses its goroutines have yet to listen on
          owner,        \* owner[a]: the process that listens on a
          registered,   \* the ECDSA keys whose operator is in the quorum
          left,         \* the keys that have been taken out of it
          pubkey,       \* pubkey[k]: the BLS key of k, kept from the first registration
          orphans,      \* processes with a registration that nobody waits for
          stake,        \* stake[k]: deposited in the strategy
          ends          \* processes ended by the chain or by a crash

members == <<registered, left, pubkey>>
chain == <<members, orphans, stake>>
host == <<pending, owner>>
vars == <<file, pc, host, chain, ends>>

\* "off" is before the start and after an end that is started again.
Places == {"off", "check", "register", "registering", "dial", "build", "deposit", "send",
           "serve", "done"}

\* A stake never becomes negative, whatever amounts are asked for.
StartupTypeOK ==
    /\ file \in Files
    /\ pc \in [Processes -> Places]
    /\ pending \in [Processes -> SUBSET Sockets]
    /\ owner \in [Sockets -> Processes \cup {Nobody}]
    /\ registered \subseteq Keys /\ left \subseteq Keys /\ orphans \subseteq Registrants
    /\ pubkey \in [Keys -> KeyPairs \cup {None}]
    /\ stake \in [Keys -> Nat]
    /\ ends \in 0..MaxEnds

Init ==
    /\ file \in Files
    /\ pc = [p \in Processes |-> "off"]
    /\ pending = [p \in Processes |-> {}]
    /\ owner = [a \in Sockets |-> Nobody]
    /\ registered = {} /\ left = {} /\ orphans = {}
    /\ pubkey = [k \in Keys |-> None]
    /\ stake = [k \in Keys |-> 0]
    /\ ends = 0

GoTo(p, place) == pc' = [pc EXCEPT ![p] = place]

\* log.Fatal, or an error that main reports: the sockets go with the process.
End(p) ==
    /\ GoTo(p, "off")
    /\ pending' = [pending EXCEPT ![p] = {}]
    /\ owner' = [a \in Sockets |-> IF owner[a] = p THEN Nobody ELSE owner[a]]

-----------------------------------------------------------------------------
(* Loading the configuration.                                              *)

\* depositIntoStrategyMain refuses an amount before it reads anything; mutant:
\* only zero is refused.
DepositsNothing_Zero(p) == Proc[p].kind = "deposit" /\ Proc[p].amount = 0
DepositsNothing(p) == Proc[p].kind = "deposit" /\ Proc[p].amount <= 0

FirstPlace(kind) ==
    CASE kind = "operator" -> "check" [] kind = "register" -> "register"
      [] kind = "deposit" -> "deposit" [] kind = "aggregator" -> "build" [] OTHER -> "send"

\* A process whose configuration lacks an item ends where it began.
Load(p) ==
    /\ pc[p] = "off"
    /\ \/ DepositsNothing(p) /\ GoTo(p, "done")
       \/ /\ ~DepositsNothing(p)
          /\ Config(Proc[p].kind) \subseteq file[p].items
          /\ GoTo(p, FirstPlace(Proc[p].kind))
    /\ UNCHANGED <<file, host, chain, ends>>

-----------------------------------------------------------------------------
(* Registration.                                                           *)

IsOperatorRegistered(address) == address \in registered

\* Mutants: the chain is not asked, or its answer is taken the wrong way.
AfterCheck_Unasked(p) == "register"
AfterCheck_Swapped(p) ==
    IF IsOperatorRegistered(Proc[p].address) THEN "register" ELSE "dial"
AfterCheck(p) == IF IsOperatorRegistered(Proc[p].address) THEN "dial" ELSE "register"

Check(p) ==
    /\ pc[p] = "check"
    /\ GoTo(p, AfterCheck(p))
    /\ UNCHANGED <<file, host, chain, ends>>

AfterRegister(p) == IF Proc[p].kind = "operator" THEN "dial" ELSE "done"

\* The registries take a key that is not in the quorum; one that comes for the
\* first time brings a BLS key that nobody else has.  A key that has left and
\* comes again keeps the BLS key it came with first.
Fits(p) ==
    LET k == Proc[p].key IN
    /\ k \notin registered
    /\ pubkey[k] = None => \A j \in Keys : pubkey[j] # file[p].bls

\* The transaction is simulated first; it names the key and not the address.
RegistrationSucceeds(p) ==
    Proc[p].key \in Admitted /\ stake[Proc[p].key] >= MinStake /\ Fits(p)

RegisterOperator(p) ==
    /\ pc[p] = "register"
    /\ IF RegistrationSucceeds(p)
         THEN GoTo(p, "registering") /\ UNCHANGED host
         ELSE End(p)
    /\ UNCHANGED <<file, chain, ends>>

\* The transaction is mined; it is reverted if another one has been faster.
Mined(p) ==
    LET k == Proc[p].key IN
    IF Fits(p)
      THEN /\ registered' = registered \cup {k}
           /\ pubkey' = IF pubkey[k] = None THEN [pubkey EXCEPT ![k] = file[p].bls] ELSE pubkey
      ELSE UNCHANGED <<registered, pubkey>>

\* Whether a receipt that says "reverted" is an error is up to the library.
RegistrationMined(p) ==
    /\ pc[p] = "registering"
    /\ Mined(p)
    /\ \/ GoTo(p, AfterRegister(p)) /\ UNCHANGED host
       \/ ~Fits(p) /\ End(p)
    /\ UNCHANGED <<file, left, orphans, stake, ends>>

OrphanMined(p) ==
    /\ p \in orphans
    /\ orphans' = orphans \ {p}
    /\ Mined(p)
    /\ UNCHANGED <<file, pc, host, left, stake, ends>>

\* deregisterOperator, or the ejector; at most once for each key.
Deregister(k) ==
    /\ k \in registered \ left
    /\ registered' = registered \ {k}
    /\ left' = left \cup {k}
    /\ UNCHANGED <<file, pc, host, pubkey, orphans, stake, ends>>

-----------------------------------------------------------------------------
(* The operator's deposit and the task sender's batch.                     *)

\* The wallet signs for the address of the key alone.
DepositIntoStrategy(p) ==
    /\ pc[p] = "deposit"
    /\ IF Proc[p].address = Proc[p].key
         THEN /\ stake' = [stake EXCEPT ![Proc[p].key] = @ + Proc[p].amount]
              /\ GoTo(p, "done") /\ UNCHANGED host
         ELSE End(p) /\ UNCHANGED stake
    /\ UNCHANGED <<file, members, orphans, ends>>

\* From here on module TaskSender follows it.
SendTask(p) ==
    /\ pc[p] = "send"
    /\ GoTo(p, "done")
    /\ UNCHANGED <<file, host, chain, ends>>

-----------------------------------------------------------------------------
(* Servers.                                                                *)

AggregatorListens(a) == a \in Sockets /\ owner[a] \in Aggregators

\* Each server is a goroutine; NewMetrics has kept the address.
StartServers(p) == pending' = [pending EXCEPT ![p] = Proc[p].listens]

\* NewOperatorFromConfig gives up at once when no aggregator answers, or when the
\* configuration names none: the operator has been registered by then.
Answered(p) == "aggregator address" \in file[p].items /\ AggregatorListens(Proc[p].dials)

Dial(p) ==
    /\ pc[p] = "dial"
    /\ IF Answered(p)
         THEN /\ GoTo(p, "serve")
              /\ StartServers(p)
              /\ UNCHANGED owner
         ELSE End(p)
    /\ UNCHANGED <<file, chain, ends>>

\* NewAggregator only reads the chain; Start leaves both servers to goroutines.
NewAggregator(p) ==
    /\ pc[p] = "build"
    /\ GoTo(p, "serve")
    /\ StartServers(p)
    /\ UNCHANGED <<file, owner, chain, ends>>

\* ListenAndServe of the metrics or of ServeOperators: an address in use ends
\* the process, which may have served meanwhile.
ListenFails_Logged(p, a) ==
    pending' = [pending EXCEPT ![p] = @ \ {a}] /\ UNCHANGED <<pc, owner>>
ListenFails(p, a) == End(p)

Listen(p, a) ==
    /\ a \in pending[p]
    /\ IF owner[a] = Nobody
         THEN /\ owner' = [owner EXCEPT ![a] = p]
              /\ pending' = [pending EXCEPT ![p] = @ \ {a}]
              /\ UNCHANGED pc
         ELSE ListenFails(p, a)
    /\ UNCHANGED <<file, chain, ends>>

-----------------------------------------------------------------------------

\* The chain does not answer, or the process is killed.  What it has sent is
\* mined all the same, a deposit it was about to report included.
Killed(p) ==
    /\ pc[p] \notin {"off", "done"} /\ ends < MaxEnds
    /\ ends' = ends + 1
    /\ End(p)
    /\ orphans' = IF pc[p] = "registering" THEN orphans \cup {p} ELSE orphans
    /\ \/ UNCHANGED stake
       \/ /\ pc[p] = "deposit" /\ Proc[p].address = Proc[p].key
          /\ stake' = [stake EXCEPT ![Proc[p].key] = @ + Proc[p].amount]
    /\ UNCHANGED <<file, members>>

Step(p) ==
    \/ Load(p) \/ Check(p) \/ RegisterOperator(p) \/ RegistrationMined(p)
    \/ DepositIntoStrategy(p) \/ SendTask(p) \/ Dial(p) \/ NewAggregator(p)
    \/ \E a \in Sockets : Listen(p, a)

Next ==
    \/ \E p \in Processes : Step(p) \/ Killed(p) \/ OrphanMined(p)
    \/ \E k \in Keys : Deregister(k)

\* A process takes its steps and an ended one is started again; what was sent is
\* mined.  Nobody has to be killed or to leave.
Spec ==
    /\ Init /\ [][Next]_vars
    /\ \A p \in Processes : WF_vars(Step(p)) /\ WF_vars(OrphanMined(p))

-----------------------------------------------------------------------------
(* Properties.                                                             *)

\* Nobody who registers with another ECDSA key has the BLS key pair of p; and
\* all who register with p's ECDSA key have it.
NobodyElses(p) == \A q \in Registrants : file[q].bls = file[p].bls => Proc[q].key = Proc[p].key
Agreed(p) == \A q \in Registrants : Proc[q].key = Proc[p].key => file[q].bls = file[p].bls

\* An operator that serves has its address or its ECDSA key in the registry, or
\* it was taken out after it had been: however its start interleaves with other
\* registrations of this key, with transactions of processes killed earlier, and
\* with reverted ones whose receipt nobody reads.  Where it names its own address
\* and all its commands have one BLS key pair, the registry has the BLS key it
\* signs with.  The code checks neither, so both are conditions.
RunningIsRegistered ==
    \A p \in Operators :
        pc[p] = "serve" /\ NobodyElses(p) =>
            /\ {Proc[p].address, Proc[p].key} \cap (registered \cup left) # {}
            /\ Proc[p].address = Proc[p].key /\ Agreed(p) => pubkey[Proc[p].key] = file[p].bls

\* A process that serves owns each of its addresses or is still about to listen
\* on it, and never both; and nobody owns an address but a process that serves
\* and is meant to listen on it.  So no aggregator serves for good without its
\* server, no operator's metrics are served by another, and no address stays taken
\* by a process that has ended.
ServingMeansListening ==
    \A p \in Processes :
        /\ pc[p] = "serve" => \A a \in Proc[p].listens : (a \in pending[p]) # (owner[a] = p)
        /\ \A a \in Sockets : owner[a] = p => pc[p] = "serve" /\ a \in Proc[p].listens

\* An operator could serve: it and its aggregator are configured, its deposit is
\* enough and will be made, its BLS key pair is its own, and nobody else takes its
\* aggregator's addresses.
Configured(p) == Config(Proc[p].kind) \subseteq file[p].items

CanServe(p) ==
    /\ Configured(p) /\ OperatorSection \subseteq file[p].items
    /\ Proc[p].address = Proc[p].key /\ Proc[p].key \in Admitted /\ NobodyElses(p)
    /\ \E d \in Depositors :
           /\ Configured(d) /\ Proc[d].amount >= MinStake
           /\ Proc[d].key = Proc[p].key /\ Proc[d].address = Proc[d].key
    /\ \E g \in Aggregators :
           /\ Configured(g) /\ Proc[p].dials \in Proc[g].listens
           /\ \A q \in Processes \ {g} : Proc[q].listens \cap Proc[g].listens = {}

\* However starts, deposits, registrations, leaves and kills interleave, the metrics
\* address of an operator that could serve is in the end that of an operator
\* that does: no order of starts leaves one restarting for ever, except behind
\* another that serves in its place.
OperatorComesUp ==
    \A p \in Operators : \A a \in Proc[p].listens :
        CanServe(p) => <>[](\E q \in Operators : pc[q] = "serve" /\ owner[a] = q)
=============================================================================
