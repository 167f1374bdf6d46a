--------------------------- MODULE Startup_proofs ---------------------------
(***************************************************************************)
(* Proofs about the start of the processes, for any number of them, any    *)
(* configurations, keys and addresses, and any number of kills.            *)
(***************************************************************************)
EXTENDS Startup, TLAPS

Kind(p) == Proc[p].kind

\* Which commands come to which place.
KindsAt(place) ==
    CASE place \in {"check", "dial"} -> {"operator"}
      [] place \in {"register", "registering"} -> {"operator", "register"}
      [] place = "build" -> {"aggregator"}
      [] place = "deposit" -> {"deposit"}
      [] place = "send" -> {"sender"}
      [] place = "serve" -> {"operator", "aggregator"}
      [] OTHER -> {"operator", "register", "deposit", "aggregator", "sender"}

\* A process is only where its command leads, and only a positive amount is
\* deposited.
InPlace(p) ==
    /\ Kind(p) \in KindsAt(pc[p])
    /\ pc[p] = "deposit" => Proc[p].amount > 0

\* Who is or was in the registry has a BLS key there, and whoever has one got it
\* from a process that registers its ECDSA key.
KeysHaveSource ==
    /\ \A k \in registered \cup left : pubkey[k] # None
    /\ \A k \in Keys : pubkey[k] # None =>
          \E q \in Registrants : Proc[q].key = k /\ file[q].bls = pubkey[k]

\* What RunningIsRegistered says, from the end of the registration on.
Entered(p) ==
    /\ {Proc[p].address, Proc[p].key} \cap (registered \cup left) # {}
    /\ Proc[p].address = Proc[p].key /\ Agreed(p) => pubkey[Proc[p].key] = file[p].bls

PastRegistration(p) ==
    Kind(p) = "operator" /\ pc[p] \in {"dial", "serve"} /\ NobodyElses(p) => Entered(p)

\* The addresses of a serving process are its own or still to be taken, and it
\* has no others.
ServersStarted(p) ==
    /\ pc[p] # "serve" => pending[p] = {}
    /\ pc[p] = "serve" => \A a \in Proc[p].listens : (a \in pending[p]) # (owner[a] = p)
    /\ pending[p] \subseteq Proc[p].listens
    /\ \A a \in Sockets : owner[a] = p => pc[p] = "serve" /\ a \in Proc[p].listens

StartupInv ==
    /\ StartupTypeOK /\ KeysHaveSource
    /\ \A p \in Processes : InPlace(p) /\ PastRegistration(p) /\ ServersStarted(p)

\* Every address a process listens on is a socket.
LEMMA ListensAreSockets == \A p \in Processes : Proc[p].listens \in SUBSET Sockets
  BY DEF Sockets

\* Before anything has started.
LEMMA StartupInit == Init => StartupInv
  <1> SUFFICES ASSUME Init
               PROVE  StartupInv
    OBVIOUS
  <1>1. StartupTypeOK
    BY StartupAssumption DEF Init, StartupTypeOK, Places
  <1>2. ASSUME NEW p \in Processes
        PROVE  InPlace(p) /\ PastRegistration(p) /\ ServersStarted(p)
    BY StartupAssumption, NobodyAssumption
    DEF Init, InPlace, KindsAt, Kind, PastRegistration, ServersStarted
  <1>3. KeysHaveSource
    BY DEF Init, KeysHaveSource
  <1> QED
    BY <1>1, <1>2, <1>3 DEF StartupInv
-----------------------------------------------------------------------------
\* A process that ends gives its sockets back and keeps nobody else's.
LEMMA EndKeepsTypes ==
    ASSUME StartupTypeOK, NEW p \in Processes, End(p)
    PROVE  /\ pc' \in [Processes -> Places]
           /\ pending' \in [Processes -> SUBSET Sockets]
           /\ owner' \in [Sockets -> Processes \cup {Nobody}]
  BY DEF StartupTypeOK, End, GoTo, Places

\* A process that ends is nowhere, and the sockets of the others are theirs.
LEMMA EndKeepsServers ==
    ASSUME StartupInv, NEW p \in Processes, End(p), NEW q \in Processes
    PROVE  ServersStarted(q)'
  <1>1. /\ pc' = [pc EXCEPT ![p] = "off"]
        /\ pending' = [pending EXCEPT ![p] = {}]
        /\ owner' = [a \in Sockets |-> IF owner[a] = p THEN Nobody ELSE owner[a]]
    BY DEF End, GoTo
  <1>2. CASE q = p
    BY <1>1, <1>2, ListensAreSockets, NobodyAssumption
    DEF StartupInv, StartupTypeOK, ServersStarted
  <1>3. CASE q # p
    <2>1. pc'[q] = pc[q] /\ pending'[q] = pending[q]
      BY <1>1, <1>3 DEF StartupInv, StartupTypeOK
    <2>2. \A a \in Sockets : owner'[a] = q <=> owner[a] = q
      BY <1>1, <1>3, NobodyAssumption
    <2> QED
      BY <2>1, <2>2, ListensAreSockets DEF StartupInv, ServersStarted
  <1> QED
    BY <1>2, <1>3

\* A registration that is mined enters its key and brings it a BLS key if it has
\* none; one that is reverted had nothing to enter or no BLS key of its own.
LEMMA MinedEffect ==
    ASSUME StartupInv, NEW p \in Registrants, Mined(p)
    PROVE  /\ registered' \subseteq Keys /\ pubkey' \in [Keys -> KeyPairs \cup {None}]
           /\ registered \subseteq registered'
           /\ registered' \subseteq registered \cup {Proc[p].key}
           /\ \A k \in Keys : pubkey[k] # None => pubkey'[k] = pubkey[k]
           /\ \A k \in Keys : pubkey'[k] # pubkey[k] => k = Proc[p].key /\ pubkey'[k] = file[p].bls
           /\ Proc[p].key \in registered' => pubkey'[Proc[p].key] # None
           /\ NobodyElses(p) => Proc[p].key \in registered'
  <1> DEFINE k == Proc[p].key
  <1>0. /\ p \in Processes /\ k \in Keys /\ file[p].bls \in KeyPairs
        /\ registered \subseteq Keys /\ pubkey \in [Keys -> KeyPairs \cup {None}]
    BY StartupAssumption DEF Registrants, StartupInv, StartupTypeOK
  <1>1. file[p].bls # None
    BY <1>0, NobodyAssumption
  <1>2. CASE Fits(p)
    <2>1. /\ registered' = registered \cup {k}
          /\ pubkey' = IF pubkey[k] = None THEN [pubkey EXCEPT ![k] = file[p].bls] ELSE pubkey
      BY <1>2 DEF Mined
    <2> QED
      BY <1>0, <1>1, <2>1
  <1>3. CASE ~Fits(p)
    <2>1. registered' = registered /\ pubkey' = pubkey
      BY <1>3 DEF Mined
    <2>2. ASSUME NobodyElses(p), k \notin registered
          PROVE  FALSE
      <3>1. PICK j \in Keys : pubkey[k] = None /\ pubkey[j] = file[p].bls
        BY <1>3, <2>2 DEF Fits
      <3>2. PICK q \in Registrants : Proc[q].key = j /\ file[q].bls = pubkey[j]
        BY <1>1, <3>1 DEF StartupInv, KeysHaveSource
      <3>3. j = k
        BY <2>2, <3>1, <3>2 DEF NobodyElses
      <3> QED
        BY <1>1, <3>1, <3>3
    <2>3. k \in registered => pubkey[k] # None
      BY DEF StartupInv, KeysHaveSource
    <2> QED
      BY <1>0, <2>1, <2>2, <2>3
  <1> QED
    BY <1>2, <1>3

\* Every step keeps the types; what may fail is that a stake stays a natural
\* number, since an amount is any integer.
LEMMA StartupTypeStep == StartupInv /\ [Next]_vars => StartupTypeOK'
  <1> SUFFICES ASSUME StartupInv, [Next]_vars
               PROVE  StartupTypeOK'
    OBVIOUS
  <1> USE DEF StartupTypeOK, chain, host, members
  <1>0. StartupTypeOK
    BY DEF StartupInv
  <1>1. ASSUME NEW p \in Processes, Step(p)
        PROVE  StartupTypeOK'
    <2>1. CASE Load(p)
      BY <1>0, <2>1 DEF Load, GoTo, FirstPlace, Places
    <2>2. CASE Check(p)
      BY <1>0, <2>2 DEF Check, AfterCheck, GoTo, Places
    <2>3. CASE RegisterOperator(p)
      BY <1>0, <2>3, EndKeepsTypes DEF RegisterOperator, GoTo, Places
    <2>4. CASE RegistrationMined(p)
      <3>1. p \in Registrants /\ Mined(p)
        BY <2>4 DEF RegistrationMined, StartupInv, InPlace, KindsAt, Kind, Registrants
      <3>2. /\ pc' \in [Processes -> Places]
            /\ pending' \in [Processes -> SUBSET Sockets]
            /\ owner' \in [Sockets -> Processes \cup {Nobody}]
        BY <1>0, <2>4, EndKeepsTypes DEF RegistrationMined, AfterRegister, GoTo, Places
      <3>3. registered' \subseteq Keys /\ pubkey' \in [Keys -> KeyPairs \cup {None}]
        BY <3>1, MinedEffect
      <3> QED
        BY <1>0, <2>4, <3>2, <3>3 DEF RegistrationMined
    <2>5. CASE DepositIntoStrategy(p)
      <3>1. Proc[p].amount \in Nat /\ Proc[p].key \in Keys
        BY <2>5, StartupAssumption DEF DepositIntoStrategy, StartupInv, InPlace
      <3>2. stake' \in [Keys -> Nat]
        BY <1>0, <2>5, <3>1 DEF DepositIntoStrategy
      <3>3. /\ pc' \in [Processes -> Places]
            /\ pending' \in [Processes -> SUBSET Sockets]
            /\ owner' \in [Sockets -> Processes \cup {Nobody}]
        BY <1>0, <2>5, EndKeepsTypes DEF DepositIntoStrategy, GoTo, Places
      <3> QED
        BY <1>0, <2>5, <3>2, <3>3 DEF DepositIntoStrategy
    <2>6. CASE SendTask(p)
      BY <1>0, <2>6 DEF SendTask, GoTo, Places
    <2>7. CASE Dial(p)
      <3>1. /\ pc' \in [Processes -> Places]
            /\ pending' \in [Processes -> SUBSET Sockets]
            /\ owner' \in [Sockets -> Processes \cup {Nobody}]
        BY <1>0, <2>7, EndKeepsTypes, ListensAreSockets DEF Dial, StartServers, GoTo, Places
      <3> QED
        BY <1>0, <2>7, <3>1 DEF Dial
    <2>8. CASE NewAggregator(p)
      <3>1. pending' \in [Processes -> SUBSET Sockets]
        BY <1>0, <2>8, ListensAreSockets DEF NewAggregator, StartServers
      <3> QED
        BY <1>0, <2>8, <3>1 DEF NewAggregator, GoTo, Places
    <2>9. ASSUME NEW a \in Sockets, Listen(p, a)
          PROVE  StartupTypeOK'
      <3>1. /\ pc' \in [Processes -> Places]
            /\ pending' \in [Processes -> SUBSET Sockets]
            /\ owner' \in [Sockets -> Processes \cup {Nobody}]
        BY <1>0, <2>9, EndKeepsTypes DEF Listen, ListenFails
      <3> QED
        BY <1>0, <2>9, <3>1 DEF Listen
    <2> QED
      BY <1>1, <2>1, <2>2, <2>3, <2>4, <2>5, <2>6, <2>7, <2>8, <2>9 DEF Step
  <1>2. ASSUME NEW p \in Processes, Killed(p)
        PROVE  StartupTypeOK'
    <2>1. /\ pc' \in [Processes -> Places]
          /\ pending' \in [Processes -> SUBSET Sockets]
          /\ owner' \in [Sockets -> Processes \cup {Nobody}]
      BY <1>0, <1>2, EndKeepsTypes DEF Killed
    <2>2. stake' \in [Keys -> Nat]
      <3>1. pc[p] = "deposit" => Proc[p].amount \in Nat
        BY StartupAssumption DEF StartupInv, InPlace
      <3>2. Proc[p].key \in Keys
        BY StartupAssumption
      <3> QED
        BY <1>0, <1>2, <3>1, <3>2 DEF Killed
    <2>3. ends' \in 0..MaxEnds
      BY <1>0, <1>2, StartupAssumption DEF Killed
    <2>4. orphans' \subseteq Registrants
      <3>1. pc[p] = "registering" => p \in Registrants
        BY DEF StartupInv, InPlace, KindsAt, Kind, Registrants
      <3> QED
        BY <1>0, <1>2, <3>1 DEF Killed
    <2> QED
      BY <1>0, <1>2, <2>1, <2>2, <2>3, <2>4 DEF Killed
  <1>3. ASSUME NEW p \in Processes, OrphanMined(p)
        PROVE  StartupTypeOK'
    <2>1. p \in Registrants /\ Mined(p)
      BY <1>0, <1>3 DEF OrphanMined
    <2>2. registered' \subseteq Keys /\ pubkey' \in [Keys -> KeyPairs \cup {None}]
      BY <2>1, MinedEffect
    <2> QED
      BY <1>0, <1>3, <2>2 DEF OrphanMined
  <1>5. ASSUME NEW k \in Keys, Deregister(k)
        PROVE  StartupTypeOK'
    BY <1>0, <1>5 DEF Deregister
  <1>4. CASE UNCHANGED vars
    BY <1>0, <1>4 DEF vars
  <1> QED
    BY <1>1, <1>2, <1>3, <1>4, <1>5 DEF Next
-----------------------------------------------------------------------------
\* A step moves a process along its own command.
LEMMA PlaceStep ==
    ASSUME StartupInv, [Next]_vars, NEW q \in Processes
    PROVE  InPlace(q)'
  <1> USE DEF StartupTypeOK, InPlace, KindsAt, Kind, GoTo
  <1>0. StartupTypeOK /\ InPlace(q)
    BY DEF StartupInv
  <1>1. CASE pc'[q] = pc[q]
    BY <1>0, <1>1
  <1>2. ASSUME NEW p \in Processes, Step(p), p # q \/ pc' = pc
        PROVE  pc'[q] = pc[q]
    BY <1>0, <1>2
    DEF Step, Load, Check, RegisterOperator, RegistrationMined, DepositIntoStrategy, SendTask,
        Dial, NewAggregator, Listen, ListenFails, End
  <1>3. ASSUME pc' = [pc EXCEPT ![q] = "off"]
        PROVE  InPlace(q)'
    BY <1>0, <1>3, StartupAssumption
  <1>4. CASE Step(q)
    <2>1. CASE Load(q)
      BY <1>0, <2>1, StartupAssumption DEF Load, FirstPlace, DepositsNothing
    <2>2. CASE Check(q)
      BY <1>0, <2>2 DEF Check, AfterCheck
    <2>3. CASE RegisterOperator(q)
      BY <1>0, <2>3, <1>3 DEF RegisterOperator, End
    <2>4. CASE RegistrationMined(q)
      BY <1>0, <2>4, <1>3 DEF RegistrationMined, AfterRegister, End
    <2>5. CASE DepositIntoStrategy(q)
      BY <1>0, <2>5, <1>3 DEF DepositIntoStrategy, End
    <2>6. CASE SendTask(q)
      BY <1>0, <2>6 DEF SendTask
    <2>7. CASE Dial(q)
      BY <1>0, <2>7, <1>3 DEF Dial, End
    <2>8. CASE NewAggregator(q)
      BY <1>0, <2>8 DEF NewAggregator
    <2>9. ASSUME NEW a \in Sockets, Listen(q, a)
          PROVE  InPlace(q)'
      BY <1>0, <1>1, <1>3, <2>9 DEF Listen, ListenFails, End
    <2> QED
      BY <1>4, <2>1, <2>2, <2>3, <2>4, <2>5, <2>6, <2>7, <2>8, <2>9 DEF Step
  <1>5. ASSUME NEW p \in Processes, Killed(p)
        PROVE  InPlace(q)'
    <2>1. pc' = [pc EXCEPT ![p] = "off"]
      BY <1>5 DEF Killed, End
    <2> QED
      BY <1>0, <1>1, <1>3, <2>1
  <1>6. CASE (\E p \in Processes : OrphanMined(p)) \/ \E k \in Keys : Deregister(k)
    BY <1>0, <1>1, <1>6 DEF OrphanMined, Deregister
  <1>7. CASE UNCHANGED vars
    BY <1>0, <1>1, <1>7 DEF vars
  <1> QED
    BY <1>1, <1>2, <1>4, <1>5, <1>6, <1>7 DEF Next
-----------------------------------------------------------------------------
\* What the steps do to the registry: nothing, a registration, or a leave.
LEMMA RegistrySteps ==
    ASSUME StartupInv, [Next]_vars
    PROVE  /\ file' = file
           /\ \/ UNCHANGED members
              \/ left' = left /\ \E p \in Registrants : Mined(p)
              \/ \E k \in Keys : Deregister(k)
  <1> USE DEF members
  <1>1. ASSUME NEW p \in Processes, RegistrationMined(p)
        PROVE  file' = file /\ left' = left /\ p \in Registrants /\ Mined(p)
    BY <1>1 DEF RegistrationMined, StartupInv, InPlace, KindsAt, Kind, Registrants
  <1>2. ASSUME NEW p \in Processes, OrphanMined(p)
        PROVE  file' = file /\ left' = left /\ p \in Registrants /\ Mined(p)
    BY <1>2 DEF OrphanMined, StartupInv, StartupTypeOK
  <1>3. ASSUME NEW p \in Processes, Step(p), ~RegistrationMined(p)
        PROVE  file' = file /\ UNCHANGED members
    BY <1>3 DEF Step, Load, Check, RegisterOperator, DepositIntoStrategy, SendTask, Dial,
                NewAggregator, Listen, chain
  <1>4. ASSUME NEW p \in Processes, Killed(p)
        PROVE  file' = file /\ UNCHANGED members
    BY <1>4 DEF Killed
  <1>5. ASSUME NEW k \in Keys, Deregister(k)
        PROVE  file' = file
    BY <1>5 DEF Deregister
  <1>6. CASE UNCHANGED vars
    BY <1>6 DEF vars, chain
  <1> QED
    BY <1>1, <1>2, <1>3, <1>4, <1>5, <1>6 DEF Next

\* Who has been in the registry stays in it or among those who left, and nobody's
\* BLS key is ever replaced.
LEMMA RegistryRemembers ==
    ASSUME StartupInv, [Next]_vars
    PROVE  /\ file' = file
           /\ registered \cup left \subseteq registered' \cup left'
           /\ \A k \in Keys : pubkey[k] # None => pubkey'[k] = pubkey[k]
  <1>1. ASSUME NEW p \in Registrants, Mined(p), left' = left
        PROVE  /\ registered \cup left \subseteq registered' \cup left'
               /\ \A k \in Keys : pubkey[k] # None => pubkey'[k] = pubkey[k]
    BY <1>1, MinedEffect
  <1>2. ASSUME NEW k \in Keys, Deregister(k)
        PROVE  registered \cup left \subseteq registered' \cup left' /\ pubkey' = pubkey
    BY <1>2 DEF Deregister
  <1> QED
    BY <1>1, <1>2, RegistrySteps DEF members

\* A BLS key comes from the process that registers it.
LEMMA SourceStep == StartupInv /\ [Next]_vars => KeysHaveSource'
  <1> SUFFICES ASSUME StartupInv, [Next]_vars
               PROVE  KeysHaveSource'
    OBVIOUS
  <1>0. KeysHaveSource /\ file' = file /\ registered \subseteq Keys /\ left \subseteq Keys
    BY RegistrySteps DEF StartupInv, StartupTypeOK
  <1>1. CASE UNCHANGED members
    BY <1>0, <1>1 DEF KeysHaveSource, members
  <1>2. ASSUME NEW p \in Registrants, Mined(p), left' = left
        PROVE  KeysHaveSource'
    <2>1. ASSUME NEW k \in registered' \cup left'
          PROVE  pubkey'[k] # None
      <3>1. CASE k \in registered \cup left
        BY <1>0, <1>2, <3>1, MinedEffect DEF KeysHaveSource
      <3>2. CASE k \notin registered \cup left
        BY <1>2, <2>1, <3>2, MinedEffect
      <3> QED
        BY <3>1, <3>2
    <2>2. ASSUME NEW k \in Keys, pubkey'[k] # None
          PROVE  \E q \in Registrants : Proc[q].key = k /\ file'[q].bls = pubkey'[k]
      <3>1. CASE pubkey'[k] = pubkey[k]
        BY <1>0, <2>2, <3>1 DEF KeysHaveSource
      <3>2. CASE pubkey'[k] # pubkey[k]
        BY <1>0, <1>2, <3>2, MinedEffect
      <3> QED
        BY <3>1, <3>2
    <2> QED
      BY <2>1, <2>2 DEF KeysHaveSource
  <1>3. ASSUME NEW k \in Keys, Deregister(k)
        PROVE  KeysHaveSource'
    BY <1>0, <1>3 DEF Deregister, KeysHaveSource
  <1> QED
    BY <1>1, <1>2, <1>3, RegistrySteps

\* There is no way past the check or the registration but for an operator whose
\* address or key is in the registry, and what it has found there stays.
LEMMA RegistrationStep ==
    ASSUME StartupInv, [Next]_vars, NEW q \in Processes
    PROVE  PastRegistration(q)'
  <1> USE DEF StartupTypeOK, Kind, GoTo
  <1>0. StartupTypeOK /\ PastRegistration(q) /\ InPlace(q) /\ Proc[q].key \in Keys
    BY StartupAssumption DEF StartupInv
  <1>1. /\ file' = file /\ registered \cup left \subseteq registered' \cup left'
        /\ \A k \in Keys : pubkey[k] # None => pubkey'[k] = pubkey[k]
    BY RegistryRemembers
  <1>2. NobodyElses(q)' <=> NobodyElses(q)
    BY <1>1 DEF NobodyElses
  <1>3. ASSUME Kind(q) = "operator",
               {Proc[q].address, Proc[q].key} \cap (registered' \cup left') # {}
        PROVE  Entered(q)'
    <2>1. KeysHaveSource'
      BY SourceStep
    <2>2. ASSUME Proc[q].address = Proc[q].key, Agreed(q)'
          PROVE  pubkey'[Proc[q].key] = file'[q].bls
      <3>1. pubkey'[Proc[q].key] # None
        BY <1>3, <2>1, <2>2 DEF KeysHaveSource
      <3>2. PICK r \in Registrants :
                Proc[r].key = Proc[q].key /\ file'[r].bls = pubkey'[Proc[q].key]
        BY <1>0, <2>1, <3>1 DEF KeysHaveSource
      <3> QED
        BY <2>2, <3>2 DEF Agreed
    <2> QED
      BY <1>3, <2>2 DEF Entered
  <1>4. CASE pc'[q] = pc[q]
    <2>1. ASSUME Kind(q) = "operator", Entered(q)
          PROVE  Entered(q)'
      BY <1>1, <1>3, <2>1 DEF Entered
    <2> QED
      BY <1>0, <1>2, <1>4, <2>1 DEF PastRegistration
  <1>5. CASE pc'[q] \notin {"dial", "serve"}
    BY <1>5 DEF PastRegistration
  <1>6. ASSUME NEW p \in Processes, Step(p), p # q
        PROVE  pc'[q] = pc[q]
    BY <1>0, <1>6
    DEF Step, Load, Check, RegisterOperator, RegistrationMined, DepositIntoStrategy, SendTask,
        Dial, NewAggregator, Listen, ListenFails, End
  <1>7. CASE Step(q)
    <2>1. CASE Load(q)
      BY <1>0, <1>5, <2>1 DEF Load, FirstPlace
    <2>2. CASE Check(q)
      <3>1. CASE Proc[q].address \in registered
        BY <1>1, <1>3, <3>1 DEF PastRegistration
      <3>2. CASE Proc[q].address \notin registered
        BY <1>0, <1>5, <2>2, <3>2 DEF Check, AfterCheck, IsOperatorRegistered
      <3> QED
        BY <3>1, <3>2
    <2>3. CASE RegisterOperator(q)
      BY <1>0, <1>5, <2>3 DEF RegisterOperator, End
    <2>4. CASE RegistrationMined(q)
      <3>1. q \in Registrants /\ Mined(q)
        BY <1>0, <2>4 DEF RegistrationMined, InPlace, KindsAt, Registrants
      <3>2. NobodyElses(q) => Proc[q].key \in registered'
        BY <3>1, MinedEffect
      <3> QED
        BY <1>2, <1>3, <3>2 DEF PastRegistration
    <2>5. CASE DepositIntoStrategy(q)
      BY <1>0, <1>5, <2>5 DEF DepositIntoStrategy, End
    <2>6. CASE SendTask(q)
      BY <1>0, <1>5, <2>6 DEF SendTask
    <2>7. CASE Dial(q)
      <3>1. pc[q] = "dial"
        BY <2>7 DEF Dial
      <3>2. Kind(q) = "operator" /\ NobodyElses(q) => Entered(q)
        BY <1>0, <3>1 DEF PastRegistration
      <3>3. Kind(q) = "operator" /\ Entered(q) => Entered(q)'
        BY <1>1, <1>3 DEF Entered
      <3> QED
        BY <1>2, <3>2, <3>3 DEF PastRegistration
    <2>8. CASE NewAggregator(q)
      BY <1>0, <2>8 DEF NewAggregator, InPlace, KindsAt, PastRegistration
    <2>9. ASSUME NEW a \in Sockets, Listen(q, a)
          PROVE  PastRegistration(q)'
      BY <1>0, <1>4, <1>5, <2>9 DEF Listen, ListenFails, End
    <2> QED
      BY <1>7, <2>1, <2>2, <2>3, <2>4, <2>5, <2>6, <2>7, <2>8, <2>9 DEF Step
  <1>8. ASSUME NEW p \in Processes, Killed(p)
        PROVE  pc'[q] = pc[q] \/ pc'[q] = "off"
    BY <1>0, <1>8 DEF Killed, End
  <1>9. CASE (\E p \in Processes : OrphanMined(p)) \/ \E k \in Keys : Deregister(k)
    BY <1>4, <1>9 DEF OrphanMined, Deregister
  <1>10. CASE UNCHANGED vars
    BY <1>4, <1>10 DEF vars
  <1> QED
    BY <1>4, <1>5, <1>6, <1>7, <1>8, <1>9, <1>10 DEF Next
-----------------------------------------------------------------------------
\* A process that begins to serve owns nothing yet, and is to take everything.
LEMMA ServersBegin ==
    ASSUME StartupInv, NEW p \in Processes, NEW q \in Processes, pc[p] # "serve",
           GoTo(p, "serve"), StartServers(p), owner' = owner
    PROVE  ServersStarted(q)'
  <1>1. /\ pc' = [pc EXCEPT ![p] = "serve"] /\ pending' = [pending EXCEPT ![p] = Proc[p].listens]
    BY DEF GoTo, StartServers
  <1>2. CASE q = p
    <2>1. pc'[q] = "serve" /\ pending'[q] = Proc[q].listens
      BY <1>1, <1>2 DEF StartupInv, StartupTypeOK
    <2>2. \A a \in Sockets : owner'[a] # q
      BY <1>2 DEF StartupInv, ServersStarted
    <2> QED
      BY <2>1, <2>2, ListensAreSockets DEF ServersStarted
  <1>3. CASE q # p
    <2>1. pc'[q] = pc[q] /\ pending'[q] = pending[q]
      BY <1>1, <1>3 DEF StartupInv, StartupTypeOK
    <2> QED
      BY <2>1 DEF StartupInv, ServersStarted
  <1> QED
    BY <1>2, <1>3

\* A server takes an address that nobody has.
LEMMA SocketTaken ==
    ASSUME StartupInv, NEW p \in Processes, NEW q \in Processes, NEW a \in Sockets,
           a \in pending[p], owner[a] = Nobody, pc' = pc,
           owner' = [owner EXCEPT ![a] = p], pending' = [pending EXCEPT ![p] = @ \ {a}]
    PROVE  ServersStarted(q)'
  <1>0. StartupTypeOK /\ ServersStarted(q) /\ ServersStarted(p)
    BY DEF StartupInv
  <1>1. CASE q = p
    <2>1. pending'[q] = pending[q] \ {a} /\ a \in Proc[q].listens /\ pc[q] = "serve"
      BY <1>0, <1>1 DEF StartupTypeOK, ServersStarted
    <2>2. \A b \in Sockets : owner'[b] = IF b = a THEN q ELSE owner[b]
      BY <1>0, <1>1 DEF StartupTypeOK
    <2> QED
      BY <1>0, <2>1, <2>2, ListensAreSockets DEF ServersStarted
  <1>2. CASE q # p
    <2>1. pending'[q] = pending[q]
      BY <1>0, <1>2 DEF StartupTypeOK
    <2>2. \A b \in Sockets : owner'[b] = q <=> owner[b] = q
      BY <1>0, <1>2, NobodyAssumption DEF StartupTypeOK
    <2> QED
      BY <1>0, <2>1, <2>2, ListensAreSockets DEF ServersStarted
  <1> QED
    BY <1>1, <1>2

\* An address is taken while nobody has it, and given back by its owner only.
LEMMA ServersStep ==
    ASSUME StartupInv, [Next]_vars, NEW q \in Processes
    PROVE  ServersStarted(q)'
  <1> USE DEF StartupTypeOK, GoTo, host
  <1>0. StartupTypeOK /\ ServersStarted(q)
    BY DEF StartupInv
  <1>1. CASE pc'[q] = pc[q] /\ UNCHANGED host
    BY <1>0, <1>1 DEF ServersStarted
  <1>2. ASSUME NEW p \in Processes, pc[p] # "serve", pc' = [pc EXCEPT ![p] = pc'[p]],
               pc'[p] # "serve", UNCHANGED host
        PROVE  ServersStarted(q)'
    BY <1>0, <1>2 DEF ServersStarted
  <1>3. ASSUME NEW p \in Processes, Step(p)
        PROVE  ServersStarted(q)'
    <2>1. CASE Load(p)
      BY <1>0, <1>2, <2>1 DEF Load, FirstPlace
    <2>2. CASE Check(p)
      BY <1>0, <1>2, <2>2 DEF Check, AfterCheck
    <2>3. CASE RegisterOperator(p)
      BY <1>0, <1>2, <2>3, EndKeepsServers DEF RegisterOperator
    <2>4. CASE RegistrationMined(p)
      BY <1>0, <1>2, <2>4, EndKeepsServers DEF RegistrationMined, AfterRegister
    <2>5. CASE DepositIntoStrategy(p)
      BY <1>0, <1>2, <2>5, EndKeepsServers DEF DepositIntoStrategy
    <2>6. CASE SendTask(p)
      BY <1>0, <1>2, <2>6 DEF SendTask
    <2>7. CASE Dial(p)
      <3>1. CASE End(p)
        BY <3>1, EndKeepsServers
      <3>2. CASE GoTo(p, "serve") /\ StartServers(p) /\ UNCHANGED owner
        BY <2>7, <3>2, ServersBegin DEF Dial
      <3> QED
        BY <2>7, <3>1, <3>2 DEF Dial
    <2>8. CASE NewAggregator(p)
      BY <2>8, ServersBegin DEF NewAggregator
    <2>9. ASSUME NEW a \in Sockets, Listen(p, a)
          PROVE  ServersStarted(q)'
      <3>1. CASE owner[a] = Nobody
        BY <2>9, <3>1, SocketTaken DEF Listen
      <3>2. CASE owner[a] # Nobody
        BY <2>9, <3>2, EndKeepsServers DEF Listen, ListenFails
      <3> QED
        BY <3>1, <3>2
    <2> QED
      BY <1>3, <2>1, <2>2, <2>3, <2>4, <2>5, <2>6, <2>7, <2>8, <2>9 DEF Step
  <1>4. ASSUME NEW p \in Processes, Killed(p)
        PROVE  ServersStarted(q)'
    BY <1>4, EndKeepsServers DEF Killed
  <1>5. CASE (\E p \in Processes : OrphanMined(p)) \/ \E k \in Keys : Deregister(k)
    BY <1>1, <1>5 DEF OrphanMined, Deregister
  <1>6. CASE UNCHANGED vars
    BY <1>1, <1>6 DEF vars
  <1> QED
    BY <1>3, <1>4, <1>5, <1>6 DEF Next
-----------------------------------------------------------------------------
\* The parts hold together in every state of the processes.
THEOREM StartupInvariant == Spec => []StartupInv
  <1>1. ASSUME StartupInv, [Next]_vars
        PROVE  StartupInv'
    BY <1>1, StartupTypeStep, SourceStep, PlaceStep, RegistrationStep, ServersStep DEF StartupInv
  <1> QED
    BY <1>1, StartupInit, PTL DEF Spec

\* Stakes stay natural numbers, and sockets have owners among the processes.
THEOREM StartupTypeCorrect == Spec => []StartupTypeOK
  <1>1. StartupInv => StartupTypeOK
    BY DEF StartupInv
  <1> QED
    BY <1>1, StartupInvariant, PTL

\* An operator serves only after its address or its ECDSA key has been in the
\* registry, unless another operator has its BLS key pair; and where address and
\* key pairs agree, with the BLS key it signs with.
THEOREM ServingOperatorsRegistered == Spec => []RunningIsRegistered
  <1>1. StartupInv => RunningIsRegistered
    BY DEF StartupInv, RunningIsRegistered, PastRegistration, Entered, Kind, Operators
  <1> QED
    BY <1>1, StartupInvariant, PTL

\* Serving processes own their addresses or are about to take them, and nobody
\* else owns any.
THEOREM ServersListen == Spec => []ServingMeansListening
  <1>1. StartupInv => ServingMeansListening
    BY DEF StartupInv, ServingMeansListening, ServersStarted
  <1> QED
    BY <1>1, StartupInvariant, PTL
=============================================================================
