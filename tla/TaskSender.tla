----------------------------- MODULE TaskSender -----------------------------
(***************************************************************************)
(* The task sender's commands beside the contract: send-task sends one     *)
(* proof as a batch of its own, loop-tasks sends the same proof again and  *)
(* again, infinite-tasks makes a new proof for every task.  Each runs as a *)
(* process; infinite-tasks passes its proofs through files whose names     *)
(* depend only on a counter that starts anew in every process.             *)
(*                                                                         *)
(* The root of a batch is the hash of its JSON, so here it is the content  *)
(* itself: Roots holds contents.  External: the file system, the data      *)
(* service (store), and the transactions under way (tx).                   *)
(***************************************************************************)
EXTENDS AlignedLayerServiceManager, Verification

CONSTANTS Senders,     \* the processes
          Starts,      \* the commands they are started as: functions on Senders
          MaxX,        \* bound: proofs an infinite sender makes
          MaxSetups,   \* bound: setups made by all of them
          Faults       \* the faults that may happen

\* A file has the number of the setup it was made with; 0 is the setup of the
\* examples, which are given by flags.
Empty == -1
Setups == 0..MaxSetups
FileNames == <<"proof", "pub", "key">>       \* in the order they are read
WrittenNames == <<"proof", "key", "pub">>    \* in the order they are written
FileSets == [proof : Setups \cup {Empty}, pub : Setups \cup {Empty},
             key : Setups \cup {Empty}]
EmptyFiles == [proof |-> Empty, pub |-> Empty, key |-> Empty]

\* id: the system the batch names; made: the system its files are of.  A public
\* witness does not depend on the setup.
Contents == [id : ProvingSystemIds, made : ProvingSystemIds, proof : Setups \cup {Empty},
             key : Setups \cup {Empty}, pub : BOOLEAN]

\* given: the flags that name a file; files: what the named files hold.
Commands == [mode : {"send", "loop", "infinite"}, system : STRING, made : ProvingSystemIds,
             given : SUBSET {"proof", "pub", "key"}, files : FileSets]

VARIABLES command,      \* how a process was started
          pc, at,       \* where it is, and the file it is at
          x,            \* the counter of taskSenderInfiniteMain
          made,         \* the setup it made last
          files,        \* files[n]: the files ineq_n_groth16.*
          setups,       \* setups made so far
          data,         \* what it has read
          store,        \* the objects in the bucket
          tx,           \* tx[s]: its transaction: none, pending, mined, reverted
          sent          \* sent[s]: the roots it has reported as sent

process == <<command, pc, at, x, made, data, tx, sent>>
vars == <<chainVars, process, files, setups, store>>

Places == {"generate", "create", "write", "config", "parse", "read", "upload", "estimate",
           "wait", "sleep", "done", "refused", "failed"}

TaskSenderTypeOK ==
    /\ ChainTypeOK
    /\ command \in Starts
    /\ pc \in [Senders -> Places] /\ at \in [Senders -> 1..3]
    /\ x \in [Senders -> 0..MaxX] /\ made \in [Senders -> Setups]
    /\ files \in [1..MaxX -> FileSets] /\ setups \in Setups
    /\ data \in [Senders -> FileSets]
    /\ store \subseteq Roots
    /\ tx \in [Senders -> {"none", "pending", "mined", "reverted"}]
    /\ sent \in [Senders -> Seq(Roots)]

Init ==
    /\ ChainInit
    /\ command \in Starts
    /\ pc = [s \in Senders |-> IF command[s].mode = "infinite" THEN "generate" ELSE "config"]
    /\ at = [s \in Senders |-> 1]
    /\ x = [s \in Senders |-> 0] /\ made = [s \in Senders |-> 0]
    /\ files = [n \in 1..MaxX |-> EmptyFiles] /\ setups = 0
    /\ data = [s \in Senders |-> EmptyFiles]
    /\ store = {}
    /\ tx = [s \in Senders |-> "none"]
    /\ sent = [s \in Senders |-> <<>>]

At(s, p) == pc[s] = p
GoTo(s, p) == pc' = [pc EXCEPT ![s] = p]
-----------------------------------------------------------------------------
(***************************************************************************)
(* GenerateIneqProof(x).                                                   *)
(***************************************************************************)
\* Mutant: the setup is not random.
NewSetup_Fixed(n) == 1

NewSetup(n) == n + 1

\* x += 1, the setup with keys of its own, and the proof, verified before it is
\* written.
Generate(s) ==
    /\ At(s, "generate")
    /\ x[s] < MaxX /\ setups < MaxSetups
    /\ x' = [x EXCEPT ![s] = @ + 1]
    /\ setups' = setups + 1
    /\ made' = [made EXCEPT ![s] = NewSetup(setups)]
    /\ at' = [at EXCEPT ![s] = 1]
    /\ GoTo(s, "create")
    /\ UNCHANGED <<chainVars, command, data, tx, sent, files, store>>

Advance(s, here, next) ==
    /\ At(s, here)
    /\ at' = [at EXCEPT ![s] = IF @ = 3 THEN 1 ELSE @ + 1]
    /\ GoTo(s, IF at[s] = 3 THEN next ELSE here)

\* os.Create truncates.
Create(s) ==
    /\ Advance(s, "create", "write")
    /\ files' = [files EXCEPT ![x[s]][WrittenNames[at[s]]] = Empty]
    /\ UNCHANGED <<chainVars, command, x, made, data, tx, sent, setups, store>>

Write(s) ==
    /\ Advance(s, "write", "config")
    /\ files' = [files EXCEPT ![x[s]][WrittenNames[at[s]]] = made[s]]
    /\ UNCHANGED <<chainVars, command, x, made, data, tx, sent, setups, store>>
-----------------------------------------------------------------------------
(***************************************************************************)
(* taskSenderMain: every error is returned, and ends the process.          *)
(***************************************************************************)
End(s, how) ==
    /\ GoTo(s, how)
    /\ UNCHANGED <<chainVars, command, at, x, made, data, tx, sent, files, setups, store>>

Pass(s, here, next) ==
    /\ At(s, here)
    /\ GoTo(s, next)
    /\ UNCHANGED <<chainVars, command, at, x, made, data, tx, sent, files, setups>>

\* NewTaskSenderConfig and NewAvsWriterFromConfig.
Configure(s) == Pass(s, "config", "parse") /\ UNCHANGED store

ParseProvingSystem(name) ==
    CASE name = "plonk_bls12_381" -> GnarkPlonkBls12_381
      [] name = "plonk_bn254" -> GnarkPlonkBn254
      [] name = "groth16_bn254" -> Groth16Bn254
      [] name = "sp1" -> SP1
      [] name = "halo2_kzg" -> Halo2KZG
      [] name = "halo2_ipa" -> Halo2IPA
      [] OTHER -> NoSystem

System(s) == ParseProvingSystem(command[s].system)

\* Mutant: the error for a name that is not known is not returned.
Parse_Ignored(s) == Pass(s, "parse", "read") /\ UNCHANGED store

Parse(s) == System(s) # NoSystem /\ Pass(s, "parse", "read") /\ UNCHANGED store

\* One after the other; a file that is not there is an error, an empty one is
\* not.
FileRead(s) ==
    LET from == IF x[s] = 0 THEN command[s].files ELSE files[x[s]] IN
    from[FileNames[at[s]]]

CanRead(s) == x[s] > 0 \/ FileNames[at[s]] \in command[s].given

Read(s) ==
    /\ CanRead(s)
    /\ Advance(s, "read", "upload")
    /\ data' = [data EXCEPT ![s][FileNames[at[s]]] = FileRead(s)]
    /\ UNCHANGED <<chainVars, command, x, made, tx, sent, files, setups, store>>

Root(s) == [id |-> System(s),
            made |-> IF x[s] = 0 THEN command[s].made ELSE Groth16Bn254,
            proof |-> data[s].proof, key |-> data[s].key, pub |-> data[s].pub # Empty]

\* Roots has every batch that the commands can make.
ASSUME StartsAssumption ==
    /\ MaxX \in Nat /\ MaxSetups \in Nat
    /\ Starts \subseteq [Senders -> Commands]
    /\ \A f \in Starts, s \in Senders :
          LET id == ParseProvingSystem(f[s].system)
              given == f[s].files IN
          id # NoSystem =>
              IF f[s].mode = "infinite"
                THEN [id : {id}, made : {Groth16Bn254}, proof : Setups \cup {Empty},
                      key : Setups \cup {Empty}, pub : BOOLEAN] \subseteq Roots
                ELSE [id |-> id, made |-> f[s].made, proof |-> given.proof, key |-> given.key,
                      pub |-> given.pub # Empty] \in Roots

\* Mutant: the error of the upload is not returned.
Upload_Ignored(s) ==
    \/ Pass(s, "upload", "estimate") /\ store' = store \cup {Root(s)}
    \/ Pass(s, "upload", "estimate") /\ UNCHANGED store

Upload(s) == Pass(s, "upload", "estimate") /\ store' = store \cup {Root(s)}

\* CreateNewTask estimates its gas by a simulation, which the contract reverts
\* for a root that exists.
EstimationSucceeds(r) == ~Exists(r)

\* Mutant: a gas limit is given, nothing is estimated.
SendTransaction_Unestimated(s) ==
    /\ At(s, "estimate")
    /\ tx' = [tx EXCEPT ![s] = "pending"]
    /\ GoTo(s, "wait")
    /\ UNCHANGED <<chainVars, command, at, x, made, data, sent, files, setups, store>>

SendTransaction(s) ==
    /\ At(s, "estimate")
    /\ EstimationSucceeds(Root(s))
    /\ tx' = [tx EXCEPT ![s] = "pending"]
    /\ GoTo(s, "wait")
    /\ UNCHANGED <<chainVars, command, at, x, made, data, sent, files, setups, store>>

\* Mutant: a receipt that is not there yet is no error.
HasReceipt_NotAwaited(s) == TRUE

HasReceipt(s) == tx[s] \in {"mined", "reverted"}

\* WaitForTransactionReceipt: a receipt, whatever its status.
Receipt(s) ==
    /\ At(s, "wait")
    /\ HasReceipt(s)
    /\ sent' = [sent EXCEPT ![s] = Append(@, Root(s))]
    /\ GoTo(s, IF command[s].mode = "send" THEN "done" ELSE "sleep")
    /\ UNCHANGED <<chainVars, command, at, x, made, data, tx, files, setups, store>>

\* The interval is over.
Wake(s) ==
    /\ At(s, "sleep")
    /\ GoTo(s, IF command[s].mode = "infinite" THEN "generate" ELSE "config")
    /\ UNCHANGED <<chainVars, command, at, x, made, data, tx, sent, files, setups, store>>

\* A name that is not known, a file that is not there, a root that exists.
Refused(s) ==
    /\ \/ At(s, "parse") /\ System(s) = NoSystem
       \/ At(s, "read") /\ ~CanRead(s)
       \/ At(s, "estimate") /\ ~EstimationSucceeds(Root(s))
    /\ End(s, "refused")

\* A service fails: the disk, the node that is asked for the configuration, S3,
\* the node that takes the transaction; or the receipt does not come in time.
ServiceFails(s) ==
    /\ "service" \in Faults
    /\ pc[s] \in {"create", "write", "config", "upload", "estimate", "wait"}
    /\ End(s, "failed")
-----------------------------------------------------------------------------
\* Packed gives every part the length 1: it stands for the lengths that the
\* operator's buffers hold, and key for the header and the three parts behind it.
ASSUME PackedFits ==
    /\ 0 \notin {LibProofSize, MaxConstraintSystemSize, MaxVerifierKeySize, MaxParamsSize,
                 MaxPublicInputSize}
    /\ HeaderLen + 3 < UintRange

Holding(file, part) == IF file # Empty THEN {part} ELSE {}

\* Mutant: the program of SP1 is sent as a verification key, like any other.
Packed_AsKey(r) ==
    [made |-> r.made, given |-> {"pub", "key", "code"}, padded |-> {},
     readable |-> {"cs", "vk", "params"} \cup Holding(r.proof, "proof")
                  \cup Holding(r.key, "key") \cup (IF r.pub THEN {"pub"} ELSE {}),
     holds |-> r.proof = r.key, cs |-> 1, vk |-> 1, params |-> 1, pub |-> 1,
     proof |-> IF r.proof = Empty THEN 0 ELSE 1, key |-> 15, code |-> 0]

\* The verification data in the object: for SP1 the key file is the program.
Packed(r) ==
    [made |-> r.made, given |-> {"pub", "key", "code"}, padded |-> {},
     readable |-> {"cs", "vk", "params"} \cup Holding(r.proof, "proof")
                  \cup Holding(r.key, IF r.id = SP1 THEN "code" ELSE "key")
                  \cup (IF r.pub THEN {"pub"} ELSE {}),
     holds |-> r.proof = r.key, cs |-> 1, vk |-> 1, params |-> 1, pub |-> 1,
     proof |-> IF r.proof = Empty THEN 0 ELSE 1,
     key |-> IF r.id = SP1 THEN 0 ELSE 15,
     code |-> IF r.id = SP1 /\ r.key # Empty THEN 1 ELSE 0]

\* The verdict of an operator that reads the object.
Accepted(r) ==
    LET id == ProvingSystemIdFromString(ProvingSystemIdToString(r.id)) IN
    id # NoSystem /\ OperatorVerify(Packed(r), id) = "accept"
-----------------------------------------------------------------------------
\* The transaction of s is included in a block: it creates the task, or is
\* reverted because another one has.
Mined(s) ==
    /\ tx[s] = "pending"
    /\ \/ CreateNewTask(Root(s)) /\ tx' = [tx EXCEPT ![s] = "mined"]
       \/ /\ Exists(Root(s))
          /\ tx' = [tx EXCEPT ![s] = "reverted"]
          /\ UNCHANGED chainVars
    /\ UNCHANGED <<command, pc, at, x, made, data, sent, files, setups, store>>

SenderStep(s) ==
    \/ Generate(s) \/ Create(s) \/ Write(s)
    \/ Configure(s) \/ Parse(s) \/ Read(s) \/ Upload(s)
    \/ SendTransaction(s) \/ Receipt(s) \/ Wake(s) \/ Refused(s)

Next == \E s \in Senders : SenderStep(s) \/ ServiceFails(s) \/ Mined(s)

Spec == Init /\ [][Next]_vars

\* Processes run, and transactions are included.
FairSpec == Spec /\ \A s \in Senders : WF_vars(SenderStep(s)) /\ WF_vars(Mined(s))
-----------------------------------------------------------------------------
\* Every root a sender has reported as sent has a task, although it never looks
\* at the status of a receipt: its own transaction may have been reverted.
SuccessMeansExists ==
    \A s \in Senders : \A i \in DOMAIN sent[s] : Exists(sent[s][i])

\* No sender reports the same root twice: a repeated one ends the process.
NoRootTwice ==
    \A s \in Senders : \A i, j \in DOMAIN sent[s] : sent[s][i] = sent[s][j] => i = j

\* Operators that hear of a task find its data: it is in the bucket first.
DataBeforeTask == \A r \in Roots : Exists(r) => r \in store
-----------------------------------------------------------------------------
Infinite == {s \in Senders : command[s].mode = "infinite"}

\* The files of a valid proof are all there, the proof and the key of one setup.
Valid(f) == f.proof = f.key /\ Empty \notin {f.proof, f.pub}

\* The proving system named on the command line is that of the files.
NamesItsProofs(s) ==
    IF command[s].mode = "infinite"
    THEN System(s) = Groth16Bn254
    ELSE System(s) = command[s].made /\ Valid(command[s].files)

\* A task that is created from valid files, or by the one infinite sender of a
\* directory, carries a proof that operators accept, for every proving system
\* and while other senders send other tasks.
SentProofsAreAccepted ==
    (\A s, q \in Infinite : s = q) =>
        \A s \in Senders : NamesItsProofs(s) =>
            \A i \in DOMAIN sent[s] : Accepted(sent[s][i])

\* An infinite sender that has its directory to itself goes on sending until a
\* service fails: every proof it makes is a task of its own, none is refused.
InfiniteKeepsSending ==
    \A s \in Senders :
        Infinite = {s} /\ System(s) # NoSystem
            ~> Len(sent[s]) = MaxX \/ pc[s] = "failed"

\* loop-tasks sends a task in every interval, until a service fails.
LoopKeepsSending ==
    \A s \in Senders :
        command[s].mode = "loop" /\ Len(sent[s]) = 1
            ~> Len(sent[s]) = 2 \/ pc[s] = "failed"
=============================================================================
