---------------------------- MODULE ProofService ----------------------------
(***************************************************************************)
(* What the batcher promises its clients, without queue, blocks, tasks and *)
(* locks.  A proof is taken once, and answered at most once, with its      *)
(* place in a batch that is published; batches are made of proofs that are *)
(* held, and a verification task is only created for a published batch.    *)
(* What is held is only lost by the service dropping some of it or by its  *)
(* forgetting all of it, where these may happen; what is lost is never     *)
(* answered.                                                               *)
(***************************************************************************)
EXTENDS Integers, Sequences

CONSTANTS Messages,   \* the proofs of the clients
          content,    \* content[m]: what the commitment of m depends on
          MayDrop,    \* whether some of the proofs that are held may be dropped
          MayForget   \* whether all of them may be forgotten

VARIABLES status,     \* status[m]: "outside", "held", "answered" or "lost"
          published,  \* the batches that can be downloaded, by root
          tasks,      \* the roots with a verification task
          answers     \* the inclusion data given to clients

vars == <<status, published, tasks, answers>>

Init ==
    /\ status = [m \in Messages |-> "outside"]
    /\ published = {} /\ tasks = {} /\ answers = {}

HeldMessages == {m \in Messages : status[m] = "held"}

Take(m) ==
    /\ status[m] = "outside"
    /\ status' = [status EXCEPT ![m] = "held"]
    /\ UNCHANGED <<published, tasks, answers>>

MadeOf(root, messages) ==
    root # <<>> /\ \A i \in DOMAIN root : \E m \in messages : root[i] = content[m]

Publish ==
    /\ \E root \in published' \ published :
          /\ MadeOf(root, HeldMessages)
          /\ published' = published \cup {root}
    /\ UNCHANGED <<status, tasks, answers>>

CreateTask(root) ==
    /\ tasks' = tasks \cup {root}
    /\ UNCHANGED <<status, published, answers>>

\* The place of m in a batch.
Inclusion(m, root, index) ==
    /\ root \in published
    /\ index + 1 \in DOMAIN root
    /\ root[index + 1] = content[m]

Answer(m) ==
    /\ status[m] = "held"
    /\ status' = [status EXCEPT ![m] = "answered"]
    /\ \E x \in answers' :
          /\ x.message = m /\ Inclusion(m, x.root, x.index)
          /\ answers' = answers \cup {x}
    /\ UNCHANGED <<published, tasks>>

Losing(lost) == status' = [m \in Messages |-> IF m \in lost THEN "lost" ELSE status[m]]

Drop ==
    /\ MayDrop
    /\ \E lost \in SUBSET HeldMessages : Losing(lost)
    /\ UNCHANGED <<published, tasks, answers>>

Forget ==
    /\ MayForget
    /\ Losing(HeldMessages)
    /\ UNCHANGED <<published, tasks, answers>>

Next ==
    \/ \E m \in Messages : Take(m) \/ Answer(m)
    \/ Publish
    \/ \E root \in published : CreateTask(root)
    \/ Drop
    \/ Forget

Spec == Init /\ [][Next]_vars
=============================================================================
