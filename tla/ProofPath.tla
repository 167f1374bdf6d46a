----------------------------- MODULE ProofPath ------------------------------
(***************************************************************************)
(* The way of one proof from a client through the batcher, which verifies  *)
(* before it queues, and through JSON to an operator, which verifies       *)
(* before it signs.                                                        *)
(***************************************************************************)
EXTENDS Verification, Sequences

CONSTANT Data    \* the proofs that clients send, and the system each is said to be of

\* What is not there, or is empty, does not decode; a message is short of 4 GiB.
ASSUME DataAssumption ==
    /\ Data \subseteq [d : VerificationData, named : ProvingSystemIds]
    /\ \A s \in Data :
          /\ {"pub", "key", "code"} \cap s.d.readable \subseteq s.d.given
          /\ "proof" \in s.d.readable => s.d.proof > 0
          /\ "code" \in s.d.readable => s.d.code > 0
          /\ s.d.key < UintRange

VARIABLES sent,      \* the proof under way
          stage,     \* how far it has come
          batcher,   \* the batcher's verdict on it
          operator   \* the operator's verdict on it

vars == <<sent, stage, batcher, operator>>

\* A client's message reaches the batcher.
Init ==
    /\ sent \in Data
    /\ stage = "sent"
    /\ batcher = "none" /\ operator = "none"

\* serde writes the variant of the Rust enumeration by its name.
SerdeName(id) ==
    <<"GnarkPlonkBls12_381", "GnarkPlonkBn254", "Groth16Bn254", "SP1", "Halo2KZG",
      "Halo2IPA">>[id + 1]

\* handle_message: only a verified proof is queued.
BatcherVerifies ==
    /\ stage = "sent"
    /\ batcher' = BatcherVerify(sent.d, sent.named)
    /\ stage' = IF batcher' = "accept" THEN "queued" ELSE "refused"
    /\ UNCHANGED <<sent, operator>>

\* The batch is read as JSON: an unknown name fails it as a whole.
OperatorVerifies ==
    /\ stage = "queued"
    /\ LET id == ProvingSystemIdFromString(SerdeName(sent.named)) IN
       operator' = IF id = NoSystem THEN "reject" ELSE OperatorVerify(sent.d, id)
    /\ stage' = "judged"
    /\ UNCHANGED <<sent, batcher>>

Next == BatcherVerifies \/ OperatorVerifies

Spec == Init /\ [][Next]_vars
-----------------------------------------------------------------------------
\* The differences between the two verifiers that the sizes of the buffers
\* leave: a proof or a public input longer than the operator's library takes,
\* and a part that decodes only because the batcher's buffer ends in zeros.
SizesDiffer(d) ==
    \/ d.proof > LibProofSize
    \/ d.pub > MaxPublicInputSize
    \/ ~Reads(d, {"cs", "vk", "params"})

\* A proof the batcher has let into a batch is accepted by every operator:
\* one refusal would cost all the proofs of its batch their verification.
\* The way from the one verdict to the other leads through JSON, the table of
\* names, the switch and the offsets into the key.
VerifiersAgree ==
    stage = "judged" =>
        \/ operator = "accept"
        \/ sent.named \in {Halo2KZG, Halo2IPA} /\ SizesDiffer(sent.d)
=============================================================================
