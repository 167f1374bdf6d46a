-------------------------- MODULE ProofPath_proofs --------------------------
(***************************************************************************)
(* Proofs about the two verifiers, for proofs and keys of every length,    *)
(* buffers of every size and every range of uint32.                        *)
(***************************************************************************)
EXTENDS ProofPath, TLAPS

\* A proving system keeps its identity on the way through JSON: the name serde
\* writes is the name the operator's table knows, and each system has its own.
LEMMA NamesRoundTrip ==
    ASSUME NEW id \in ProvingSystemIds
    PROVE  ProvingSystemIdFromString(SerdeName(id)) = id
  <1>1. id = 0 \/ id = 1 \/ id = 2 \/ id = 3 \/ id = 4 \/ id = 5
    BY DEF ProvingSystemIds
  <1> QED
    BY <1>1 DEF ProvingSystemIdFromString, SerdeName, GnarkPlonkBls12_381, GnarkPlonkBn254,
                Groth16Bn254, SP1, Halo2KZG, Halo2IPA

\* A key whose declared lengths add up to its own is cut by the operator in the
\* same places: no sum of lengths below 2^32 wraps around.
LEMMA OffsetsExact ==
    ASSUME NEW d \in VerificationData, d.key < UintRange, KeyAddsUp(d)
    PROVE  /\ SlicesFit(d)
           /\ ParamsOffset(d) = HeaderLen + d.cs + d.vk
           /\ d.key - ParamsOffset(d) = d.params
  <1>1. d.key \in Nat /\ d.cs \in Nat /\ d.vk \in Nat /\ d.params \in Nat
    BY DEF VerificationData
  <1>2. UintRange \in Nat \ {0}
    BY SizeAssumption
  <1>3. d.key = 12 + d.cs + d.vk + d.params
    BY <1>1 DEF KeyAddsUp, HeaderLen
  <1>4. \A m \in Nat : m < UintRange => m % UintRange = m
    BY <1>2, SMT
  <1>5. VkOffset(d) = 12 + d.cs
    <2>1. 12 + d.cs \in Nat /\ 12 + d.cs < UintRange
      BY <1>1, <1>2, <1>3
    <2>2. (12 + d.cs) % UintRange = 12 + d.cs
      BY <1>4, <2>1
    <2> QED
      BY <2>2 DEF VkOffset, uint32sum, HeaderLen
  <1>6. ParamsOffset(d) = 12 + d.cs + d.vk
    <2>1. 12 + d.cs + d.vk \in Nat /\ 12 + d.cs + d.vk < UintRange
      BY <1>1, <1>2, <1>3
    <2>2. (12 + d.cs + d.vk) % UintRange = 12 + d.cs + d.vk
      BY <1>4, <2>1
    <2> QED
      BY <1>5, <2>2 DEF ParamsOffset, uint32sum
  <1> QED
    BY <1>1, <1>3, <1>5, <1>6 DEF SlicesFit, HeaderLen

\* A Halo2 proof the batcher accepts is accepted by the library behind the
\* operator, unless a length is beyond the operator's buffer or a part needs the
\* zeros of the batcher's.
LEMMA Halo2Agrees ==
    ASSUME NEW d \in VerificationData, NEW id \in ProvingSystemIds, d.key < UintRange,
           BatcherHalo2(d, id) = "accept"
    PROVE  OperatorHalo2(d, id) = "accept" \/ SizesDiffer(d)
  <1>1. KeyAddsUp(d) /\ Reads(d, {"pub"}) /\ Reads(d, {"proof"}) /\ Holds(d, id)
    BY DEF BatcherHalo2
  <1>2. SlicesFit(d) /\ d.key - ParamsOffset(d) = d.params
    BY <1>1, OffsetsExact
  <1> SUFFICES ASSUME ~SizesDiffer(d)
               PROVE  LibHalo2(d, id) = "accept"
    BY <1>2 DEF OperatorHalo2
  <1>3. /\ d.proof \in Nat /\ d.pub \in Nat /\ d.cs \in Nat /\ d.vk \in Nat /\ d.params \in Nat
        /\ MaxConstraintSystemSize \in Nat /\ MaxVerifierKeySize \in Nat
        /\ MaxParamsSize \in Nat /\ MaxPublicInputSize \in Nat /\ LibProofSize \in Nat
    BY SizeAssumption DEF VerificationData
  <1>4. ~(d.proof > LibProofSize) /\ ~(d.pub > MaxPublicInputSize)
    BY <1>3 DEF SizesDiffer
  <1>5. Reads(d, {"cs"}) /\ Reads(d, {"vk"}) /\ Reads(d, {"params"})
    BY DEF SizesDiffer, Reads
  <1>6. /\ ~(d.cs > MaxConstraintSystemSize) /\ ~(d.vk > MaxVerifierKeySize)
        /\ ~(d.params > MaxParamsSize)
    BY <1>1, <1>3 DEF KeyAddsUp
  <1>7. ~(d.params < d.key - ParamsOffset(d))
    BY <1>2, <1>3
  <1> QED
    BY <1>1, <1>4, <1>5, <1>6, <1>7 DEF LibHalo2

\* The switches agree: what the batcher accepts as a proof of a system, the
\* operator accepts as a proof of that system.
LEMMA SwitchesAgree ==
    ASSUME NEW s \in Data, BatcherVerify(s.d, s.named) = "accept"
    PROVE  \/ OperatorVerify(s.d, s.named) = "accept"
           \/ s.named \in {Halo2KZG, Halo2IPA} /\ SizesDiffer(s.d)
  <1> DEFINE d == s.d
             id == s.named
  <1>1. d \in VerificationData /\ id \in ProvingSystemIds
    BY DataAssumption
  <1> USE DEF GnarkPlonkBls12_381, GnarkPlonkBn254, Groth16Bn254, SP1, Halo2KZG, Halo2IPA
  <1>2. CASE id = SP1
    <2>1. BatcherSp1(d) = "accept"
      BY <1>2 DEF BatcherVerify
    <2>2. Reads(d, {"code"}) /\ Reads(d, {"proof"}) /\ Holds(d, SP1)
      BY <2>1 DEF BatcherSp1
    <2>3. d.proof # 0 /\ d.code # 0
      BY <1>1, <2>2, DataAssumption DEF Reads, VerificationData
    <2>4. OperatorSp1(d) = "accept"
      BY <2>2, <2>3 DEF OperatorSp1
    <2> QED
      BY <1>2, <2>4 DEF OperatorVerify
  <1>3. CASE id \in {Halo2IPA, Halo2KZG}
    <2>1. BatcherHalo2(d, id) = "accept"
      BY <1>3 DEF BatcherVerify
    <2>2. d.key < UintRange
      BY DataAssumption
    <2>3. OperatorHalo2(d, id) = "accept" \/ SizesDiffer(d)
      BY <1>1, <2>1, <2>2, Halo2Agrees
    <2>4. OperatorVerify(d, id) = OperatorHalo2(d, id)
      BY <1>3 DEF OperatorVerify
    <2> QED
      BY <1>3, <2>3, <2>4
  <1>4. CASE id \in {GnarkPlonkBls12_381, GnarkPlonkBn254, Groth16Bn254}
    <2>1. BatcherGnark(d, id) = "accept"
      BY <1>4 DEF BatcherVerify
    <2>2. OperatorVerify(d, id) = OperatorGnark(d, id)
      BY <1>4 DEF OperatorVerify
    <2> QED
      BY <2>1, <2>2 DEF BatcherGnark, OperatorGnark
  <1> QED
    BY <1>1, <1>2, <1>3, <1>4 DEF ProvingSystemIds
-----------------------------------------------------------------------------
\* What is queued was accepted by the batcher, and what an operator has judged
\* it judged as a proof of the system the client named.
PathInv ==
    /\ sent \in Data
    /\ stage \in {"queued", "judged"} => BatcherVerify(sent.d, sent.named) = "accept"
    /\ stage = "judged" => operator = OperatorVerify(sent.d, sent.named)

\* The two steps of a proof keep the invariant.
LEMMA PathStep == PathInv /\ [Next]_vars => PathInv'
  <1> SUFFICES ASSUME PathInv, [Next]_vars
               PROVE  PathInv'
    OBVIOUS
  <1> USE DEF PathInv
  <1>1. CASE BatcherVerifies
    BY <1>1 DEF BatcherVerifies
  <1>2. CASE OperatorVerifies
    <2>1. sent.named \in ProvingSystemIds /\ sent.named # NoSystem
      BY DataAssumption DEF ProvingSystemIds, NoSystem
    <2>2. ProvingSystemIdFromString(SerdeName(sent.named)) = sent.named
      BY <2>1, NamesRoundTrip
    <2>3. operator' = OperatorVerify(sent.d, sent.named)
      BY <1>2, <2>1, <2>2 DEF OperatorVerifies
    <2> QED
      BY <1>2, <2>3 DEF OperatorVerifies
  <1>3. CASE UNCHANGED vars
    BY <1>3 DEF vars
  <1> QED
    BY <1>1, <1>2, <1>3 DEF Next

\* For every proof of every length, a proof in a batch is accepted by every
\* operator, but for the three differences in size between the two programs.
THEOREM VerifiersAlwaysAgree == Spec => []VerifiersAgree
  <1>1. Init => PathInv
    BY DEF Init, PathInv
  <1>2. PathInv => VerifiersAgree
    BY SwitchesAgree DEF PathInv, VerifiersAgree
  <1> QED
    BY <1>1, <1>2, PathStep, PTL DEF Spec
=============================================================================
