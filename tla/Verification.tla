---------------------------- MODULE Verification ----------------------------
(***************************************************************************)
(* What the batcher and an operator do with one proof: the conversion of   *)
(* the proving system's name, the choice of a verifier, the cutting of a   *)
(* Halo2 key into its parts, and the verdict.  Both programs are to judge  *)
(* a proof alike; they are written twice, in Rust and in Go, with buffers  *)
(* of different sizes in between.                                          *)
(*                                                                         *)
(* A proof is described by its lengths and by which of its parts decode;   *)
(* the cryptographic libraries are external.  A verdict is "accept",       *)
(* "reject", or "panic": the Go process ends, the batcher's task ends.     *)
(***************************************************************************)
EXTENDS Integers

CONSTANTS MaxProofSize,              \* 8 KiB: the operator's buffer for a proof
          LibProofSize,              \* 4 KiB: what the library behind it takes
          MaxConstraintSystemSize,   \* 2 KiB
          MaxVerifierKeySize,        \* 1 KiB
          MaxParamsSize,             \* 4 KiB
          MaxPublicInputSize,        \* 4 KiB
          UintRange                  \* 2^32: lengths and offsets are uint32

ASSUME SizeAssumption ==
    /\ {MaxProofSize, LibProofSize, MaxConstraintSystemSize, MaxVerifierKeySize,
        MaxParamsSize, MaxPublicInputSize} \subseteq Nat
    /\ LibProofSize <= MaxProofSize
    /\ UintRange \in Nat \ {0}

HeaderLen == 12    \* three uint32 before the parts of a Halo2 key
-----------------------------------------------------------------------------
\* The identifiers are numbered by iota; JSON carries the names.
ProvingSystemIds == 0..5
GnarkPlonkBls12_381 == 0
GnarkPlonkBn254 == 1
Groth16Bn254 == 2
SP1 == 3
Halo2KZG == 4
Halo2IPA == 5

ProvingSystemNames ==
    {"GnarkPlonkBls12_381", "GnarkPlonkBn254", "Groth16Bn254", "SP1", "Halo2KZG", "Halo2IPA"}

NoSystem == -1     \* the error "unknown proving system"

ProvingSystemIdFromString(name) ==
    CASE name = "GnarkPlonkBls12_381" -> GnarkPlonkBls12_381
      [] name = "GnarkPlonkBn254" -> GnarkPlonkBn254
      [] name = "Groth16Bn254" -> Groth16Bn254
      [] name = "SP1" -> SP1
      [] name = "Halo2KZG" -> Halo2KZG
      [] name = "Halo2IPA" -> Halo2IPA
      [] OTHER -> NoSystem

\* Mutant: the table of String(), which has no entry for Halo2KZG.
ProvingSystemIdToString_AsString(id) ==
    CASE id = GnarkPlonkBls12_381 -> "GnarkPlonkBls12_381"
      [] id = GnarkPlonkBn254 -> "GnarkPlonkBn254"
      [] id = Groth16Bn254 -> "Groth16Bn254"
      [] id = SP1 -> "SP1"
      [] id = Halo2KZG -> "Halo2IPA"
      [] OTHER -> "error"

ProvingSystemIdToString(id) ==
    CASE id = GnarkPlonkBls12_381 -> "GnarkPlonkBls12_381"
      [] id = GnarkPlonkBn254 -> "GnarkPlonkBn254"
      [] id = Groth16Bn254 -> "Groth16Bn254"
      [] id = SP1 -> "SP1"
      [] id = Halo2KZG -> "Halo2KZG"
      [] id = Halo2IPA -> "Halo2IPA"
      [] OTHER -> "error"
-----------------------------------------------------------------------------
Parts == {"proof", "pub", "key", "code", "cs", "vk", "params"}

\* made: the system the proof was made for; given: the optional fields that
\* are there; readable: the parts whose bytes decode, padded: those that
\* decode only with zeros behind them; holds: the statement is true.  cs, vk
\* and params are the lengths that the header of a Halo2 key declares.
VerificationData ==
    [made : ProvingSystemIds, given : SUBSET {"pub", "key", "code"},
     readable : SUBSET Parts, padded : SUBSET Parts, holds : BOOLEAN,
     proof : Nat, pub : Nat, key : Nat, code : Nat, cs : Nat, vk : Nat, params : Nat]

Reads(d, parts) == parts \subseteq d.readable
Holds(d, id) == d.made = id /\ d.holds

\* verifyPlonkProof and verifyGroth16Proof, by the operator: three decoders
\* one after the other, then the library.  A missing field is empty.
OperatorGnark(d, id) ==
    IF Reads(d, {"proof", "pub", "key"}) /\ Holds(d, id) THEN "accept" ELSE "reject"

\* The same functions again, linked into the batcher.
BatcherGnark(d, id) ==
    IF Reads(d, {"proof", "pub", "key"}) /\ Holds(d, id) THEN "accept" ELSE "reject"

\* The address of a first byte is taken, then the proof is decoded before the
\* program is set up.
OperatorSp1(d) ==
    CASE d.proof = 0 \/ d.code = 0 -> "panic"
      [] ~Reads(d, {"proof"}) -> "reject"
      [] ~Reads(d, {"code"}) -> "panic"
      [] OTHER -> IF Holds(d, SP1) THEN "accept" ELSE "reject"

BatcherSp1(d) ==
    CASE "code" \notin d.given -> "reject"
      [] ~Reads(d, {"code"}) -> "panic"
      [] OTHER -> IF Reads(d, {"proof"}) /\ Holds(d, SP1) THEN "accept" ELSE "reject"

uint32sum(m, n) == (m + n) % UintRange

\* Mutant: the verifying key is looked for where the constraint system begins.
VkOffset_Header(d) == HeaderLen

\* Where the operator finds the verifying key and the parameters of a Halo2
\* key, computed in uint32.
VkOffset(d) == uint32sum(HeaderLen, d.cs)
ParamsOffset(d) == uint32sum(VkOffset(d), d.vk)

\* The slice expressions do not panic.
SlicesFit(d) ==
    /\ HeaderLen <= VkOffset(d)
    /\ VkOffset(d) <= ParamsOffset(d)
    /\ ParamsOffset(d) <= d.key

\* verify_halo2_*_proof_ffi: every slice of a buffer is bounded by the declared
\* length, and a panic inside the foreign function aborts the process.
LibHalo2(d, id) ==
    CASE d.cs > MaxConstraintSystemSize -> "panic"
      [] ~Reads(d, {"cs"}) -> "reject"
      [] d.vk > MaxVerifierKeySize -> "panic"
      [] ~Reads(d, {"vk"}) -> "reject"
      [] d.params > MaxParamsSize -> "panic"
      [] ~Reads(d, {"params"}) \/ d.params < d.key - ParamsOffset(d) -> "reject"
      [] d.pub > MaxPublicInputSize \/ ~Reads(d, {"pub"}) -> "panic"
      [] d.proof > LibProofSize -> "panic"
      [] OTHER -> IF Reads(d, {"proof"}) /\ Holds(d, id) THEN "accept" ELSE "reject"

\* Parts longer than their buffers are cut; their length is passed uncut.
OperatorHalo2(d, id) ==
    IF SlicesFit(d) THEN LibHalo2(d, id) ELSE "panic"

\* verify_halo2_ipa and verify_halo2_kzg: the lengths must add up to the key's,
\* and the parts are decoded from buffers filled up with zeros.
KeyAddsUp(d) ==
    /\ d.key >= HeaderLen
    /\ d.cs <= MaxConstraintSystemSize
    /\ d.vk <= MaxVerifierKeySize
    /\ d.params <= MaxParamsSize
    /\ d.params = d.key - HeaderLen - d.cs - d.vk

BatcherHalo2(d, id) ==
    CASE ~KeyAddsUp(d) -> "panic"
      [] ~({"cs", "vk", "params"} \subseteq d.readable \cup d.padded) -> "reject"
      [] ~Reads(d, {"pub"}) -> "panic"
      [] OTHER -> IF Reads(d, {"proof"}) /\ Holds(d, id) THEN "accept" ELSE "reject"

\* Operator.verify: the switch over the system the batch names.
OperatorVerify(d, id) ==
    CASE id \in {GnarkPlonkBls12_381, GnarkPlonkBn254, Groth16Bn254} -> OperatorGnark(d, id)
      [] id = SP1 -> OperatorSp1(d)
      [] id \in {Halo2IPA, Halo2KZG} -> OperatorHalo2(d, id)
      [] OTHER -> "reject"

\* zk_utils::verify: a missing key or public input panics, save for SP1.
BatcherVerify(d, id) ==
    CASE id = SP1 -> BatcherSp1(d)
      [] ~({"pub", "key"} \subseteq d.given) -> "panic"
      [] id \in {Halo2IPA, Halo2KZG} -> BatcherHalo2(d, id)
      [] OTHER -> BatcherGnark(d, id)
=============================================================================
