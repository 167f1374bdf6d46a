---------------------------- MODULE MCTaskSender ----------------------------
(***************************************************************************)
(* Two processes, started as any two commands with any flags of Inputs.    *)
(***************************************************************************)
EXTENDS TaskSender

CONSTANTS s1, s2

Command(mode, name, id) ==
    [mode |-> mode, system |-> name, made |-> id, given |-> {"proof", "pub", "key"},
     files |-> [proof |-> 0, pub |-> 0, key |-> 0]]

Examples(mode) ==
    {Command(mode, "plonk_bls12_381", GnarkPlonkBls12_381),
     Command(mode, "plonk_bn254", GnarkPlonkBn254),
     Command(mode, "groth16_bn254", Groth16Bn254), Command(mode, "sp1", SP1),
     Command(mode, "halo2_kzg", Halo2KZG), Command(mode, "halo2_ipa", Halo2IPA),
     Command(mode, "risc0", SP1),
     [Command(mode, "sp1", SP1) EXCEPT !.given = {"proof", "pub"}],
     [Command(mode, "groth16_bn254", Groth16Bn254) EXCEPT !.files.key = 1]}

Endless == Command("infinite", "groth16_bn254", Groth16Bn254)
Groth16(mode) == Command(mode, "groth16_bn254", Groth16Bn254)

\* Two that share a directory, two that send one file, and any other one beside
\* an endless one.
MCStarts ==
    {f \in [{s1, s2} -> Examples("send") \cup Examples("loop") \cup {Endless}] :
        \/ f[s1] = Endless
        \/ f[s1] = Groth16("loop") /\ f[s2] \in {Groth16("loop"), Groth16("send")}}

\* The contents that these processes can make.
MCRoots ==
    [id : {Groth16Bn254}, made : {Groth16Bn254}, proof : Setups \cup {Empty},
     key : Setups \cup {Empty}, pub : BOOLEAN]
    \cup {[id |-> i, made |-> i, proof |-> 0, key |-> 0, pub |-> TRUE] : i \in ProvingSystemIds}

NoStake == {[b \in Blocks |-> [o \in Operators |-> 0]]}
=============================================================================
