----------------------------- MODULE MCOperator -----------------------------
(***************************************************************************)
(* Small instances of Operator.  Lengths of proofs do not matter here, so  *)
(* every proof is one byte; MCProofPath varies them.                       *)
(***************************************************************************)
EXTENDS Operator

CONSTANTS o1, o2, r1, r2

Proof(made, truth) ==
    [made |-> made, given |-> {"pub", "key", "code"}, readable |-> Parts, padded |-> {},
     holds |-> truth, proof |-> 1, pub |-> 1, key |-> 15, code |-> 1,
     cs |-> 1, vk |-> 1, params |-> 1]

Good == [id |-> Groth16Bn254, d |-> Proof(Groth16Bn254, TRUE)]
False == [id |-> GnarkPlonkBn254, d |-> Proof(GnarkPlonkBn254, FALSE)]
Fatal == [id |-> SP1, d |-> [Proof(SP1, TRUE) EXCEPT !.code = 0]]

Stored(size, batch, root) == [size |-> size, parses |-> TRUE, root |-> root, batch |-> batch]

\* Three proofs among which one may be false or fatal for the verifying library
\* and at most one is not good, objects of every kind behind the other pointer.
MixedObjects ==
    [{r1} -> {Stored(1, b, r1) : b \in {<<Good, Good, Good>>, <<Good, False, Good>>,
                                         <<False, Good, False>>, <<Fatal, Good>>}}]
MixedOthers ==
    [{r2} -> {Stored(1, <<Good, False>>, r2), Stored(1, <<>>, r2), Stored(2, <<Good>>, r2),
              Stored(NoLength, <<Good>>, r2), [Stored(1, <<Good>>, r2) EXCEPT !.parses = FALSE]}]
AllObjects == {[r \in {r1, r2} |-> IF r = r1 THEN f[r] ELSE g[r]] :
                  f \in MixedObjects, g \in MixedOthers}

SoundObjects == {[r \in Roots |-> Stored(1, <<Good>>, r)]}

\* A pointer that names another batch than the root's.
Misplaced == {[r \in Roots |-> Stored(1, <<Good>>, r2)]}

EqualStake == {[b \in Blocks |-> [o \in Operators |-> 1]]}
=============================================================================
