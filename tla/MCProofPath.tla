---------------------------- MODULE MCProofPath -----------------------------
(***************************************************************************)
(* Small sizes instead of kilobytes: every comparison of lengths that the  *)
(* code makes falls both ways, and 32 as the range of uint32 lets a sum of *)
(* offsets wrap around.                                                    *)
(***************************************************************************)
EXTENDS ProofPath

\* All proving systems, named truly or not, with fields missing or unreadable.
\* What is not there, or is empty, does not decode.
Mixed ==
    {[named |-> n,
      d |-> [made |-> m, given |-> g, readable |-> r \cup {"cs", "vk", "params"},
             padded |-> {}, holds |-> h, proof |-> 1, pub |-> 1, key |-> 15, code |-> c,
             cs |-> 1, vk |-> 1, params |-> 1]] :
         n \in ProvingSystemIds, m \in ProvingSystemIds,
         g \in SUBSET {"pub", "key", "code"},
         r \in SUBSET {"proof", "pub", "key", "code"}, h \in BOOLEAN, c \in {0, 1}}

Sensible(s) ==
    /\ {"pub", "key", "code"} \cap s.d.readable \subseteq s.d.given
    /\ "code" \in s.d.readable => s.d.code > 0

\* Halo2 keys of every shape around the limits.
Keys ==
    {[named |-> n,
      d |-> [made |-> n, given |-> {"pub", "key"}, readable |-> Parts \ (u \cup {"code"}),
             padded |-> p, holds |-> TRUE, proof |-> l, pub |-> i, key |-> k, code |-> 0,
             cs |-> c, vk |-> v, params |-> q]] :
         n \in {Halo2KZG, Halo2IPA}, u \in {{}, {"cs"}, {"params"}}, p \in {{}, {"cs", "params"}},
         l \in {1, 2}, i \in {1, 2}, k \in {0} \cup 11..18,
         c \in {0, 1, 2, 3, 20, 31}, v \in {0, 1, 2, 3, 19}, q \in 0..3}

MCData == {s \in Mixed : Sensible(s)} \cup Keys
=============================================================================
