----------------------------- MODULE MCBatcher -----------------------------
(***************************************************************************)
(* Bounds for the batcher.  Two clients: the first sends three proofs, two *)
(* of them equal, as `aligned submit --repetitions` does; the second sends *)
(* a proof, one that is refused, and one that is never read.               *)
(* Sizes of 3 and 5 against a batch of at most 10 reach every case of the  *)
(* split: two messages fit or do not, alone or with their brackets and     *)
(* commas.                                                                 *)
(***************************************************************************)
EXTENDS Batcher, TLC

CONSTANTS c1, c2, m1, m2, m3, m4, m5, m6, x, y, z

MCSends == (c1 :> <<m1, m2, m3>>) @@ (c2 :> <<m4, m5, m6>>)
\* For liveness: four proofs, all accepted.
MCTwoSenders == (c1 :> <<m1, m2, m3>>) @@ (c2 :> <<m4>>)

MCContent == [m \in {m1, m2} |-> x] @@ [m \in {m3, m5, m6} |-> y] @@ (m4 :> z)
MCAcceptable == {m1, m2, m3, m4, m6} \cap Messages
=============================================================================
