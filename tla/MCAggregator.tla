---------------------------- MODULE MCAggregator ----------------------------
(***************************************************************************)
(* Bounds for the aggregator with the contract.  Two operators; in blocks  *)
(* 0 and 1 each owns half of the stake and a quorum needs both, from block *)
(* 2 on operator a owns 67 of 100 and is a quorum alone.                   *)
(***************************************************************************)
EXTENDS Aggregator, TLC

CONSTANTS a, b

Equal == (a :> 50) @@ (b :> 50)
Skewed == (a :> 67) @@ (b :> 33)

\* Roots and calls are interchangeable; the operators are not.
MCSymmetry == Permutations(Roots) \cup Permutations(Calls)

MCHistories == {[n \in 0..MaxBlock |-> IF n < 2 THEN Equal ELSE Skewed]}

\* For liveness: one signature of operator a is always a quorum.
MCSkewed == {[n \in 0..MaxBlock |-> Skewed]}
=============================================================================
