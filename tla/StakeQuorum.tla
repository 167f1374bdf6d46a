---------------------------- MODULE StakeQuorum ----------------------------
(***************************************************************************)
(* The quorum rule of Aligned Layer.  A stake table maps every operator to *)
(* the stake it has registered; a set of signers is a quorum of the table  *)
(* when it owns at least 67 per cent of the total.  The contract applies   *)
(* the rule in respondToTask and the aggregator's BLS service applies it   *)
(* before it calls the contract.                                           *)
(***************************************************************************)
EXTENDS Integers, FiniteSetsExt

THRESHOLD_DENOMINATOR == 100
QUORUM_THRESHOLD_PERCENTAGE == 67

\* The stake owned together by the operators of S.
Weight(S, stake) == MapThenSumSet(LAMBDA o : stake[o], S)

\* The test of respondToTask: multiplied out, so that nothing is rounded.
MeetsThreshold(S, everyone, stake) ==
    Weight(S, stake) * THRESHOLD_DENOMINATOR
        >= Weight(everyone, stake) * QUORUM_THRESHOLD_PERCENTAGE
=============================================================================
