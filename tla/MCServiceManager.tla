-------------------------- MODULE MCServiceManager --------------------------
(***************************************************************************)
(* Bounds for the contract alone: two roots, three operators, four blocks. *)
(* The tables are chosen on both sides of 67 per cent: 66 of 100 is no     *)
(* quorum, 67 of 100 is one, two of three equal stakes are none, and an    *)
(* operator's stake moves between the blocks.                              *)
(***************************************************************************)
EXTENDS AlignedLayerServiceManager, TLC

CONSTANTS a, b, c

Table(x, y, z) == (a :> x) @@ (b :> y) @@ (c :> z)

MCTables == {Table(67, 33, 0), Table(66, 34, 0), Table(1, 1, 1), Table(0, 33, 67)}

\* No batch is judged by block 0, so its table is fixed.
MCHistories == {h \in [0..MaxBlock -> MCTables] : h[0] = Table(1, 1, 1)}
=============================================================================
