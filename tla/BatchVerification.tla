------------------------- MODULE BatchVerification -------------------------
(***************************************************************************)
(* What Aligned Layer promises about a batch, whoever creates it, signs it *)
(* or reports it.  A batch is named by its Merkle root.  It is created at  *)
(* most once; its creation freezes the stake table that will judge it; it  *)
(* is verified at most once, and only by operators that endorsed it and    *)
(* own a quorum of the frozen table.  Nothing is ever taken back.          *)
(***************************************************************************)
CONSTANTS Roots,         \* Merkle roots of batches
          Operators,     \* the operators that may ever register
          StakeTables,   \* the stake tables a batch can be judged by
          IsQuorum(_, _) \* whether a set of operators is a quorum of a table

VARIABLES status,        \* status[r]: "absent", "created" or "verified"
          judge,         \* judge[r]: the stake table frozen when r was created
          endorsed       \* endorsed[r]: the operators that signed r

vars == <<status, judge, endorsed>>

NoTable == [o \in Operators |-> 0]

Init ==
    /\ status = [r \in Roots |-> "absent"]
    /\ judge = [r \in Roots |-> NoTable]
    /\ endorsed = [r \in Roots |-> {}]

Create(r) ==
    /\ status[r] = "absent"
    /\ status' = [status EXCEPT ![r] = "created"]
    /\ \E table \in StakeTables : judge' = [judge EXCEPT ![r] = table]
    /\ UNCHANGED endorsed

Endorse(o, r) ==
    /\ endorsed' = [endorsed EXCEPT ![r] = @ \cup {o}]
    /\ UNCHANGED <<status, judge>>

Verify(r) ==
    /\ status[r] = "created"
    /\ \E S \in SUBSET endorsed[r] : IsQuorum(S, judge[r])
    /\ status' = [status EXCEPT ![r] = "verified"]
    /\ UNCHANGED <<judge, endorsed>>

Next ==
    \E r \in Roots :
        \/ Create(r)
        \/ Verify(r)
        \/ \E o \in Operators : Endorse(o, r)

Spec == Init /\ [][Next]_vars
=============================================================================
