------------------------------ MODULE MCStartup ------------------------------
(***************************************************************************)
(* An aggregator, two operators on one host whose metrics have the same    *)
(* address, a deposit for each and one that is refused, the register       *)
(* command beside the start of the first, and a task sender.  The second   *)
(* operator is configured with the address of the first.                   *)
(***************************************************************************)
EXTENDS Startup

Process(kind, key, amount, listens) ==
    [kind |-> kind, key |-> key, address |-> key, amount |-> amount, listens |-> listens,
     dials |-> "8090"]

MCProcesses == {"agg", "op1", "op2", "reg1", "dep1", "dep2", "dep0", "snd"}

MCProc ==
    [p \in MCProcesses |->
        CASE p = "agg" -> Process("aggregator", "k0", 0, {"8090", "9091"})
          [] p = "op1" -> Process("operator", "k1", 0, {"9092"})
          [] p = "op2" -> [Process("operator", "k2", 0, {"9092"}) EXCEPT !.address = "k1"]
          [] p = "reg1" -> Process("register", "k1", 0, {})
          [] p = "dep1" -> Process("deposit", "k1", 1, {})
          [] p = "dep2" -> Process("deposit", "k2", 1, {})
          [] p = "dep0" -> Process("deposit", "k0", -1, {})
          [] p = "snd" -> Process("sender", "k0", 0, {})]

\* One BLS key pair for each ECDSA key.
Whole == [p \in MCProcesses |->
             [items |-> Items, bls |-> CASE Proc[p].key = "k1" -> "b1"
                                         [] Proc[p].key = "k2" -> "b2"
                                         [] OTHER -> "b0"]]
Lacks(f, q, i) == [f EXCEPT ![q].items = @ \ {i}]
\* Only these have a configuration file; the others never start.
Only(ps) == [p \in MCProcesses |-> [Whole[p] EXCEPT !.items = IF p \in ps THEN @ ELSE {}]]

OneKey == Only({"agg", "op1", "op2", "reg1", "dep1"})
TwoKeys == Only({"agg", "op1", "op2", "dep1", "dep2"})
Alone == Only({"agg", "op1", "reg1", "dep1", "dep0", "snd"})

\* The operators share a metrics address and the second names the first's
\* address, with and without a deposit of its own; one item of a configuration is
\* missing; an operator starts with another BLS key pair than its register
\* command, or with that of the other operator.
MCFiles ==
    {OneKey, TwoKeys, Alone} \cup {Lacks(Alone, "reg1", i) : i \in {"ws url", "bls key"}}
    \cup {Lacks(Alone, "op1", "aggregator address"), Lacks(Alone, "agg", "bls key"),
          [Alone EXCEPT !["op1"].bls = "b3"], [TwoKeys EXCEPT !["op2"].bls = "b1"]}
=============================================================================
