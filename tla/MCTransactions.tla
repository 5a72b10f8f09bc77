--------------------------- MODULE MCTransactions ---------------------------
(* Instances of Transactions for TLC. *)
EXTENDS Transactions

(* A centralized server and a cluster, with and without WATCH, on one thread or
   several. *)
AllConfigs ==
    {c \in Config : (c.threads => ~c.watched) /\ (c.threads \/ c.watched => c.abort)}

(* A caller that keeps going after errors, in a cluster. *)
ClusterConfigs == {[clustered |-> TRUE, watched |-> FALSE, abort |-> FALSE, threads |-> FALSE]}
=============================================================================
