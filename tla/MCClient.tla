------------------------------ MODULE MCClient -------------------------------
(***************************************************************************)
(* Instances of parts of a client around the command router: the blocking  *)
(* policies, the life of a client, and replicas.  A behaviour is one of    *)
(* one of them; the others are quiet, in a state none of their tasks       *)
(* leaves by itself.                                                       *)
(***************************************************************************)
EXTENDS Blocking, Lifecycle, Replicas

VARIABLE part   \* the part that moves

MCInit ==
    /\ part \in {"blocking", "lifecycle", "replicas"}
    /\ IF part = "blocking" THEN BlockingInit ELSE BlockingStart("Block")
    /\ IF part = "lifecycle" THEN LifecycleInit ELSE LifecycleStart(TRUE)
    /\ IF part = "replicas" THEN ReplicasInit ELSE (ReplicasStart(TRUE, TRUE, TRUE) /\ table = SetToSeq(ReplicaNodes) /\ errorCount = 0)

MCNext ==
    \/ part = "blocking" /\ BlockingNext /\ UNCHANGED <<part, lifecycleVars, replicaVars>>
    \/ part = "lifecycle" /\ LifecycleNext /\ UNCHANGED <<part, blockingVars, replicaVars>>
    \/ part = "replicas" /\ ReplicasNext /\ UNCHANGED <<part, blockingVars, lifecycleVars>>

(* Where a part is quiet none of its fair actions is enabled. *)
MCFairness == BlockingFairness /\ LifecycleFairness /\ ReplicasFairness

MCSpec == MCInit /\ [][MCNext]_<<part, blockingVars, lifecycleVars, replicaVars>> /\ MCFairness
=============================================================================
