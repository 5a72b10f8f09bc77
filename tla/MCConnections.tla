---------------------------- MODULE MCConnections ----------------------------
(***************************************************************************)
(* Instances of what the router does with its connections: sentinels that  *)
(* name the primary, unresponsive connections, and responses of every      *)
(* kind, in pipelines over several nodes and in combinations whose frames  *)
(* meet in one shared buffer.  A behaviour is one of one of these parts;   *)
(* the others are quiet, in a state none of their tasks leaves by itself.  *)
(***************************************************************************)
EXTENDS Discovery, Unresponsive, MCResponders

VARIABLE part   \* the part that moves

MCDeployments == {[hosts |-> <<"s1", "s2", "s3">>, database |-> TRUE],
                  [hosts |-> <<"s1", "s2">>, database |-> FALSE],
                  [hosts |-> <<"s1">>, database |-> FALSE]}

(* A connected client with sentinels, and one with a connection to its primary. *)
DiscoveryQuiet ==
    /\ deployment \in MCDeployments /\ Len(deployment.hosts) = 1
    /\ sentinelsUp = Sentinels
    /\ master = (CHOOSE n \in RedisNodes : TRUE) /\ view = [s \in Sentinels |-> master]
    /\ sentinels = Configured /\ primary = master
    /\ writer = master /\ setupOf = ToSet(SetupSteps) /\ mastersOf = {master}
    /\ phase = "idle" /\ hosts = <<>> /\ informant = NoServer /\ candidate = NoServer
    /\ step = 1 /\ done = {} /\ masters = {}
    /\ faults = 0 /\ failovers = 0 /\ outages = 0

UnresponsiveQuiet ==
    /\ leader = (CHOOSE s \in ShardServers : TRUE)
    /\ readerOf = [x \in Links |-> IF x = Primary(leader) THEN "reading" ELSE "none"]
    /\ awaiting = [x \in Links |-> <<>>] /\ silent = {}
    /\ watched = {leader} /\ interrupts = [s \in ShardServers |-> IF s = leader THEN Primary(s) ELSE NoLink]
    /\ inbox = {} /\ checker = "asleep" /\ found = {}
    /\ station = "idle" /\ flow = "reconnect" /\ mail = {} /\ resend = <<>> /\ onceReplica = {}
    /\ written = 0 /\ silences = 0 /\ promotions = 0 /\ unresponsiveQuits = 0

MCInit ==
    /\ part \in {"discovery", "unresponsive", "responders"}
    /\ IF part = "discovery" THEN DiscoveryInit ELSE DiscoveryQuiet
    /\ IF part = "unresponsive" THEN UnresponsiveInit ELSE UnresponsiveQuiet
    /\ IF part = "responders" THEN Init ELSE Start(<<>>)

MCNext ==
    \/ part = "discovery" /\ DiscoveryNext /\ UNCHANGED <<part, unresponsiveVars, vars>>
    \/ part = "unresponsive" /\ UnresponsiveNext /\ UNCHANGED <<part, discoveryVars, vars>>
    \/ part = "responders" /\ Next /\ UNCHANGED <<part, discoveryVars, unresponsiveVars>>

(* Where a part is quiet none of its fair actions is enabled. *)
MCFairness == DiscoveryFairness /\ UnresponsiveFairness /\ Fairness

MCSpec == MCInit /\ [][MCNext]_<<part, discoveryVars, unresponsiveVars, vars>> /\ MCFairness
=============================================================================
