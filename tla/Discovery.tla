------------------------------ MODULE Discovery ------------------------------
(***************************************************************************)
(* Connecting through sentinels, and the handshake of every connection.    *)
(* The client asks a sentinel for the primary, connects to it, runs the    *)
(* setup requests, verifies the role of the server and only then replaces  *)
(* its cached sentinels and its writer.  Meanwhile the primary changes,    *)
(* sentinels answer from a view of their own, and any request may fail.    *)
(***************************************************************************)
EXTENDS Naturals, Sequences, Functions

CONSTANTS
    Deployments,       \* the configurations to consider: hosts of ServerConfig::Sentinel
                       \* in order, and whether config.database is set
    RedisNodes,        \* the servers that can be primary
    DiscoveryFaults,   \* bound: requests that fail
    Failovers,         \* bound: changes of the primary
    Outages            \* bound: sentinels that go down, and lost writers

VARIABLES
    deployment,   \* a member of Deployments
    sentinelsUp,  \* the sentinels that answer
    master,       \* the primary
    view,         \* the primary according to each sentinel
    sentinels,    \* ServerKind::Sentinel: the cached sentinel nodes
    primary,      \* and the cached primary
    phase,        \* where initialize_connection is
    hosts,        \* the sentinels it has still to try
    informant,    \* the sentinel it talks to
    candidate,    \* the server it connects to
    step,         \* the next setup request
    done,         \* the setup requests that succeeded on that connection
    masters,      \* history: the primaries since the attempt began
    writer,       \* the server the writer is connected to
    setupOf,      \* history: the setup of the writer's connection
    mastersOf,    \* history: the primaries during the attempt that made it
    faults,
    failovers,
    outages

attemptVars == <<phase, hosts, informant, candidate, step, done, masters>>
cacheVars == <<sentinels, primary, writer, setupOf, mastersOf>>
worldVars == <<deployment, sentinelsUp, master, view>>
discoveryVars == <<worldVars, cacheVars, attemptVars, faults, failovers, outages>>

NoServer == "none"
Configured == deployment.hosts
HasDatabase == deployment.database
Sentinels == Range(Configured)
AllSentinels == UNION {Range(d.hosts) : d \in Deployments}
SetupSteps == <<"authenticate", "set_client_name", "select_database", "cache_connection_id",
                "cache_server_version">>
Optional == {"cache_connection_id", "cache_server_version"}

DiscoveryStart(d) ==
    /\ deployment = d
    /\ sentinelsUp = Sentinels
    /\ master = (CHOOSE n \in RedisNodes : TRUE) /\ view = [s \in Sentinels |-> master]
    /\ sentinels = Configured /\ primary = NoServer
    /\ writer = NoServer /\ setupOf = {} /\ mastersOf = {}
    /\ phase = "idle" /\ hosts = <<>> /\ informant = NoServer /\ candidate = NoServer
    /\ step = 1 /\ done = {} /\ masters = {}
    /\ faults = 0 /\ failovers = 0 /\ outages = 0

DiscoveryInit == \E d \in Deployments : DiscoveryStart(d)

(* A slip: an empty cache stays empty. *)
read_sentinel_nodes_cached == sentinels

read_sentinel_nodes == IF sentinels = <<>> THEN Configured ELSE sentinels

(* initialize_connection: the writer is gone by now (disconnect_all). *)
BeginDiscovery ==
    /\ phase = "idle" /\ writer = NoServer
    /\ phase' = "sentinel"
    /\ hosts' = read_sentinel_nodes
    /\ informant' = NoServer /\ candidate' = NoServer /\ step' = 1 /\ done' = {} /\ masters' = {master}
    /\ UNCHANGED <<worldVars, cacheVars, faults, failovers, outages>>

(* An error ends the attempt; the reconnection policy starts another. *)
AttemptFails ==
    /\ phase' = "idle"
    /\ UNCHANGED <<worldVars, cacheVars, hosts, informant, candidate, step, done, masters, failovers, outages>>

Fault == faults < DiscoveryFaults /\ faults' = faults + 1

(* connect_to_sentinel tries one host after the other. *)
connect_to_sentinel ==
    /\ phase = "sentinel" /\ hosts # <<>>
    /\ hosts' = Tail(hosts)
    /\ \/ Head(hosts) \in sentinelsUp /\ informant' = Head(hosts) /\ phase' = "lookup" /\ UNCHANGED faults
       \/ Head(hosts) \notin sentinelsUp /\ UNCHANGED <<informant, phase, faults>>
       \/ Head(hosts) \in sentinelsUp /\ Fault /\ UNCHANGED <<informant, phase>>
    /\ UNCHANGED <<worldVars, cacheVars, candidate, step, done, masters, failovers, outages>>

NoSentinelLeft ==
    /\ phase = "sentinel" /\ hosts = <<>>
    /\ UNCHANGED faults
    /\ AttemptFails

(* discover_primary_node: the sentinel's view, then a connection to that server. *)
discover_primary_node ==
    /\ phase = "lookup" /\ informant \in sentinelsUp
    /\ candidate' = view[informant]
    /\ phase' = "setup"
    /\ UNCHANGED <<worldVars, cacheVars, hosts, informant, step, done, masters, faults, failovers, outages>>

(* Any request of the attempt may fail, or its sentinel be gone. *)
RequestFails ==
    /\ phase \in {"lookup", "setup", "role", "update"}
    /\ IF phase \in {"lookup", "update"} /\ informant \notin sentinelsUp THEN UNCHANGED faults ELSE Fault
    /\ AttemptFails

(* A slip: an error reply to SELECT is not looked at. *)
TolerantSetup == Optional \union {"select_database"}

(* The requests whose error reply does not end the setup. *)
Tolerant == Optional

(* One request of setup.  Its reply is a success, an error the request tolerates, or an
   error that ends the attempt; without a database nothing is selected. *)
setup ==
    /\ phase = "setup"
    /\ step' = step + 1
    /\ phase' = IF step = Len(SetupSteps) THEN "role" ELSE "setup"
    /\ \/ done' = done \union {SetupSteps[step]} /\ UNCHANGED faults
       \/ SetupSteps[step] \in Tolerant /\ Fault /\ UNCHANGED done
       \/ SetupSteps[step] = "select_database" /\ ~HasDatabase /\ UNCHANGED <<done, faults>>
    /\ UNCHANGED <<worldVars, cacheVars, hosts, informant, candidate, masters, failovers, outages>>

(* check_primary_node_role asks the server itself. *)
IsMaster == candidate = master

check_primary_node_role ==
    /\ phase = "role"
    /\ UNCHANGED faults
    /\ IF IsMaster
       THEN /\ phase' = "update"
            /\ UNCHANGED <<worldVars, cacheVars, hosts, informant, candidate, done, step, masters, failovers,
                           outages>>
       ELSE AttemptFails

(* SENTINEL SENTINELS: the sentinel lists the others, never itself. *)
Others(s) == SelectSeq(Configured, LAMBDA t : t # s)

(* read_sentinels: frame_to_results returns the element of a one-element array, here the
   fields of the only other sentinel, and parse_sentinel_nodes_response cannot read
   strings as nodes. *)
Readable(nodes) == Len(nodes) # 1

(* update_cached_client_state: the list replaces the cached one, and the connection
   becomes the writer. *)
update_cached_client_state ==
    /\ phase = "update" /\ informant \in sentinelsUp
    /\ UNCHANGED faults
    /\ IF Readable(Others(informant))
       THEN /\ sentinels' = Others(informant)
            /\ primary' = candidate /\ writer' = candidate
            /\ setupOf' = done /\ mastersOf' = masters
            /\ phase' = "idle"
            /\ UNCHANGED <<worldVars, hosts, informant, candidate, done, step, masters, failovers, outages>>
       ELSE AttemptFails

LoseWriter ==
    /\ writer # NoServer /\ outages < Outages
    /\ outages' = outages + 1
    /\ writer' = NoServer
    /\ UNCHANGED <<worldVars, attemptVars, sentinels, primary, setupOf, mastersOf, faults, failovers>>

(* The deployment: failovers, views that catch up, sentinels that come and go. *)
Failover(n) ==
    /\ failovers < Failovers /\ n # master
    /\ failovers' = failovers + 1
    /\ master' = n
    /\ masters' = masters \union {n}
    /\ UNCHANGED <<deployment, sentinelsUp, view, cacheVars, phase, hosts, informant, candidate, done, step, faults,
                   outages>>

ViewCatchesUp(s) ==
    /\ s \in Sentinels /\ view[s] # master
    /\ view' = [view EXCEPT ![s] = master]
    /\ UNCHANGED <<deployment, sentinelsUp, master, cacheVars, attemptVars, faults, failovers, outages>>

SentinelDown(s) ==
    /\ s \in sentinelsUp /\ outages < Outages
    /\ outages' = outages + 1
    /\ sentinelsUp' = sentinelsUp \ {s}
    /\ UNCHANGED <<deployment, master, view, cacheVars, attemptVars, faults, failovers>>

SentinelBack(s) ==
    /\ s \in Sentinels \ sentinelsUp
    /\ sentinelsUp' = sentinelsUp \union {s}
    /\ UNCHANGED <<deployment, master, view, cacheVars, attemptVars, faults, failovers, outages>>

Attempt ==
    \/ BeginDiscovery \/ connect_to_sentinel \/ NoSentinelLeft \/ discover_primary_node \/ setup
    \/ check_primary_node_role \/ update_cached_client_state \/ RequestFails

DiscoveryNext ==
    \/ Attempt
    \/ LoseWriter
    \/ \E n \in RedisNodes : Failover(n)
    \/ \E s \in AllSentinels : ViewCatchesUp(s) \/ SentinelDown(s) \/ SentinelBack(s)

DiscoverySpec == DiscoveryInit /\ [][DiscoveryNext]_discoveryVars

(* The client keeps trying, and sentinels learn of a failover.  Nothing brings a
   sentinel back. *)
DiscoveryFairness ==
    WF_discoveryVars(Attempt) /\ \A s \in AllSentinels : WF_discoveryVars(ViewCatchesUp(s))

DiscoveryFairSpec == DiscoverySpec /\ DiscoveryFairness
-----------------------------------------------------------------------------
(* Commands go to a server that was the primary while the connection was made, over a
   connection on which every setup request that may not fail succeeded, whatever stale
   view the sentinel had and whenever the failover happened. *)
WriterReady ==
    writer # NoServer =>
        /\ writer \in mastersOf
        /\ {"authenticate", "set_client_name"} \subseteq setupOf
        /\ HasDatabase => "select_database" \in setupOf

(* Of two sentinels, each lists one other, which read_sentinels cannot read. *)
ListUnreadable == \E s \in Sentinels : ~Readable(Others(s))

(* If all sentinels are up from some time on, the client is connected from some time on:
   a list of sentinels that became empty is replaced by the configured one.  A client of
   two sentinels is never connected. *)
ConnectsAgain ==
    /\ ListUnreadable => [](writer = NoServer)
    /\ ~ListUnreadable => (<>[](sentinelsUp = Sentinels) => <>[](writer # NoServer))

=============================================================================
