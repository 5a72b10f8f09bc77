---------------------------- MODULE Unresponsive ----------------------------
(***************************************************************************)
(* The check for unresponsive connections (feature check-unresponsive) in  *)
(* a cluster of one primary and its replicas.  A task looks at the oldest  *)
(* command of every tracked connection and interrupts the reader of a      *)
(* server by name; readers register under that name when they first run    *)
(* and remove it when they end.  The router replaces connections when one  *)
(* is lost and when the primary changes, and tracks them afterwards.       *)
(* Connection attempts succeed here; failing ones are in other modules.    *)
(***************************************************************************)
EXTENDS Naturals, Sequences, SequencesExt

CONSTANTS
    ShardServers,       \* the servers of the shard
    Writes,             \* bound: commands written
    Silences,           \* bound: connections that go silent
    Promotions,         \* bound: changes of the primary
    UnresponsiveQuits   \* bound: calls of quit()

VARIABLES
    leader,       \* the primary according to CLUSTER SLOTS
    readerOf,     \* the reader task of each connection: none, spawned, reading or ended
    awaiting,     \* its SharedBuffer: fresh or old commands, or ones that block the connection
    silent,       \* the connections whose server does not answer any more
    watched,      \* ConnectionState.commands: the primaries whose buffer it holds
    interrupts,   \* ConnectionState.interrupts: the reader whose sender is under each name
    inbox,        \* the readers with an interrupt to receive
    checker,      \* the task: asleep, with unresponsive servers in hand, or aborted
    found,        \* those servers
    station,      \* where the router is
    flow,         \* what it does: reconnect or sync
    mail,         \* its messages: Reconnect and MOVED
    resend,       \* Router.buffer
    onceReplica,  \* history: the servers the client had a replica connection to
    written, silences, promotions, unresponsiveQuits

boundVars == <<written, silences, promotions, unresponsiveQuits>>
checkVars == <<watched, interrupts, inbox, checker, found>>
linkVars == <<readerOf, awaiting, silent>>
routeVars == <<station, flow, mail, resend, onceReplica>>
unresponsiveVars == <<leader, linkVars, checkVars, routeVars, boundVars>>

Links == ShardServers \X {"primary", "replica"}
NoLink == <<"none", "none">>
Primary(s) == <<s, "primary">>
Open(x) == readerOf[x] # "none"

UnresponsiveInit ==
    /\ leader = (CHOOSE s \in ShardServers : TRUE)
    /\ readerOf = [x \in Links |-> "none"] /\ awaiting = [x \in Links |-> <<>>] /\ silent = {}
    /\ watched = {} /\ interrupts = [s \in ShardServers |-> NoLink] /\ inbox = {}
    /\ checker = "asleep" /\ found = {}
    /\ station = "connect" /\ flow = "reconnect" /\ mail = {} /\ resend = <<>> /\ onceReplica = {}
    /\ written = 0 /\ silences = 0 /\ promotions = 0 /\ unresponsiveQuits = 0

(* graceful_close waits for a reader that no longer gets anything from its server. *)
Hangs(x) == x \in silent /\ readerOf[x] = "reading"

(* Close connections: the sinks are closed, the router waits for their readers, which
   remove whatever is registered under their names, and takes their commands. *)
Close(gone) ==
    /\ \A x \in gone : ~Hangs(x)
    /\ readerOf' = [x \in Links |-> IF x \in gone THEN "none" ELSE readerOf[x]]
    /\ awaiting' = [x \in Links |-> IF x \in gone THEN <<>> ELSE awaiting[x]]
    /\ silent' = silent \ gone
    /\ inbox' = inbox \ gone
    /\ interrupts' = [s \in ShardServers |->
                        IF \E x \in gone : x[1] = s /\ readerOf[x] \in {"spawned", "reading"}
                        THEN NoLink ELSE interrupts[s]]

Drained(gone) == FlattenSeq([i \in 1..Len(SetToSeq(gone)) |-> awaiting[SetToSeq(gone)[i]]])

(* prepare_command: network_start is the time of this write. *)
prepare_command(c) == IF c = "old" THEN "fresh" ELSE c

WriteCommand(c) ==
    /\ station = "idle" /\ Open(Primary(leader)) /\ written < Writes
    /\ written' = written + 1
    /\ awaiting' = [awaiting EXCEPT ![Primary(leader)] = Append(@, prepare_command(c))]
    /\ UNCHANGED <<leader, readerOf, silent, checkVars, routeVars, silences, promotions, unresponsiveQuits>>

ReplyArrives(x) ==
    /\ readerOf[x] = "reading" /\ x \notin silent /\ awaiting[x] # <<>>
    /\ awaiting' = [awaiting EXCEPT ![x] = Tail(@)]
    /\ UNCHANGED <<leader, readerOf, silent, checkVars, routeVars, boundVars>>

GoSilent(x) ==
    /\ readerOf[x] = "reading" /\ x \notin silent /\ silences < Silences
    /\ silences' = silences + 1
    /\ silent' = silent \union {x}
    /\ UNCHANGED <<leader, readerOf, awaiting, checkVars, routeVars, written, promotions, unresponsiveQuits>>

(* More than network_timeout_ms go by. *)
TimePasses(x) ==
    /\ Contains(awaiting[x], "fresh")
    /\ awaiting' = [awaiting EXCEPT ![x] = [i \in DOMAIN @ |-> IF @[i] = "fresh" THEN "old" ELSE @[i]]]
    /\ UNCHANGED <<leader, readerOf, silent, checkVars, routeVars, boundVars>>

(* unresponsive_connections: only the oldest command counts, and not if it blocks. *)
unresponsive_connections == {s \in watched : awaiting[Primary(s)] # <<>> /\ Head(awaiting[Primary(s)]) = "old"}

CheckConnections ==
    /\ checker = "asleep" /\ unresponsive_connections # {}
    /\ found' = unresponsive_connections
    /\ checker' = "found"
    /\ UNCHANGED <<leader, linkVars, watched, interrupts, inbox, routeVars, boundVars>>

(* interrupt: to whichever reader is registered under the name by now. *)
interrupt ==
    /\ checker = "found"
    /\ inbox' = inbox \union ({interrupts[s] : s \in found} \ {NoLink})
    /\ checker' = "asleep" /\ found' = {}
    /\ UNCHANGED <<leader, linkVars, watched, interrupts, routeVars, boundVars>>

(* When the task first runs: an earlier sender is replaced. *)
reader_subscribe(x) ==
    /\ readerOf[x] = "spawned"
    /\ readerOf' = [readerOf EXCEPT ![x] = "reading"]
    /\ interrupts' = [interrupts EXCEPT ![x[1]] = x]
    /\ UNCHANGED <<leader, awaiting, silent, watched, inbox, checker, found, routeVars, boundVars>>

(* next_frame returns an error; the task unsubscribes and reports to the router. *)
next_frame(x) ==
    /\ readerOf[x] = "reading" /\ x \in inbox
    /\ readerOf' = [readerOf EXCEPT ![x] = "ended"]
    /\ inbox' = inbox \ {x}
    /\ interrupts' = [interrupts EXCEPT ![x[1]] = NoLink]
    /\ mail' = mail \union (IF x[2] = "primary" THEN {"Reconnect"} ELSE {})
    /\ UNCHANGED <<leader, awaiting, silent, watched, checker, found, station, flow, resend, onceReplica, boundVars>>

(* process_reconnect: Router::connect closes everything first. *)
BeginReconnect ==
    /\ station = "idle" /\ "Reconnect" \in mail
    /\ mail' = mail \ {"Reconnect"}
    /\ station' = "connect" /\ flow' = "reconnect"
    /\ resend' = resend \o Drained({x \in Links : x[2] = "primary"})
    /\ Close(Links) /\ watched' = {}
    /\ UNCHANGED <<leader, checker, found, onceReplica, boundVars>>

BeginSync ==
    /\ station = "idle" /\ "Moved" \in mail
    /\ mail' = mail \ {"Moved"}
    /\ station' = "connect" /\ flow' = "sync"
    /\ UNCHANGED <<leader, linkVars, checkVars, resend, onceReplica, boundVars>>

(* clustered::sync: close the primaries that are none any more, connect to the new one. *)
SyncPrimaries ==
    LET gone == {Primary(s) : s \in ShardServers \ {leader}}
    IN  /\ station = "connect"
        /\ \A x \in gone : ~Hangs(x)
        /\ station' = "track"
        /\ resend' = resend \o Drained(gone)
        /\ readerOf' = [x \in Links |-> IF x = Primary(leader) /\ ~Open(x) THEN "spawned"
                                       ELSE IF x \in gone THEN "none" ELSE readerOf[x]]
        /\ awaiting' = [x \in Links |-> IF x \in gone THEN <<>> ELSE awaiting[x]]
        /\ silent' = silent \ gone /\ inbox' = inbox \ gone
        /\ interrupts' = [s \in ShardServers |->
                            IF Primary(s) \in gone /\ readerOf[Primary(s)] \in {"spawned", "reading"}
                            THEN NoLink ELSE interrupts[s]]
        /\ UNCHANGED <<leader, watched, checker, found, flow, mail, onceReplica, boundVars>>

(* A slip: the task goes on with the connections it knows. *)
sync_unless_watching == IF watched = {} THEN {s \in ShardServers : Open(Primary(s))} ELSE watched

(* ConnectionState::sync: the buffers of all the writers there are. *)
sync == {s \in ShardServers : Open(Primary(s))}

(* retry_buffer, on the connection to the primary. *)
ReplayBuffer(now) ==
    IF now /\ Open(Primary(leader))
    THEN /\ awaiting' = [awaiting EXCEPT ![Primary(leader)] =
                          @ \o [i \in DOMAIN resend |-> prepare_command(resend[i])]]
         /\ resend' = <<>>
    ELSE UNCHANGED <<awaiting, resend>>

sync_network_timeout_state ==
    /\ station = "track"
    /\ station' = "clear"
    /\ watched' = sync
    /\ ReplayBuffer(flow = "sync")
    /\ UNCHANGED <<leader, readerOf, silent, interrupts, inbox, checker, found, flow, mail, onceReplica, boundVars>>

(* sync_replicas: all the replica connections are closed, then made again. *)
clear_connections ==
    /\ station = "clear"
    /\ station' = "replicas"
    /\ Close({x \in Links : x[2] = "replica"})
    /\ UNCHANGED <<leader, watched, checker, found, flow, mail, resend, onceReplica, boundVars>>

AddReplicas ==
    /\ station = "replicas"
    /\ station' = "idle"
    /\ readerOf' = [x \in Links |-> IF x[2] = "replica" /\ x[1] # leader THEN "spawned" ELSE readerOf[x]]
    /\ onceReplica' = onceReplica \union (ShardServers \ {leader})
    /\ ReplayBuffer(flow = "reconnect")
    /\ UNCHANGED <<leader, silent, checkVars, flow, mail, boundVars>>

(* Another server becomes the primary; the next command is answered with MOVED. *)
Promote(s) ==
    /\ s # leader /\ promotions < Promotions
    /\ promotions' = promotions + 1
    /\ leader' = s
    /\ mail' = mail \union {"Moved"}
    /\ UNCHANGED <<linkVars, checkVars, station, flow, resend, onceReplica, written, silences, unresponsiveQuits>>

(* quit() aborts the task; connect() later on does not start another. *)
QuitAndConnect ==
    /\ station = "idle" /\ unresponsiveQuits < UnresponsiveQuits
    /\ unresponsiveQuits' = unresponsiveQuits + 1
    /\ checker' = "aborted" /\ found' = {}
    /\ station' = "connect" /\ flow' = "reconnect" /\ mail' = {} /\ resend' = <<>>
    /\ Close(Links) /\ watched' = {}
    /\ UNCHANGED <<leader, onceReplica, written, silences, promotions>>

RouterMoves ==
    BeginReconnect \/ BeginSync \/ SyncPrimaries \/ sync_network_timeout_state \/ clear_connections \/ AddReplicas

CheckerMoves == CheckConnections \/ interrupt

UnresponsiveNext ==
    \/ RouterMoves \/ CheckerMoves \/ QuitAndConnect
    \/ \E c \in {"fresh", "block"} : WriteCommand(c)
    \/ \E x \in Links : ReplyArrives(x) \/ GoSilent(x) \/ TimePasses(x) \/ reader_subscribe(x) \/ next_frame(x)
    \/ \E s \in ShardServers : Promote(s)

UnresponsiveSpec == UnresponsiveInit /\ [][UnresponsiveNext]_unresponsiveVars

(* The router and the task keep running, spawned readers run, time passes.  A server
   that still answers does so, but a command may stay in front of a silent one. *)
UnresponsiveFairness ==
    /\ WF_unresponsiveVars(RouterMoves) /\ WF_unresponsiveVars(CheckerMoves)
    /\ \A x \in Links :
         /\ WF_unresponsiveVars(reader_subscribe(x) \/ next_frame(x) \/ ReplyArrives(x))
         /\ WF_unresponsiveVars(TimePasses(x))

UnresponsiveFairSpec == UnresponsiveSpec /\ UnresponsiveFairness
-----------------------------------------------------------------------------
Unanswered(s) ==
    /\ Primary(s) \in silent /\ readerOf[Primary(s)] = "reading"
    /\ awaiting[Primary(s)] # <<>> /\ Head(awaiting[Primary(s)]) # "block"

(* A connection whose server stops answering is given up as long as the task runs,
   whatever connections were replaced before.  Not so once the client had a replica
   connection to the same server: that reader, when it ends, removes the sender of the
   other one, which nobody can interrupt any more. *)
StuckIsInterrupted ==
    \A s \in ShardServers : Unanswered(s) ~> (~Unanswered(s) \/ s \in onceReplica \/ checker = "aborted")
=============================================================================
