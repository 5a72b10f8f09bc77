------------------------------ MODULE Replicas -------------------------------
(***************************************************************************)
(* Commands sent to replicas: the round-robin table, lazy connections, the *)
(* fall back to the primary and the retry buffer of router/replicas.rs,    *)
(* with the router and the reader tasks of the replica connections.  A     *)
(* reader task that ends, for whatever reason, asks the router to rebuild  *)
(* the table if the reconnection policy allows it; that is the only thing  *)
(* that empties the retry buffer.  The connection to the primary stays up: *)
(* CommandRouter is about its loss.                                        *)
(***************************************************************************)
EXTENDS Naturals, Sequences, SequencesExt

CONSTANTS
    ReplicaNodes,     \* the replicas INFO replication names
    Reads,            \* the commands for replicas
    ReplicaTries,     \* max_command_attempts
    ErrorCount,       \* replica.connection_error_count, if it is set
    ReplicaDelays,    \* bound: max_attempts of the policy, if it has one
    ReplicaFailures,  \* bound: replicas that go away
    ReplicaSyncs      \* bound: rebuilt tables, without lazy connections

VARIABLES
    lazy,        \* replica.lazy_connections
    fallback,    \* replica.primary_fallback
    errorCount,  \* replica.connection_error_count: 0, the default, or ErrorCount
    endless,     \* a policy whose max_attempts is 0
    delays,      \* the delays another policy still gives; 0 without a policy
    reachable,   \* the replicas that accept connections
    table,       \* ReplicaSet: the replicas of the primary, in order
    turn,        \* its round-robin counter
    writers,     \* the replicas with a writer
    readers,     \* those of them whose reader task runs
    pending,     \* the shared buffer of each replica connection
    replicaRetry,  \* Replicas.buffer
    routerQueue, \* the command channel: reads, and "sync" messages
    onPrimary,   \* reads written to the primary
    useReplica,  \* command.use_replica
    tried,       \* command.attempted
    outcome,     \* what each caller has seen
    failures,
    syncs

replicaConfig == <<lazy, fallback, errorCount, endless>>
replicaVars == <<replicaConfig, delays, reachable, table, turn, writers, readers, pending,
                 replicaRetry, routerQueue, onPrimary, useReplica, tried, outcome, failures,
                 syncs>>

ReplicasStart(isLazy, fallsBack, isEndless) ==
    /\ lazy = isLazy /\ fallback = fallsBack /\ errorCount \in {0, ErrorCount}
    /\ endless = isEndless /\ delays \in (IF isEndless THEN {0} ELSE 0 .. ReplicaDelays)
    /\ reachable = ReplicaNodes
    /\ table \in SetToSeqs(ReplicaNodes) /\ turn = 0
    /\ writers = (IF isLazy THEN {} ELSE ReplicaNodes) /\ readers = writers
    /\ pending = [r \in ReplicaNodes |-> <<>>]
    /\ replicaRetry = <<>> /\ routerQueue = <<>> /\ onPrimary = {}
    /\ useReplica = [c \in Reads |-> TRUE] /\ tried = [c \in Reads |-> 0]
    /\ outcome = [c \in Reads |-> "new"]
    /\ failures = 0 /\ syncs = 0

ReplicasInit ==
    \E isLazy, fallsBack, isEndless \in BOOLEAN : ReplicasStart(isLazy, fallsBack, isEndless)

(* inner.should_reconnect of a client that does not quit, and next_reconnection_delay. *)
should_reconnect == endless \/ delays > 0
next_reconnection_delay ==
    /\ should_reconnect
    /\ delays' = IF endless THEN delays ELSE delays - 1
    /\ UNCHANGED endless

SendRead(c) ==
    /\ outcome[c] = "new"
    /\ outcome' = [outcome EXCEPT ![c] = "waiting"]
    /\ routerQueue' = Append(routerQueue, <<"read", c>>)
    /\ UNCHANGED <<replicaConfig, delays, reachable, table, turn, writers, readers, pending,
                   replicaRetry, onPrimary, useReplica, tried, failures, syncs>>

(* graceful_close of the writers, in some order of the map: the unanswered commands of
   each join the retry buffer. *)
Closed(buffer, order) == buffer \o FlattenSeq([i \in DOMAIN order |-> pending[order[i]]])

(* broadcast_replica_error: a reader task that ends asks for a new table. *)
SyncMessages(n, asks) == IF asks THEN [i \in 1 .. n |-> <<"sync", "replicas">>] ELSE <<>>
RunningReaders == Len(SetToSeq(readers))

(* write_command of the router to the primary, which counts an attempt of its own. *)
WritePrimary(c, attempts) ==
    /\ tried' = [tried EXCEPT ![c] = attempts + 1]
    /\ IF attempts < ReplicaTries
       THEN onPrimary' = onPrimary \union {c} /\ UNCHANGED outcome
       ELSE outcome' = [outcome EXCEPT ![c] = "error"] /\ UNCHANGED onPrimary

WritePrimaryRead(c) ==
    /\ routerQueue # <<>> /\ Head(routerQueue) = <<"read", c>> /\ ~useReplica[c]
    /\ routerQueue' = Tail(routerQueue)
    /\ WritePrimary(c, tried[c])
    /\ UNCHANGED <<replicaConfig, delays, reachable, table, turn, writers, readers, pending,
                   replicaRetry, useReplica, failures, syncs>>

NextReplica(c) ==
    /\ routerQueue # <<>> /\ Head(routerQueue) = <<"read", c>> /\ useReplica[c]

TooManyTries(c) ==
    /\ NextReplica(c) /\ tried[c] >= ReplicaTries
    /\ routerQueue' = Tail(routerQueue)
    /\ tried' = [tried EXCEPT ![c] = @ + 1]
    /\ outcome' = [outcome EXCEPT ![c] = "error"]
    /\ UNCHANGED <<replicaConfig, delays, reachable, table, turn, writers, readers, pending,
                   replicaRetry, onPrimary, useReplica, failures, syncs>>

(* No replica is known: the primary serves the command, or the caller has the error. *)
MissingReplica(c) ==
    /\ NextReplica(c) /\ tried[c] < ReplicaTries /\ table = <<>>
    /\ routerQueue' = Tail(routerQueue)
    /\ IF fallback
       THEN useReplica' = [useReplica EXCEPT ![c] = FALSE] /\ WritePrimary(c, tried[c] + 1)
       ELSE /\ outcome' = [outcome EXCEPT ![c] = "error"]
            /\ tried' = [tried EXCEPT ![c] = @ + 1]
            /\ UNCHANGED <<useReplica, onPrimary>>
    /\ UNCHANGED <<replicaConfig, delays, reachable, table, turn, writers, readers, pending,
                   replicaRetry, failures, syncs>>

Usable(r) == IF r \in writers THEN r \in readers ELSE lazy /\ r \in reachable

(* Replicas::write_command: the next replica of the table takes the command; the
   connection is made now if it is lazy.  An error sends the command to the primary or
   to the retry buffer, and then every replica connection is closed. *)
WriteReplica(c) ==
    /\ NextReplica(c) /\ tried[c] < ReplicaTries /\ table # <<>>
    /\ turn' = (turn + 1) % Len(table)
    /\ routerQueue' = Tail(routerQueue)
                      \o (IF Usable(table[turn' + 1]) \/ fallback THEN <<>>
                          ELSE SyncMessages(RunningReaders, should_reconnect))
    /\ LET r == table[turn' + 1] IN
       IF Usable(r)
       THEN /\ writers' = writers \union {r} /\ readers' = readers \union {r}
            /\ pending' = [pending EXCEPT ![r] = Append(@, c)]
            /\ tried' = [tried EXCEPT ![c] = @ + 1]
            /\ UNCHANGED <<table, replicaRetry, useReplica, onPrimary, outcome>>
       ELSE IF fallback
       THEN /\ useReplica' = [useReplica EXCEPT ![c] = FALSE]
            /\ WritePrimary(c, tried[c] + 1)
            /\ UNCHANGED <<table, writers, readers, pending, replicaRetry>>
       ELSE /\ tried' = [tried EXCEPT ![c] = @ + 1]
            /\ \E order \in SetToSeqs(writers) : replicaRetry' = Closed(Append(replicaRetry, c), order)
            /\ pending' = [p \in ReplicaNodes |-> <<>>]
            /\ table' = <<>> /\ writers' = {} /\ readers' = {}
            /\ UNCHANGED <<useReplica, onPrimary, outcome>>
    /\ UNCHANGED <<replicaConfig, delays, reachable, failures, syncs>>

(* A slip: commands that failed often enough are left for the next round. *)
RetriedEarly(buffer) == SelectSeq(buffer, LAMBDA c : errorCount > 0 /\ tried[c] >= errorCount)

(* What retry_buffer leaves in the buffer. *)
LeftBehind(buffer) == <<>>

AsksForTable == routerQueue # <<>> /\ Head(routerQueue)[1] = "sync"

(* The policy gives no delay: process_replica_reconnect forgets the error. *)
SyncGivenUp ==
    /\ AsksForTable /\ ~should_reconnect
    /\ routerQueue' = Tail(routerQueue)
    /\ UNCHANGED <<replicaConfig, delays, reachable, table, turn, writers, readers, pending,
                   replicaRetry, onPrimary, useReplica, tried, outcome, failures, syncs>>

(* A round of sync_replicas_with_policy: close the connections, whose readers ask for
   another message, ask the primary for its replicas, connect unless that is lazy, and
   send the retry buffer to the router; a command that failed errorCount times may use
   the primary now.  A replica that cannot be reached fails a round, with the
   connections made before it, and the policy starts another.  Nothing here resets the
   attempts of the policy: every round uses one up. *)
sync_replicas ==
    /\ AsksForTable
    /\ ~lazy => syncs < ReplicaSyncs
    /\ next_reconnection_delay
    /\ syncs' = IF lazy THEN syncs ELSE syncs + 1
    /\ pending' = [r \in ReplicaNodes |-> <<>>] /\ turn' = 0
    /\ \E order \in SetToSeqs(writers) :
       LET held == Closed(replicaRetry, order)
           again == SelectSeq(held, LAMBDA c : c \notin ToSet(LeftBehind(held)))
           primary == {c \in ToSet(again) : errorCount > 0 /\ tried[c] >= errorCount}
       IN IF lazy \/ reachable = ReplicaNodes
          THEN /\ table' \in SetToSeqs(ReplicaNodes)
               /\ writers' = (IF lazy THEN {} ELSE ReplicaNodes) /\ readers' = writers'
               /\ replicaRetry' = LeftBehind(held)
               /\ useReplica' = [c \in Reads |-> useReplica[c] /\ c \notin primary]
               /\ tried' = [c \in Reads |-> IF c \in primary THEN 0 ELSE tried[c]]
               /\ routerQueue' = Tail(routerQueue) \o SyncMessages(RunningReaders, should_reconnect')
                                 \o [i \in DOMAIN again |-> <<"read", again[i]>>]
          ELSE /\ writers' \in SUBSET reachable /\ readers' = writers'
               /\ table' = SetToSeq(writers')
               /\ replicaRetry' = held
               /\ routerQueue' = routerQueue \o SyncMessages(RunningReaders, should_reconnect')
               /\ UNCHANGED <<useReplica, tried>>
    /\ UNCHANGED <<lazy, fallback, errorCount, reachable, onPrimary, outcome, failures>>

ReplicaReplies(r) ==
    /\ r \in readers /\ pending[r] # <<>>
    /\ outcome' = [outcome EXCEPT ![Head(pending[r])] = "ok"]
    /\ pending' = [pending EXCEPT ![r] = Tail(@)]
    /\ UNCHANGED <<replicaConfig, delays, reachable, table, turn, writers, readers,
                   replicaRetry, routerQueue, onPrimary, useReplica, tried, failures,
                   syncs>>

PrimaryReplies(c) ==
    /\ c \in onPrimary
    /\ onPrimary' = onPrimary \ {c}
    /\ outcome' = [outcome EXCEPT ![c] = "ok"]
    /\ UNCHANGED <<replicaConfig, delays, reachable, table, turn, writers, readers, pending,
                   replicaRetry, routerQueue, useReplica, tried, failures, syncs>>

(* A replica goes away; the reader task of its connection, if any, ends. *)
ReplicaLost(r) ==
    /\ r \in reachable /\ failures < ReplicaFailures
    /\ failures' = failures + 1
    /\ reachable' = reachable \ {r}
    /\ readers' = readers \ {r}
    /\ routerQueue' = routerQueue \o (IF r \in readers THEN SyncMessages(1, should_reconnect) ELSE <<>>)
    /\ UNCHANGED <<replicaConfig, delays, table, turn, writers, pending, replicaRetry,
                   onPrimary, useReplica, tried, outcome, syncs>>

ReplicaBack(r) ==
    /\ r \notin reachable
    /\ reachable' = reachable \union {r}
    /\ UNCHANGED <<replicaConfig, delays, table, turn, writers, readers, pending,
                   replicaRetry, routerQueue, onPrimary, useReplica, tried, outcome,
                   failures, syncs>>

ReplicaRouter ==
    \/ \E c \in Reads : WritePrimaryRead(c) \/ TooManyTries(c) \/ MissingReplica(c) \/ WriteReplica(c)
    \/ SyncGivenUp \/ sync_replicas

ReplicasNext ==
    \/ ReplicaRouter
    \/ \E c \in Reads : SendRead(c) \/ PrimaryReplies(c)
    \/ \E r \in ReplicaNodes : ReplicaReplies(r) \/ ReplicaLost(r) \/ ReplicaBack(r)

ReplicasSpec == ReplicasInit /\ [][ReplicasNext]_replicaVars

(* The router takes what is queued, servers that are up answer, lost replicas return. *)
ReplicasFairness ==
    /\ WF_replicaVars(ReplicaRouter)
    /\ \A c \in Reads : WF_replicaVars(PrimaryReplies(c))
    /\ \A r \in ReplicaNodes : WF_replicaVars(ReplicaReplies(r) \/ ReplicaBack(r))

ReplicasFairSpec == ReplicasSpec /\ ReplicasFairness
-----------------------------------------------------------------------------

(* A read whose replica went away with it when the policy had no delay left: nothing
   rebuilds the table, so nothing takes the read from the dead connection. *)
ReadStranded(c) ==
    ~should_reconnect /\ \E r \in ReplicaNodes \ readers : c \in ToSet(pending[r])

(* With lazy connections and the fall back to the primary every read is answered, even
   if its replica goes away with the command in flight or before the connection, as
   long as the policy still gives a delay to rebuild the table. *)
ReadsAnswered ==
    \A c \in Reads :
        (lazy /\ fallback /\ outcome[c] = "waiting")
            ~> (outcome[c] \in {"ok", "error"} \/ ReadStranded(c))

=============================================================================
