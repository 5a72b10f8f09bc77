---------------------------- MODULE ClusterRouter ----------------------------
(***************************************************************************)
(* The router task of a clustered client while a hash slot migrates: how   *)
(* MOVED and ASK replies travel from the reader task of each node back to  *)
(* the router, how they are followed, and how cluster syncs, broken        *)
(* connections and the retry buffer interfere.                             *)
(*                                                                         *)
(* All commands use one slot.  A command either pipelines (the router goes *)
(* on after writing it, and its redirections come back on the command      *)
(* queue) or holds the router on a router channel until its reply.         *)
(* Backpressure, flushing and timeouts are the subject of CommandRouter.   *)
(***************************************************************************)
EXTENDS Integers, Sequences, FiniteSets, Functions

CONSTANTS
    Nodes,         \* the primary nodes the slot may live on
    Commands,      \* the commands the callers send, each once
    None,          \* no node, no command, no message
    Asking,        \* the ASKING command of send_asking_with_policy
    MaxAttempts,   \* max_command_attempts
    MaxReconnects, \* max_attempts of the reconnection policy
    MaxFaults,     \* bound: broken connections and failed connection attempts
    MaxMigrations  \* bound: migrations of the slot

(* What the router hears on a router channel. *)
Kinds == {"ok", "ask", "moved", "continue", "closed", "asked"}

ASSUME ClusterRouterAssumption ==
    /\ Nodes # {} /\ IsFiniteSet(Nodes)
    /\ None \notin Nodes \cup Commands \cup {Asking} /\ Asking \notin Commands
    /\ None \notin [kind : Kinds, server : Nodes \cup {None}]
    /\ {MaxAttempts, MaxReconnects} \subseteq Nat \ {0}
    /\ {MaxFaults, MaxMigrations} \subseteq Nat

VARIABLES
    pipelined,  \* the commands that should_auto_pipeline
    owner,      \* the node that owns the slot
    importer,   \* the node it migrates to, or None
    others,     \* the nodes that own other slots too
    asking,     \* whether the connection of a node has the ASKING flag
    requests,   \* frames on their way to each node
    replies,    \* frames on their way back
    link,       \* the connection to each node, none, up, down or ended
    inflight,   \* the shared buffer of each connection
    cache,      \* the cached owner of the slot
    queue,      \* the messages of the command channel
    retry,      \* the router's retry buffer
    at,         \* where the router task is
    next,       \* where it goes after replaying the retry buffer
    goal,       \* what the redirection in progress is for
    cmd,        \* the command in the router's hands
    target,     \* the server of the redirection
    rx,         \* the message on the channel the router waits on, or None
    reconnects, \* attempts of the reconnection policy
    attempted,  \* RedisCommand.attempted
    channel,    \* the commands that hold the sender of a router channel
    answer,     \* what the caller of each command has seen
    faults,
    migrations

nodeVars == <<owner, importer, others, migrations>>
wireVars == <<asking, requests, replies>>
connVars == <<link, inflight, retry>>
pcVars == <<at, next, goal, cmd, target>>
cmdVars == <<attempted, channel, answer>>
vars == <<pipelined, nodeVars, wireVars, connVars, cache, queue, pcVars, rx,
          reconnects, cmdVars, faults>>

(* none: no writer; up; down: broken, the reader task has not noticed; ended: the
   reader task has ended and the writer is still in the connection map. *)
Working == {"up", "down"}

Message(type, c, n) == [type |-> type, cmd |-> c, server |-> n]
Reply(kind, n) == [kind |-> kind, server |-> n]

Primaries == {owner} \cup others

Init ==
    /\ pipelined \in SUBSET Commands
    /\ owner \in Nodes /\ others \in SUBSET (Nodes \ {owner})
    /\ importer = None
    /\ asking = [n \in Nodes |-> FALSE]
    /\ requests = [n \in Nodes |-> <<>>] /\ replies = [n \in Nodes |-> <<>>]
    /\ link = [n \in Nodes |-> IF n \in Primaries THEN "up" ELSE "none"]
    /\ inflight = [n \in Nodes |-> <<>>]
    /\ cache = owner
    /\ queue = <<>> /\ retry = <<>>
    /\ at = "idle" /\ next = "idle" /\ goal = "none"
    /\ cmd = None /\ target = None /\ rx = None
    /\ reconnects = 0
    /\ attempted = [c \in Commands |-> 0]
    /\ channel = {}
    /\ answer = [c \in Commands |-> "unsent"]
    /\ faults = 0 /\ migrations = 0

-----------------------------------------------------------------------------
(* Callers, nodes and the network. *)

(* send_command: the command channel is unbounded and never refuses. *)
Submit(c) ==
    /\ answer[c] = "unsent"
    /\ answer' = [answer EXCEPT ![c] = "pending"]
    /\ queue' = Append(queue, Message("command", c, None))
    /\ UNCHANGED <<pipelined, nodeVars, wireVars, connVars, cache, pcVars, rx,
                   reconnects, attempted, channel, faults>>

Migrate ==
    /\ migrations < MaxMigrations /\ importer = None
    /\ importer' \in Nodes \ {owner}
    /\ migrations' = migrations + 1
    /\ UNCHANGED <<pipelined, owner, others, wireVars, connVars, cache,
                   queue, pcVars, rx, reconnects, cmdVars, faults>>

MigrationEnds ==
    /\ importer # None
    /\ owner' = importer /\ importer' = None
    /\ UNCHANGED <<pipelined, others, migrations, wireVars, connVars,
                   cache, queue, pcVars, rx, reconnects, cmdVars, faults>>

(* A key of a migrating slot may or may not have left the owner already. *)
NodeReplies(n) ==
    IF n = owner
    THEN {Reply("ok", n)} \cup (IF importer = None THEN {} ELSE {Reply("ask", importer)})
    ELSE IF n = importer /\ asking[n] THEN {Reply("ok", n)}
    ELSE {Reply("moved", owner)}

Serve(n) ==
    /\ link[n] = "up" /\ requests[n] # <<>>
    /\ LET c == Head(requests[n]) IN
       /\ requests' = [requests EXCEPT ![n] = Tail(@)]
       /\ asking' = [asking EXCEPT ![n] = c = Asking]
       /\ \E r \in IF c = Asking THEN {Reply("ok", n)} ELSE NodeReplies(n) :
             replies' = [replies EXCEPT ![n] = Append(@, r)]
    /\ UNCHANGED <<pipelined, owner, importer, others, migrations, connVars, cache,
                   queue, pcVars, rx, reconnects, cmdVars, faults>>

Break(n) ==
    /\ link[n] = "up" /\ faults < MaxFaults
    /\ link' = [link EXCEPT ![n] = "down"]
    /\ requests' = [requests EXCEPT ![n] = <<>>]
    /\ replies' = [replies EXCEPT ![n] = <<>>]
    /\ asking' = [asking EXCEPT ![n] = FALSE]
    /\ faults' = faults + 1
    /\ UNCHANGED <<pipelined, nodeVars, inflight, retry, cache, queue, pcVars, rx,
                   reconnects, cmdVars>>

-----------------------------------------------------------------------------
(* The reader task of a node. *)

WaitsFor(c) == at = "wait" /\ cmd = c /\ rx = None

(* process_cluster_error: on the router channel if the router still waits there,
   else on the command queue. *)
Redirected(c, r) ==
    /\ IF c \in channel /\ WaitsFor(c)
       THEN rx' = r /\ UNCHANGED queue
       ELSE queue' = Append(queue, Message(r.kind, c, r.server)) /\ UNCHANGED rx
    /\ channel' = channel \ {c}
    /\ UNCHANGED answer

(* The caller is answered and the router is not told. *)
RespondedSilently(c, r) ==
    /\ answer' = [answer EXCEPT ![c] = "ok"]
    /\ UNCHANGED <<rx, queue, channel>>
(* respond_to_caller, and respond_to_router with Continue. *)
Responded(c, r) ==
    /\ answer' = [answer EXCEPT ![c] = "ok"]
    /\ rx' = IF c \in channel /\ WaitsFor(c) THEN Reply("continue", None) ELSE rx
    /\ channel' = channel \ {c}
    /\ UNCHANGED queue

(* process_response_frame *)
ReadReply(n) ==
    /\ link[n] = "up" /\ replies[n] # <<>>
    /\ LET c == Head(inflight[n])
           r == Head(replies[n])
       IN /\ inflight' = [inflight EXCEPT ![n] = Tail(@)]
          /\ replies' = [replies EXCEPT ![n] = Tail(@)]
          /\ IF c = Asking
             THEN rx' = Reply("asked", n) /\ UNCHANGED <<queue, channel, answer>>
             ELSE IF r.kind = "ok" THEN Responded(c, r) ELSE Redirected(c, r)
    /\ UNCHANGED <<pipelined, nodeVars, asking, requests, link, retry, cache, pcVars,
                   reconnects, attempted, faults>>

(* check_blocked_router: the front of the buffer goes back to the router if it
   holds a channel; nobody listens on the channel of a replayed command, which is
   then dropped. *)
Blocked(n) ==
    IF link[n] \in Working /\ inflight[n] # <<>> /\ Head(inflight[n]) \in channel
    THEN {Head(inflight[n])} ELSE {}
(* check_final_write_attempt: dropping such a command closes its router channel,
   which the router takes like Continue. *)
Final(n) ==
    IF link[n] \in Working
    THEN {c \in (channel \cap Range(inflight[n])) \ Blocked(n) : attempted[c] >= MaxAttempts}
    ELSE {}
(* A front of the buffer that is looked at and not popped. *)
LeftUnpopped(n) == {i \in DOMAIN inflight[n] : inflight[n][i] \notin Final(n)}
(* The positions left in the shared buffer when the reader task has ended. *)
Left(n) == {i \in DOMAIN inflight[n] : inflight[n][i] \notin Blocked(n) \cup Final(n)}

(* The ways to go through S, and the one that goes through pairs in their order. *)
Orders(S) == Bijection(1..Cardinality(S), S)
Before(p, q) == p[1] < q[1] \/ (p[1] = q[1] /\ p[2] < q[2])
Ascending(S) == {f \in Orders(S) : \A i, j \in DOMAIN f : i < j => Before(f[i], f[j])}

(* What the shared buffers of the nodes in order still hold, one after the other. *)
Drained(order) ==
    {[i \in DOMAIN f |-> inflight[order[f[i][1]]][f[i][2]]] :
        f \in Ascending(UNION {{k} \X Left(order[k]) : k \in DOMAIN order})}

Reported == {m.server : m \in {m \in Range(queue) : m.type = "reconnect"}}
(* Reader tasks that end without a word. *)
ReportsNothing(order) == {<<>>}
(* broadcast_reader_error: one Reconnect per reader task that ends.  A Reconnect for
   a node that already has one in the queue is left out: whenever it is processed
   it finds what the first one left. *)
Reports(order) ==
    LET ended == {k \in DOMAIN order : link[order[k]] \in Working /\ order[k] \notin Reported}
    IN {[i \in DOMAIN f |-> Message("reconnect", None, order[f[i][1]])] :
           f \in Ascending(ended \X {0})}

(* The end of spawn_reader_task. *)
ReaderEnds(n) ==
    /\ link[n] = "down"
    /\ link' = [link EXCEPT ![n] = "ended"]
    /\ \E left \in Drained(<<n>>) : inflight' = [inflight EXCEPT ![n] = left]
    /\ LET heard == {c \in Blocked(n) : WaitsFor(c)} IN
       /\ rx' = IF heard # {} THEN Reply("closed", n)
                ELSE IF \E c \in Final(n) : WaitsFor(c) THEN Reply("continue", None)
                ELSE rx
       /\ answer' = [c \in Commands |->
              IF c \in Final(n) THEN "error"
              ELSE IF c \in Blocked(n) \ heard THEN "canceled" ELSE answer[c]]
    /\ channel' = channel \ (Blocked(n) \cup Final(n))
    /\ \E reports \in Reports(<<n>>) : queue' = queue \o reports
    /\ UNCHANGED <<pipelined, nodeVars, wireVars, retry, cache, pcVars, reconnects,
                   attempted, faults>>

-----------------------------------------------------------------------------
(* Closing connections.  The router waits for each reader task to end, so its
   last steps are part of the closing; the router hears none of them. *)

Writers == {n \in Nodes : link[n] # "none"}
Gone(S) == UNION {Blocked(n) : n \in S}
Failed(S) == UNION {Final(n) : n \in S}

(* graceful_close of the writers in order; opened are the nodes connected to
   after that, and held the commands whose router channel stays with them.  The
   caller of Closing says what becomes of the retry buffer and of the answers. *)
Closing(order, opened, held) ==
    LET S == Range(order) IN
    /\ link' = [n \in Nodes |->
          IF n \in opened THEN "up" ELSE IF n \in S THEN "none" ELSE link[n]]
    /\ inflight' = [n \in Nodes |-> IF n \in S THEN <<>> ELSE inflight[n]]
    /\ requests' = [n \in Nodes |-> IF n \in S THEN <<>> ELSE requests[n]]
    /\ replies' = [n \in Nodes |-> IF n \in S THEN <<>> ELSE replies[n]]
    /\ asking' = [n \in Nodes |-> n \notin S /\ asking[n]]
    /\ \E reports \in Reports(order) : queue' = queue \o reports
    /\ channel' = (channel \ (Gone(S) \cup Failed(S))) \cup held

AnswersAfter(S) ==
    [c \in Commands |-> IF c \in Gone(S) THEN "canceled"
                        ELSE IF c \in Failed(S) THEN "error" ELSE answer[c]]

(* An error of process_command ends process_commands: the connections close and
   whatever is in flight, buffered or in the router's hands is dropped. *)
Ends(answers) ==
    /\ at' = "ended" /\ next' = "idle" /\ goal' = "none"
    /\ cmd' = None /\ target' = None /\ rx' = None
    /\ \E order \in Orders(Writers) : Closing(order, {}, {})
    /\ retry' = <<>>
    /\ answer' = [c \in Commands |->
          IF answers[c] = "pending" /\ (c \in {cmd} \cup Range(retry)
                                          \/ \E n \in Nodes : c \in Range(inflight[n]))
          THEN "canceled" ELSE answers[c]]
    /\ UNCHANGED <<pipelined, nodeVars, cache>>

-----------------------------------------------------------------------------
(* The router task. *)

Goto(place) == at' = place /\ UNCHANGED <<next, goal, cmd, target>>
Idle ==
    /\ at' = "idle" /\ next' = "idle" /\ goal' = "none"
    /\ cmd' = None /\ target' = None

(* process_commands: take the next message and process_command. *)
Take ==
    /\ at = "idle" /\ queue # <<>>
    /\ LET m == Head(queue)
           skip == m.type = "reconnect" /\ link[m.server] \in Working
           place == CASE m.type = "command" -> "write"
                      [] m.type = "ask" -> "ask"
                      [] m.type = "moved" -> "sync"
                      [] m.type = "reconnect" -> IF skip THEN "idle" ELSE "policy"
       IN /\ queue' = Tail(queue)
          /\ at' = place
          /\ goal' = IF m.type \in {"ask", "moved"} THEN m.type ELSE "none"
          /\ next' = IF m.type = "moved" THEN "direct" ELSE "idle"
          /\ cmd' = m.cmd
          /\ target' = IF m.type \in {"ask", "moved"} THEN m.server ELSE None
    /\ UNCHANGED <<pipelined, nodeVars, wireVars, connVars, cache, rx, reconnects,
                   cmdVars, faults>>

(* The frame reaches the node unless the connection is broken; a broken
   connection may swallow the frame, or the write may fail. *)
Accepts(n) == link[n] \in Working
Refuses(n) == link[n] \in {"down", "ended"}
Sent(c, n) ==
    /\ inflight' = [inflight EXCEPT ![n] = Append(@, c)]
    /\ requests' = IF link[n] = "up" THEN [requests EXCEPT ![n] = Append(@, c)] ELSE requests
    /\ UNCHANGED <<link, replies, asking>>

Answered(c, a) == [answer EXCEPT ![c] = a]
TooMany(c) == attempted[c] >= MaxAttempts

(* incr_check_attempted fails: the caller sees the error. *)
GiveUp ==
    /\ TooMany(cmd)
    /\ answer' = Answered(cmd, "error")
    /\ Idle
    /\ UNCHANGED <<pipelined, nodeVars, wireVars, connVars, cache, queue, rx,
                   reconnects, attempted, channel, faults>>

(* write_with_backpressure, router.write_command included. *)
WriteSent ==
    /\ ~TooMany(cmd) /\ Accepts(cache)
    /\ attempted' = [attempted EXCEPT ![cmd] = @ + 1]
    /\ Sent(cmd, cache)
    /\ channel' = IF cmd \in pipelined THEN channel ELSE channel \cup {cmd}
    /\ IF cmd \in pipelined THEN Idle ELSE Goto("wait")
    /\ UNCHANGED <<pipelined, nodeVars, retry, cache, queue, rx, reconnects, answer, faults>>

(* Written::Disconnect: drop the connection, then buffer the command.  It keeps the
   channel it got before the write, to which nobody listens any more. *)
WriteFails ==
    /\ ~TooMany(cmd) /\ Refuses(cache)
    /\ attempted' = [attempted EXCEPT ![cmd] = @ + 1]
    /\ LET final == attempted[cmd] + 1 >= MaxAttempts
           held == IF final \/ cmd \in pipelined THEN {} ELSE {cmd}
       IN
       /\ Closing(<<cache>>, {}, held)
       /\ answer' = IF final THEN [AnswersAfter({cache}) EXCEPT ![cmd] = "error"]
                    ELSE AnswersAfter({cache})
       /\ \E left \in Drained(<<cache>>) :
             retry' = retry \o left \o (IF final THEN <<>> ELSE <<cmd>>)
    /\ Idle
    /\ UNCHANGED <<pipelined, nodeVars, cache, rx, reconnects, faults>>

(* clustered::send_command finds no writer for the owner: the error ends the
   router task. *)
WriteMissing ==
    /\ ~TooMany(cmd) /\ link[cache] = "none"
    /\ attempted' = [attempted EXCEPT ![cmd] = @ + 1]
    /\ Ends(answer)
    /\ UNCHANGED <<reconnects, faults>>

Write == at = "write" /\ (GiveUp \/ WriteSent \/ WriteFails \/ WriteMissing)

(* handle_router_response for Continue and for MOVED: sync unless the cache knows. *)
WaitContinue ==
    /\ rx.kind = "continue"
    /\ Idle
    /\ UNCHANGED answer
WaitMoved ==
    /\ rx.kind = "moved"
    /\ IF cache = rx.server THEN at' = "write" /\ UNCHANGED next
       ELSE at' = "sync" /\ next' = "write"
    /\ UNCHANGED <<goal, cmd, target, answer>>
(* ASK: ASKING to that server, then the loop writes the command by its slot. *)
WaitAsk ==
    /\ rx.kind = "ask"
    /\ at' = "ask" /\ goal' = "write" /\ target' = rx.server
    /\ UNCHANGED <<next, cmd, answer>>
(* The connection closed: reconnect, then write the command again. *)
WaitClosed ==
    /\ rx.kind = "closed"
    /\ at' = "policy" /\ UNCHANGED <<goal, target>>
    /\ IF attempted[cmd] >= MaxAttempts
       THEN answer' = Answered(cmd, "error") /\ next' = "idle" /\ cmd' = None
       ELSE next' = "write" /\ UNCHANGED <<answer, cmd>>

Wait ==
    /\ at = "wait" /\ rx # None
    /\ rx' = None
    /\ WaitContinue \/ WaitMoved \/ WaitAsk \/ WaitClosed
    /\ UNCHANGED <<pipelined, nodeVars, wireVars, connVars, cache, queue, reconnects,
                   attempted, channel, faults>>

(* router.retry_buffer: each command is written by its slot, whatever channel it
   still holds. *)
RetryDone ==
    /\ retry = <<>>
    /\ at' = next /\ next' = "idle" /\ UNCHANGED <<goal, cmd, target>>
    /\ UNCHANGED <<pipelined, nodeVars, wireVars, connVars, cache, queue, rx,
                   reconnects, cmdVars, faults>>
RetryTooMany ==
    /\ retry # <<>> /\ TooMany(Head(retry))
    /\ retry' = Tail(retry)
    /\ answer' = Answered(Head(retry), "error")
    /\ UNCHANGED <<pipelined, nodeVars, wireVars, link, inflight, cache, queue, pcVars,
                   rx, reconnects, attempted, channel, faults>>
RetrySent ==
    /\ retry # <<>> /\ ~TooMany(Head(retry)) /\ Accepts(cache)
    /\ Sent(Head(retry), cache)
    /\ retry' = Tail(retry)
    /\ attempted' = [attempted EXCEPT ![Head(retry)] = @ + 1]
    /\ UNCHANGED <<pipelined, nodeVars, cache, queue, pcVars, rx, reconnects, channel,
                   answer, faults>>
(* The first failure disconnects from every node and leaves the loop; the drain
   iterator drops the commands it has not reached. *)
RetryFails ==
    /\ retry # <<>> /\ ~TooMany(Head(retry)) /\ ~(link[cache] = "up")
    /\ LET c == Head(retry)
           final == link[cache] # "none" /\ attempted[c] + 1 >= MaxAttempts
           failed == IF final THEN <<>> ELSE <<c>>
           dropped == Range(Tail(retry))
       IN /\ attempted' = [attempted EXCEPT ![c] = @ + 1]
          /\ \E order \in Orders(Writers) :
                /\ Closing(order, {}, {})
                /\ \E left \in Drained(order) :
                      retry' = IF link[cache] = "none" THEN failed \o left ELSE left \o failed
          /\ answer' = [d \in Commands |->
                 IF d = c /\ final THEN "error"
                 ELSE IF d \in dropped THEN "canceled" ELSE AnswersAfter(Writers)[d]]
    /\ at' = next /\ next' = "idle" /\ UNCHANGED <<goal, cmd, target>>
    /\ UNCHANGED <<pipelined, nodeVars, cache, rx, reconnects, faults>>

Retry == at = "retry" /\ (RetryDone \/ RetryTooMany \/ RetrySent \/ RetryFails)

(* clustered::sync from CLUSTER SLOTS on: the routing table, the connections to
   nodes that own nothing any more, and the new ones.  opened are those it managed
   to connect to. *)
Rebuild(closed, opened) ==
    /\ cache' = owner
    /\ \E order \in Orders(closed) :
          /\ Closing(order, opened, {})
          /\ \E left \in Drained(order) : retry' = retry \o left
    /\ answer' = AnswersAfter(closed)

(* The next delay of the reconnection policy, or the end of the router task;
   process_ask and process_moved answer their command first. *)
PolicyOr(place) ==
    IF reconnects < MaxReconnects
    THEN reconnects' = reconnects + 1 /\ Goto(place) /\ UNCHANGED rx
    ELSE FALSE
Exhausted ==
    /\ reconnects >= MaxReconnects
    /\ Ends(IF goal \in {"ask", "moved"} THEN Answered(cmd, "error") ELSE answer)
    /\ UNCHANGED <<reconnects, attempted>>

(* sync_cluster_with_policy, and the sync of send_asking_with_policy. *)
SyncAgain == IF next = "askwrite" THEN "ask" ELSE "sync"
SyncDone ==
    /\ Rebuild(Writers \ Primaries, Primaries \ Writers)
    /\ Goto("retry")
    /\ UNCHANGED <<pipelined, nodeVars, rx, reconnects, attempted, faults>>
SyncFails ==
    /\ faults < MaxFaults /\ faults' = faults + 1
    /\ \/ /\ PolicyOr(SyncAgain)
          /\ \E opened \in SUBSET (Primaries \ Writers) :
                opened # Primaries \ Writers /\ Rebuild(Writers \ Primaries, opened)
          /\ UNCHANGED <<pipelined, nodeVars, attempted>>
       \/ /\ PolicyOr(SyncAgain)
          /\ UNCHANGED <<pipelined, nodeVars, wireVars, connVars, cache, queue, cmdVars>>
       \/ Exhausted
Sync == at = "sync" /\ (SyncDone \/ SyncFails)

(* reconnect_with_policy asks the policy before the first attempt. *)
Policy ==
    /\ at = "policy"
    /\ UNCHANGED faults
    /\ \/ /\ PolicyOr("reconnect")
          /\ UNCHANGED <<pipelined, nodeVars, wireVars, connVars, cache, queue, cmdVars>>
       \/ Exhausted

(* reconnect_once: disconnect from everything, connect to every primary, replay. *)
ReconnectDone ==
    /\ Rebuild(Writers, Primaries)
    /\ at' = "retry" /\ next' = IF at = "once" THEN "ask" ELSE next
    /\ UNCHANGED <<goal, cmd, target>>
    /\ reconnects' = 0
    /\ UNCHANGED <<pipelined, nodeVars, rx, attempted, faults>>
ReconnectFails ==
    /\ faults < MaxFaults /\ faults' = faults + 1
    /\ \/ /\ PolicyOr(IF at = "once" THEN "ask" ELSE "reconnect")
          /\ \E opened \in SUBSET Primaries \ {Primaries} : Rebuild(Writers, opened)
          /\ UNCHANGED <<pipelined, nodeVars, attempted>>
       \/ Exhausted
Reconnect == at \in {"reconnect", "once"} /\ (ReconnectDone \/ ReconnectFails)

(* send_asking_with_policy *)
AskCheck ==
    /\ at = "ask"
    /\ IF link[target] \in Working
       THEN Goto("askwrite")
       ELSE at' = "sync" /\ next' = "askwrite" /\ UNCHANGED <<goal, cmd, target>>
    /\ UNCHANGED <<pipelined, nodeVars, wireVars, connVars, cache, queue, rx,
                   reconnects, cmdVars, faults>>
AskWrite ==
    /\ at = "askwrite"
    /\ \/ /\ Accepts(target)
          /\ Sent(Asking, target)
          /\ Goto("asked")
          /\ UNCHANGED <<retry, queue, cmdVars>>
       \/ /\ Refuses(target)
          /\ Closing(<<target>>, {}, {})
          /\ \E left \in Drained(<<target>>) : retry' = retry \o left
          /\ answer' = AnswersAfter({target})
          /\ Goto("once")
          /\ UNCHANGED attempted
       \/ /\ link[target] = "none"
          /\ Goto("once")
          /\ UNCHANGED <<wireVars, connVars, queue, cmdVars>>
    /\ UNCHANGED <<pipelined, nodeVars, cache, rx, reconnects, faults>>
(* The redirected command is routed by its slot. *)
AskedBySlot ==
    /\ at = "asked" /\ rx # None
    /\ rx' = None
    /\ reconnects' = 0
    /\ Goto("write")
    /\ UNCHANGED <<pipelined, nodeVars, wireVars, connVars, cache, queue, cmdVars, faults>>
Asked ==
    /\ at = "asked" /\ rx # None
    /\ rx' = None
    /\ reconnects' = 0
    /\ Goto(IF goal = "write" THEN "write" ELSE "direct")
    /\ UNCHANGED <<pipelined, nodeVars, wireVars, connVars, cache, queue, cmdVars, faults>>

(* write_direct of process_ask and process_moved, which start over if it fails. *)
DirectSent ==
    /\ ~TooMany(cmd) /\ Accepts(target)
    /\ attempted' = [attempted EXCEPT ![cmd] = @ + 1]
    /\ Sent(cmd, target)
    /\ Idle
    /\ UNCHANGED <<pipelined, nodeVars, retry, cache, queue, rx, reconnects, channel,
                   answer, faults>>
DirectFails ==
    /\ ~TooMany(cmd) /\ ~(link[target] = "up")
    /\ attempted' = [attempted EXCEPT ![cmd] = @ + 1]
    /\ IF goal = "ask" THEN Goto("ask")
       ELSE at' = "sync" /\ next' = "direct" /\ UNCHANGED <<goal, cmd, target>>
    /\ UNCHANGED <<pipelined, nodeVars, wireVars, connVars, cache, queue, rx,
                   reconnects, channel, answer, faults>>
Direct == at = "direct" /\ (GiveUp \/ DirectSent \/ DirectFails)

Router ==
    Take \/ Write \/ Wait \/ Retry \/ Sync \/ Policy \/ Reconnect
    \/ AskCheck \/ AskWrite \/ Asked \/ Direct

Next ==
    \/ \E c \in Commands : Submit(c)
    \/ Migrate \/ MigrationEnds
    \/ \E n \in Nodes : Serve(n) \/ Break(n) \/ ReadReply(n) \/ ReaderEnds(n)
    \/ Router

Spec == Init /\ [][Next]_vars

(* The tasks of the runtime run whenever they can, nodes serve what they receive
   and a migration that was started is finished. *)
Fairness ==
    /\ WF_vars(Router)
    /\ WF_vars(MigrationEnds)
    /\ \A n \in Nodes : WF_vars(Serve(n)) /\ WF_vars(ReadReply(n)) /\ WF_vars(ReaderEnds(n))

FairSpec == Spec /\ Fairness

-----------------------------------------------------------------------------
(* Properties. *)

HeldByRouter(c) == cmd = c /\ (at # "wait" \/ rx # None) /\ answer[c] = "pending"
(* The places a command is in: positions of the queue, of the retry buffer and of
   the shared buffers, and the router's hands. *)
InQueue(c) == {<<"queue", i>> : i \in {j \in DOMAIN queue : queue[j].cmd = c}}
InRetry(c) == {<<"retry", i>> : i \in {j \in DOMAIN retry : retry[j] = c}}
InBuffer(c, n) == {<<n, i>> : i \in {j \in DOMAIN inflight[n] : inflight[n][j] = c}}
InFlight(c) == UNION {InBuffer(c, n) : n \in Nodes}
InHands(c) == IF HeldByRouter(c) THEN {<<"router", 0>>} ELSE {}
Places(c) == InQueue(c) \cup InRetry(c) \cup InFlight(c) \cup InHands(c)

(* Through redirections, syncs that drop nodes, reconnects and replays a command
   whose caller still waits is in exactly one place: the queue, the router's hands,
   one shared buffer or the retry buffer; an answered command is in none. *)
OnePlace ==
    \A c \in Commands :
        IF answer[c] = "pending" THEN \E p \in Places(c) : Places(c) = {p} ELSE Places(c) = {}

(* A connection whose reader task has ended is about to be replaced: its Reconnect is
   in the queue, or the router is reconnecting (broadcast_reader_error,
   process_reconnect). *)
EndedReported ==
    \A n \in Nodes :
        link[n] = "ended" => at \in {"policy", "reconnect"} \/ n \in Reported

(* send_command counts on it when it finds no writer: "a reconnect message should
   already be queued from the reader task".  A dead or missing connection to the
   cached owner is always about to be repaired, as long as the slot migrates once: a
   sync that fails on the way to ASKING caches an owner it has not connected to, and
   goes on when the importing node is another one. *)
RepairQueued ==
    /\ EndedReported
    /\ migrations <= 1 /\ at \in {"idle", "write", "wait"} /\ link[cache] = "none" =>
           Reported # {}

WaitsOnDeadReader ==
    /\ rx = None
    /\ \E n \in Nodes : link[n] = "ended"
        /\ \/ at = "wait" /\ cmd \in Range(inflight[n])
           \/ at = "asked" /\ Asking \in Range(inflight[n])

(* Once faults and migrations are over every command is answered: redirections do
   not chase each other for ever and no command is parked.  The exceptions are the
   end of the router task and a router that waits for a reply on a connection whose
   reader task has ended (check_blocked_router only looks at the front of the
   buffer, and ASKING has no router channel). *)
Settles ==
    \A c \in Commands :
        answer[c] = "pending" ~> (answer[c] # "pending" \/ at = "ended" \/ WaitsOnDeadReader)

(* The redirections of pipelined commands, which come back on the command queue,
   cost no result while no connection fails and the slot migrates once to a node
   the client is connected to (process_ask, process_moved).  A node that owns no
   slot yet is different: each ASKING that finds no connection reconnects to the
   whole cluster and replays what is in flight. *)
PipelinedFollowed ==
    faults = 0 /\ migrations <= 1 /\ MaxAttempts >= 3 /\ Cardinality(Nodes \ others) <= 1 =>
        \A c \in pipelined : answer[c] \notin {"error", "canceled"}

=============================================================================
