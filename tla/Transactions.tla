----------------------------- MODULE Transactions -----------------------------
(***************************************************************************)
(* MULTI/EXEC transactions: the client that queues the commands in memory, *)
(* the router that runs them one at a time against one node, and the nodes *)
(* that hold a transaction open per connection.                            *)
(*                                                                         *)
(* The router task runs a whole transaction before it takes the next       *)
(* message, and every command of it blocks the router on a router channel, *)
(* so one command at most is outstanding.  Connections break, nodes reject *)
(* commands and slots move between any two steps.  Commands pipelined      *)
(* ahead of the transaction on the same connection are not modelled here   *)
(* (CommandRouter shows what they do to a blocked router).                 *)
(***************************************************************************)
EXTENDS Integers, Sequences, FiniteSets

CONSTANTS
    Nodes,         \* the servers
    Slots,         \* hash slots the commands may use
    None,          \* no node, no slot
    Configs,       \* the deployments and arguments to consider, see Config
    Rejects,       \* the steps a node may answer with an error of its own
    MaxCommands,   \* bound: commands queued after MULTI
    MaxAttempts,   \* max_command_attempts
    MaxReconnects, \* max_attempts of the reconnection policy
    MaxFaults      \* bound: broken connections, rejections, slot migrations

(* clustered: ServerConfig::Clustered; watched: watch_before was called; abort:
   the argument of exec; threads: tasks run on several threads. *)
Config == [clustered : BOOLEAN, watched : BOOLEAN, abort : BOOLEAN, threads : BOOLEAN]

ASSUME TransactionsAssumption ==
    /\ None \notin Nodes \cup Slots
    /\ Nodes # {} /\ Slots # {}
    /\ Configs \subseteq Config
    /\ Rejects \subseteq {"WATCH", "MULTI", "CMD"}
    /\ {MaxCommands, MaxAttempts, MaxReconnects, MaxFaults} \subseteq Nat

VARIABLES
    config,     \* a member of Configs
    commands,   \* the queued commands: the slot of each, None for MULTI
    hashSlot,   \* Transaction.hash_slot
    hasher,     \* the ClusterHash::Custom slot of the commands, or None
    answer,     \* what the caller of exec has seen
    pc,         \* where transactions::run is
    step,       \* the command write_command works on
    target,     \* the server it goes to
    server,     \* the server of this attempt
    idx,        \* commands of this attempt that were acknowledged
    attempted,  \* attempts used, counted up to MaxAttempts + 1
    after,      \* what follows the DISCARD in progress
    redirect,   \* the last redirection: its kind, slot and server
    rx,         \* the router channel
    reconnects, \* attempts of the reconnection policy
    cache,      \* the cached owner of each slot
    conn,       \* the connection to each node
    session,    \* what each node knows of its connection
    frame,      \* the request or the response on the target's connection
    owner,      \* the node that owns each slot
    importer,   \* the node each slot is being migrated to, or None
    executed,   \* the blocks EXEC ran, and what WATCH knew then
    lost,       \* responses to EXEC that were lost with their connection
    faults

clientVars == <<config, commands, hashSlot>>
runVars == <<hasher, answer, pc, step, target, server, idx, attempted, after,
             redirect, rx, reconnects>>
connVars == <<cache, conn, session, frame>>
nodeVars == <<owner, importer, executed, lost, faults>>
vars == <<clientVars, runVars, connVars, nodeVars>>

NoSession ==
    [multi |-> FALSE, dirty |-> FALSE, asking |-> FALSE, watch |-> "no",
     queue |-> <<>>]
NoRedirect == [kind |-> "none", slot |-> None, server |-> None]
NoFrame == [dir |-> "none", reply |-> "none"]

(* The one server of a centralized deployment. *)
Primary == CHOOSE n \in Nodes : TRUE

Init ==
    /\ config \in Configs
    /\ commands = <<None>>
    /\ hashSlot = None
    /\ hasher = None
    /\ answer = "none"
    /\ pc = "queue"
    /\ step = "WATCH"
    /\ target = None
    /\ server = None
    /\ idx = 0
    /\ attempted = 0
    /\ after = "none"
    /\ redirect = NoRedirect
    /\ rx = "none"
    /\ reconnects = 0
    /\ owner \in IF config.clustered THEN [Slots -> Nodes] ELSE [Slots -> {Primary}]
    /\ cache = owner
    /\ conn = [n \in Nodes |-> IF \E s \in Slots : owner[s] = n THEN "up" ELSE "none"]
    /\ session = [n \in Nodes |-> NoSession]
    /\ frame = NoFrame
    /\ importer = [s \in Slots |-> None]
    /\ executed = <<>>
    /\ lost = 0
    /\ faults = 0

-----------------------------------------------------------------------------
(* The client: commands wait in memory until exec.                         *)

(* Transaction::update_hash_slot: the first keyed command fixes the slot, later
   ones must map to the same node of the cached cluster state. *)
SlotAccepted(s) ==
    config.clustered /\ None \notin {s, hashSlot} => cache[s] = cache[hashSlot]

(* Transaction::send_command: the caller is answered QUEUED at once; a command
   for another node is refused and changes nothing. *)
QueueCommand(s) ==
    /\ pc = "queue"
    /\ Len(commands) <= MaxCommands
    /\ SlotAccepted(s)
    /\ commands' = Append(commands, s)
    /\ hashSlot' = IF config.clustered /\ hashSlot = None THEN s ELSE hashSlot
    /\ UNCHANGED <<config, runVars, connVars, nodeVars>>

(* Transaction::exec and exec: the hash slot is stamped on every command and
   the whole block goes to the router. *)
Exec ==
    /\ pc = "queue"
    /\ hasher' = hashSlot
    /\ pc' = "start"
    /\ answer' = "waiting"
    /\ UNCHANGED <<clientVars, step, target, server, idx, attempted, after,
                   redirect, rx, reconnects, connVars, nodeVars>>

(* apply_timeout around the response channel: the caller gives up, the router
   does not know. *)
CallerTimeout ==
    /\ answer = "waiting"
    /\ answer' = "timeout"
    /\ UNCHANGED <<clientVars, hasher, pc, step, target, server, idx, attempted,
                   after, redirect, rx, reconnects, connVars, nodeVars>>

-----------------------------------------------------------------------------
(* Writing one command and waiting for its response.                       *)

Incr(n) == IF n > MaxAttempts THEN n ELSE n + 1

Respond(how) == answer' = IF answer = "waiting" THEN how ELSE answer

(* transactions::write_command up to Router::write_once. *)
Write(s, n) == pc' = "write" /\ step' = s /\ target' = n

(* get_connection_mut finds no writer, or write_frame fails: the writer is
   dropped and the command with it. *)
WriteOnceFails ==
    /\ pc = "write"
    /\ conn[target] \in {"none", "closing", "broken"}
    /\ conn' = [conn EXCEPT ![target] = "none"]
    /\ session' = [session EXCEPT ![target] = NoSession]
    /\ rx' = "Retry"
    /\ pc' = "await"
    /\ UNCHANGED <<clientVars, hasher, answer, step, target, server, idx, attempted,
                   after, redirect, reconnects, cache, frame, nodeVars>>

(* The frame is on the socket.  A reader task on its way out still counts as
   working; nobody will answer the command then. *)
WriteOnce ==
    /\ pc = "write"
    /\ conn[target] \in {"up", "closing"}
    /\ frame' = IF conn[target] = "up" THEN [dir |-> "request", reply |-> "none"]
                ELSE NoFrame
    /\ rx' = "none"
    /\ pc' = "await"
    /\ UNCHANGED <<clientVars, hasher, answer, step, target, server, idx, attempted,
                   after, redirect, reconnects, cache, conn, session, nodeVars>>

ResultRetried(reply) ==
    CASE reply \in {"MOVED", "ASK"} -> IF config.clustered THEN "Redirection" ELSE "Error"
      [] reply = "error" -> "Error"
      [] reply = "nil" -> "Finished"
      [] reply \in {"result", "discarded"} -> "Retry"
      [] OTHER -> "Continue"

(* process_response_frame for a command of a transaction: what goes on the
   router channel.  ASKING is an ordinary command. *)
RouterMessage(reply) ==
    CASE reply \in {"MOVED", "ASK"} -> IF config.clustered THEN "Redirection" ELSE "Error"
      [] reply = "error" -> "Error"
      [] reply \in {"result", "nil", "discarded"} -> "Finished"
      [] OTHER -> "Continue"

ReadResponse ==
    /\ frame.dir = "response"
    /\ conn[target] = "up"
    /\ rx' = RouterMessage(frame.reply)
    /\ frame' = [frame EXCEPT !.dir = "none"]
    /\ UNCHANGED <<clientVars, hasher, answer, pc, step, target, server, idx,
                   attempted, after, redirect, reconnects, cache, conn, session,
                   nodeVars>>

(* Mutant: the reader task ends without check_blocked_router. *)
BreakSilently(n) ==
    /\ conn[n] = "up"
    /\ faults < MaxFaults
    /\ faults' = faults + 1
    /\ conn' = [conn EXCEPT ![n] = IF config.threads THEN "closing" ELSE "broken"]
    /\ session' = [session EXCEPT ![n] = NoSession]
    /\ frame' = IF n = target THEN NoFrame ELSE frame
    /\ UNCHANGED <<clientVars, hasher, answer, pc, step, target, server, idx, rx, lost,
                   attempted, after, redirect, reconnects, cache, owner, importer,
                   executed>>

(* The connection ends.  check_blocked_router hands ConnectionClosed to the
   router; ASKING has no router channel and stays in the buffer.  The reader
   task ends a moment later. *)
Break(n) ==
    /\ conn[n] = "up"
    /\ faults < MaxFaults
    /\ faults' = faults + 1
    /\ conn' = [conn EXCEPT ![n] = IF config.threads THEN "closing" ELSE "broken"]
    /\ session' = [session EXCEPT ![n] = NoSession]
    /\ IF n = target /\ frame.dir # "none"
       THEN /\ frame' = NoFrame
            /\ rx' = IF step = "ASKING" THEN rx ELSE "Retry"
            /\ lost' = IF frame.reply = "result" THEN lost + 1 ELSE lost
       ELSE UNCHANGED <<rx, frame, lost>>
    /\ UNCHANGED <<clientVars, hasher, answer, pc, step, target, server, idx,
                   attempted, after, redirect, reconnects, cache, owner, importer,
                   executed>>

ReaderEnds(n) ==
    /\ conn[n] = "closing"
    /\ conn' = [conn EXCEPT ![n] = "broken"]
    /\ UNCHANGED <<clientVars, runVars, cache, session, frame, nodeVars>>

-----------------------------------------------------------------------------
(* The nodes.                                                              *)

(* The redirections a node may answer a command on slot s with: MOVED when it
   does not serve the slot, ASK when it is migrating it and the key is gone. *)
Redirections(n, s) ==
    IF s = None \/ ~config.clustered THEN {NoRedirect}
    ELSE IF owner[s] = n
         THEN {NoRedirect} \cup
              (IF importer[s] = None THEN {}
               ELSE {[kind |-> "ASK", slot |-> s, server |-> importer[s]]})
         ELSE IF importer[s] = n /\ session[n].asking THEN {NoRedirect}
              ELSE {[kind |-> "MOVED", slot |-> s, server |-> owner[s]]}

(* The slot of the command on the wire. *)
SlotOnWire ==
    CASE step = "CMD" -> commands[idx + 1]
      [] step = "WATCH" -> hashSlot
      [] OTHER -> None

(* A queued block runs if nothing went wrong while it was queued and all of it
   belongs to one slot this node serves. *)
Runnable(n, queue) ==
    LET keyed == {queue[i] : i \in DOMAIN queue} \ {None}
    IN  ~config.clustered \/ (/\ Cardinality(keyed) <= 1
                       /\ \A s \in keyed : NoRedirect \in Redirections(n, s))

Reply(n, what, ses) ==
    /\ frame' = [dir |-> "response", reply |-> what]
    /\ session' = [session EXCEPT ![n] = [ses EXCEPT !.asking = @ /\ ses.multi]]

(* The answer to a command the node serves and the session it leaves. *)
Served(n, ses, s) ==
    CASE step = "WATCH" ->
            IF ses.multi THEN <<"error", [ses EXCEPT !.dirty = TRUE]>>
            ELSE <<"ok", [ses EXCEPT !.watch = IF @ = "no" THEN "intact" ELSE @]>>
      [] step = "CMD" /\ idx = 0 ->
            IF ses.multi THEN <<"error", ses>> ELSE <<"ok", [ses EXCEPT !.multi = TRUE]>>
      [] step = "CMD" /\ idx > 0 ->
            <<"ok", IF ses.multi /\ ~ses.dirty THEN [ses EXCEPT !.queue = Append(@, s)] ELSE ses>>
      [] step = "EXEC" ->
            <<IF ~ses.multi \/ ses.dirty THEN "error"
              ELSE IF ses.watch = "touched" THEN "nil"
              ELSE IF Runnable(n, ses.queue) THEN "result" ELSE "error", NoSession>>
      [] step = "DISCARD" -> <<IF ses.multi THEN "discarded" ELSE "error", NoSession>>
      [] step = "ASKING" -> <<"ok", ses>>

NodeAnswers ==
    /\ frame.dir = "request"
    /\ \E r \in Redirections(target, SlotOnWire) :
         IF r = NoRedirect
         THEN LET ses == session[target]
                  out == Served(target, ses, SlotOnWire)
              IN  /\ IF step = "ASKING"
                     THEN /\ frame' = [dir |-> "response", reply |-> "ok"]
                          /\ session' = [session EXCEPT ![target].asking = TRUE]
                     ELSE Reply(target, out[1], out[2])
                  /\ executed' = IF out[1] = "result"
                                 THEN Append(executed, [queue |-> ses.queue, watch |-> ses.watch])
                                 ELSE executed
                  /\ UNCHANGED redirect
         ELSE /\ redirect' = r
              /\ Reply(target, r.kind, [session[target] EXCEPT !.dirty = session[target].multi])
              /\ UNCHANGED executed
    /\ UNCHANGED <<clientVars, hasher, answer, pc, step, target, server, idx,
                   attempted, after, rx, reconnects, cache, conn, owner, importer,
                   lost, faults>>

(* An error of the node itself (loading, out of memory, no permission). *)
NodeRejects ==
    /\ frame.dir = "request"
    /\ faults < MaxFaults
    /\ (IF step = "CMD" /\ idx = 0 THEN "MULTI" ELSE step) \in Rejects
    /\ faults' = faults + 1
    /\ Reply(target, "error", [session[target] EXCEPT !.dirty = session[target].multi])
    /\ UNCHANGED <<clientVars, runVars, cache, conn, owner, importer, executed,
                   lost>>

(* Another client writes a watched key. *)
WatchedKeyTouched(n) ==
    /\ session[n].watch = "intact"
    /\ session' = [session EXCEPT ![n].watch = "touched"]
    /\ UNCHANGED <<clientVars, runVars, cache, conn, frame, nodeVars>>

(* A slot starts to migrate, and its migration ends. *)
MigrationStarts(s, n) ==
    /\ config.clustered /\ faults < MaxFaults
    /\ importer[s] = None /\ owner[s] # n
    /\ importer' = [importer EXCEPT ![s] = n]
    /\ faults' = faults + 1
    /\ UNCHANGED <<clientVars, runVars, connVars, owner, executed, lost>>

MigrationEnds(s) ==
    /\ importer[s] # None
    /\ owner' = [owner EXCEPT ![s] = importer[s]]
    /\ importer' = [importer EXCEPT ![s] = None]
    /\ UNCHANGED <<clientVars, runVars, connVars, executed, lost, faults>>

-----------------------------------------------------------------------------
(* transactions::run.                                                      *)

(* Router::find_connection *)
FindConnection ==
    IF config.clustered THEN IF hasher = None THEN None ELSE cache[hasher]
    ELSE IF conn[Primary] = "none" THEN None ELSE Primary

FirstStepUnlessRetried == IF config.watched /\ attempted = 0 THEN "WATCH" ELSE "CMD"

(* WATCH goes before the commands of every attempt. *)
FirstStep == IF config.watched THEN "WATCH" ELSE "CMD"

(* The top of the outer loop. *)
StartAttempt ==
    /\ pc = "start"
    /\ idx' = 0
    /\ server' = FindConnection
    /\ rx' = "none"
    /\ IF FindConnection = None
       THEN /\ pc' = IF config.clustered THEN "sync" ELSE "reconnect"
            /\ after' = "restart"
            /\ UNCHANGED <<step, target>>
       ELSE /\ Write(FirstStep, FindConnection)
            /\ UNCHANGED after
    /\ UNCHANGED <<clientVars, hasher, answer, attempted, redirect, reconnects,
                   connVars, nodeVars>>

(* clustered::sync: the cached owners are those of CLUSTER SLOTS, a node that owns
   slots gets a connection if it has none, any other loses the one it has. *)
SyncedState ==
    LET owners == {owner[s] : s \in Slots}
        kept == {n \in owners : conn[n] # "none"}
    IN  /\ cache' = owner
        /\ conn' = [n \in Nodes |-> IF n \in kept THEN conn[n]
                                    ELSE IF n \in owners THEN "up" ELSE "none"]
        /\ session' = [n \in Nodes |-> IF n \in kept THEN session[n] ELSE NoSession]

(* Router::sync_cluster when no connection fits, a reconnection if it fails. *)
SyncCluster ==
    /\ pc = "sync"
    /\ \/ /\ SyncedState
          /\ pc' = "start"
          /\ attempted' = Incr(attempted)
          /\ UNCHANGED faults
       \/ /\ faults < MaxFaults
          /\ faults' = faults + 1
          /\ pc' = "reconnect"
          /\ UNCHANGED <<cache, conn, session, attempted>>
    /\ UNCHANGED <<clientVars, hasher, answer, step, target, server, idx, after,
                   redirect, rx, reconnects, frame, owner, importer, executed,
                   lost>>

(* Mutant: EXEC follows the last command but one. *)
OnContinueShort ==
    /\ pc = "await" /\ rx = "Continue"
    /\ step \in {"WATCH", "CMD"}
    /\ LET done == IF step = "WATCH" THEN 0 ELSE idx + 1
       IN  /\ idx' = done
           /\ Write(IF done + 1 < Len(commands) THEN "CMD" ELSE "EXEC", server)
    /\ rx' = "none"
    /\ UNCHANGED <<clientVars, hasher, answer, server, attempted, after, redirect,
                   reconnects, connVars, nodeVars>>

(* TransactionResponse::Continue: the next command, EXEC after the last. *)
OnContinue ==
    /\ pc = "await" /\ rx = "Continue"
    /\ step \in {"WATCH", "CMD"}
    /\ LET done == IF step = "WATCH" THEN 0 ELSE idx + 1
       IN  /\ idx' = done
           /\ Write(IF done < Len(commands) THEN "CMD" ELSE "EXEC", server)
    /\ rx' = "none"
    /\ UNCHANGED <<clientVars, hasher, answer, server, attempted, after, redirect,
                   reconnects, connVars, nodeVars>>

(* TransactionResponse::Retry: DISCARD unless nothing was queued yet. *)
OnRetry ==
    /\ pc = "await" /\ rx = "Retry"
    /\ step \in {"WATCH", "CMD", "EXEC"}
    /\ IF step = "WATCH"
       THEN /\ IF attempted >= MaxAttempts
               THEN pc' = "done" /\ Respond("io")
               ELSE pc' = "reconnect" /\ UNCHANGED answer
            /\ after' = "restart"
            /\ UNCHANGED <<step, target>>
       ELSE /\ Write("DISCARD", server)
            /\ after' = "retry"
            /\ UNCHANGED answer
    /\ rx' = "none"
    /\ UNCHANGED <<clientVars, hasher, server, idx, attempted, redirect, reconnects,
                   connVars, nodeVars>>

(* The inner binding of `server` shadows the server of the attempt: DISCARD goes
   to the node the redirection names. *)
DiscardTarget == redirect.server

(* TransactionResponse::Redirection: the slot is stamped on every command; not
   bounded by max_command_attempts. *)
OnRedirection ==
    /\ pc = "await" /\ rx = "Redirection"
    /\ step \in {"WATCH", "CMD", "EXEC"}
    /\ CASE step = "WATCH" ->
              /\ pc' = "redirect"
              /\ hasher' = redirect.slot
              /\ UNCHANGED <<step, target, after>>
         [] step = "CMD" ->
              /\ Write("DISCARD", DiscardTarget)
              /\ hasher' = redirect.slot
              /\ after' = "redirect"
         [] step = "EXEC" ->
              /\ Write("DISCARD", server)
              /\ after' = "cluster"
              /\ UNCHANGED hasher
    /\ rx' = "none"
    /\ UNCHANGED <<clientVars, answer, server, idx, attempted, redirect, reconnects,
                   connVars, nodeVars>>

(* TransactionResponse::Finished: the frame goes to the caller as it is. *)
OnFinished ==
    /\ pc = "await" /\ rx = "Finished"
    /\ step = "EXEC"
    /\ Respond(frame.reply)
    /\ pc' = "done"
    /\ rx' = "none"
    /\ UNCHANGED <<clientVars, hasher, step, target, server, idx, attempted, after,
                   redirect, reconnects, connVars, nodeVars>>

Fatal == step = "EXEC" \/ (step = "CMD" /\ config.abort)

(* Mutant: the error goes to the caller and DISCARD is forgotten. *)
OnErrorNoDiscard ==
    /\ pc = "await" /\ rx = "Error"
    /\ step \in {"WATCH", "CMD", "EXEC"}
    /\ IF Fatal
       THEN pc' = "done" /\ Respond("error") /\ UNCHANGED <<idx, step, target>>
       ELSE LET done == IF step = "WATCH" THEN 0 ELSE idx + 1
            IN  /\ idx' = done
                /\ Write(IF done < Len(commands) THEN "CMD" ELSE "EXEC", server)
                /\ UNCHANGED answer
    /\ rx' = "none"
    /\ UNCHANGED <<clientVars, hasher, server, attempted, redirect, after,
                   reconnects, connVars, nodeVars>>

(* RouterResponse::TransactionError: fatal with abort_on_error, which send_exec
   sets and WATCH clears. *)
OnError ==
    /\ pc = "await" /\ rx = "Error"
    /\ step \in {"WATCH", "CMD", "EXEC"}
    /\ IF Fatal
       THEN /\ Write("DISCARD", server)
            /\ after' = "error"
            /\ UNCHANGED idx
       ELSE LET done == IF step = "WATCH" THEN 0 ELSE idx + 1
            IN  /\ idx' = done
                /\ Write(IF done < Len(commands) THEN "CMD" ELSE "EXEC", server)
                /\ UNCHANGED after
    /\ rx' = "none"
    /\ UNCHANGED <<clientVars, hasher, answer, server, attempted, redirect,
                   reconnects, connVars, nodeVars>>

(* The attempts check that follows a DISCARD after a lost connection. *)
RetryChecked ==
    IF attempted >= MaxAttempts
    THEN pc' = "done" /\ Respond("io") /\ UNCHANGED after
    ELSE pc' = "reconnect" /\ after' = "restart" /\ UNCHANGED answer

(* DISCARD ended in whatever way: its result is only logged. *)
AfterDiscard ==
    /\ pc = "await" /\ rx # "none" /\ step = "DISCARD"
    /\ CASE after = "retry" -> RetryChecked
         [] after = "redirect" -> pc' = "redirect" /\ UNCHANGED <<answer, after>>
         [] OTHER -> pc' = "done" /\ Respond(after) /\ UNCHANGED after
    /\ rx' = "none"
    /\ UNCHANGED <<clientVars, hasher, step, target, server, idx, attempted, redirect,
                   reconnects, connVars, nodeVars>>

EndRun(how) == pc' = "ended" /\ Respond(how)

(* next_reconnection_delay *)
NextDelay == reconnects < MaxReconnects

(* reconnect_with_policy: every connection is made anew and the cluster state is
   read again; a failed round uses up a delay, and without one the error leaves
   run and ends the router task, dropping the response channel. *)
Reconnect ==
    /\ pc = "reconnect"
    /\ \/ /\ NextDelay
          /\ IF config.clustered
             THEN /\ cache' = owner
                  /\ conn' = [n \in Nodes |-> IF \E s \in Slots : owner[s] = n
                                              THEN "up" ELSE "none"]
             ELSE /\ conn' = [n \in Nodes |-> IF n = Primary THEN "up" ELSE "none"]
                  /\ UNCHANGED cache
          /\ session' = [n \in Nodes |-> NoSession]
          /\ pc' = "start"
          /\ attempted' = Incr(attempted)
          /\ reconnects' = 0
          /\ UNCHANGED <<answer, faults>>
       \/ /\ NextDelay
          /\ faults < MaxFaults
          /\ faults' = faults + 1
          /\ reconnects' = reconnects + 1
          /\ conn' = [n \in Nodes |-> "none"]
          /\ session' = [n \in Nodes |-> NoSession]
          /\ UNCHANGED <<pc, answer, attempted, cache>>
       \/ /\ ~NextDelay
          /\ EndRun("canceled")
          /\ UNCHANGED <<attempted, reconnects, cache, conn, session, faults>>
    /\ frame' = NoFrame
    /\ UNCHANGED <<clientVars, hasher, step, target, server, idx, after, redirect,
                   rx, owner, importer, executed, lost>>

(* Router::cluster_redirection reads the cached owner: it syncs if that is the
   node MOVED names already. *)
ShouldSync == cache[redirect.slot] = redirect.server

(* A failed redirection is tried again after the next delay of the policy; without
   one the error leaves run. *)
RedirectFails ==
    /\ IF NextDelay
       THEN pc' = "redirect" /\ reconnects' = reconnects + 1 /\ UNCHANGED answer
       ELSE EndRun("canceled") /\ UNCHANGED reconnects
    /\ UNCHANGED attempted

(* cluster_redirect_with_policy and the MOVED half of cluster_redirection. *)
RedirectMoved ==
    /\ pc = "redirect" /\ redirect.kind = "MOVED"
    /\ \/ /\ IF ShouldSync THEN SyncedState ELSE UNCHANGED <<cache, conn, session>>
          /\ pc' = "start"
          /\ attempted' = Incr(attempted)
          /\ UNCHANGED <<answer, reconnects, faults>>
       \/ /\ ShouldSync
          /\ faults < MaxFaults
          /\ faults' = faults + 1
          /\ RedirectFails
          /\ UNCHANGED <<cache, conn, session>>
    /\ UNCHANGED <<clientVars, hasher, step, target, server, idx, after, redirect, rx,
                   frame, owner, importer, executed, lost>>

(* The ASK half: a connection to the importing node unless one works, then ASKING
   on it. *)
RedirectAsk ==
    /\ pc = "redirect" /\ redirect.kind = "ASK"
    /\ LET n == redirect.server
           working == conn[n] \in {"up", "closing"}
       IN  \/ /\ conn' = [conn EXCEPT ![n] = IF working THEN @ ELSE "up"]
              /\ Write("ASKING", n)
              /\ rx' = "none"
              /\ UNCHANGED <<answer, attempted, reconnects, faults>>
           \/ /\ ~working
              /\ faults < MaxFaults
              /\ faults' = faults + 1
              /\ RedirectFails
              /\ UNCHANGED <<step, target, rx, conn>>
    /\ UNCHANGED <<clientVars, hasher, server, idx, after, redirect, cache, session,
                   frame, owner, importer, executed, lost>>

(* ASKING was answered, or could not be written. *)
AfterAsking ==
    /\ pc = "await" /\ step = "ASKING" /\ rx # "none"
    /\ IF rx = "Continue"
       THEN pc' = "start" /\ attempted' = Incr(attempted) /\ UNCHANGED <<answer, reconnects>>
       ELSE RedirectFails
    /\ rx' = "none"
    /\ UNCHANGED <<clientVars, hasher, step, target, server, idx, after, redirect,
                   connVars, nodeVars>>

-----------------------------------------------------------------------------
RunNext ==
    \/ StartAttempt \/ SyncCluster \/ WriteOnce \/ WriteOnceFails
    \/ OnContinue \/ OnRetry \/ OnRedirection \/ OnFinished \/ OnError
    \/ AfterDiscard \/ Reconnect \/ RedirectMoved \/ RedirectAsk \/ AfterAsking

Next ==
    \/ \E s \in Slots \cup {None} : QueueCommand(s)
    \/ Exec \/ CallerTimeout
    \/ RunNext
    \/ ReadResponse \/ NodeAnswers \/ NodeRejects
    \/ \E n \in Nodes : Break(n) \/ ReaderEnds(n) \/ WatchedKeyTouched(n)
    \/ \E s \in Slots, n \in Nodes : MigrationStarts(s, n)
    \/ \E s \in Slots : MigrationEnds(s)

(* The router task, the reader tasks and the nodes keep running. *)
Fairness ==
    /\ WF_vars(RunNext)
    /\ WF_vars(ReadResponse)
    /\ WF_vars(NodeAnswers)
    /\ \A n \in Nodes : WF_vars(ReaderEnds(n))

Spec == Init /\ [][Next]_vars /\ Fairness
-----------------------------------------------------------------------------
(* Properties.                                                             *)

(* Whatever breaks, moves or is retried, a block that EXEC runs is the whole
   sequence the caller queued after MULTI: the outer loop starts every attempt at
   the first command, and a session left over from an earlier attempt is never
   completed. *)
ExecutesWhole == \A i \in DOMAIN executed : executed[i].queue = Tail(commands)

(* What exec returns says whether the block ran: a result means that it ran once
   more than the responses that were lost, an error or nil that every run of it
   lost its response. *)
AnswerExact ==
    /\ answer = "result" => Len(executed) = lost + 1
    /\ answer \in {"nil", "error", "io", "cluster", "canceled"} => Len(executed) = lost

(* With watch_before a block never runs unless the keys were watched on that very
   connection and nobody touched them: every attempt sends WATCH again (for nodes
   that accept WATCH, since run ignores its errors). *)
WatchHonoured ==
    config.watched /\ "WATCH" \notin Rejects =>
        \A i \in DOMAIN executed : executed[i].watch = "intact"

(* The commands of a block that the node they are sent to can run at all. *)
OneSlot(s) == \A i \in DOMAIN commands : commands[i] \in {s, None}

(* When run is over no connection is left inside MULTI, although the DISCARD that
   follows a redirection goes to the wrong node: a block on one slot is sent to one
   node until every connection is made anew.  (A block whose slots end up on two nodes
   can leave one of them inside MULTI: update_hash_slot only asks that they share a
   node when they are queued.) *)
ConnectionRestored ==
    pc = "done" /\ (~config.clustered \/ \E s \in Slots : OneSlot(s)) =>
        \A n \in Nodes : conn[n] = "up" => ~session[n].multi

(* A command waits on a connection whose reader task is gone: ASKING has no router
   channel, and a DISCARD may be written while the reader task is ending. *)
Stranded ==
    /\ pc = "await" /\ rx = "none" /\ frame.dir = "none"
    /\ conn[target] # "up"
    /\ step = "ASKING" \/ config.threads

(* run ends, unless it follows redirections for ever, synchronizes a cluster in
   which it has no hash slot for ever, or is stranded. *)
Ends ==
    \/ []<>(pc = "redirect")
    \/ []<>(pc = "sync")
    \/ pc = "start" ~> (pc \in {"done", "ended"} \/ Stranded)

(* Transaction::exec says that MOVED and ASK errors are followed automatically:
   the caller of a transaction on a healthy cluster gets an answer. *)
RedirectsFollowed == answer = "waiting" ~> answer # "waiting"
=============================================================================
