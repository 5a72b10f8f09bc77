---------------------------- MODULE CommandRouter ----------------------------
(***************************************************************************)
(* The life of a command in a centralized fred client.                     *)
(*                                                                         *)
(* Callers append commands to the unbounded command channel.  One router   *)
(* task takes them off, pushes each on the connection's shared buffer and  *)
(* writes its frame.  The server answers in order.  One reader task per    *)
(* connection pairs every response with the front of the shared buffer and *)
(* answers the caller.  When a connection ends the reader asks the router, *)
(* through the same command channel, to reconnect; the router then moves   *)
(* the unanswered commands to its retry buffer and replays them on the     *)
(* next connection.                                                        *)
(*                                                                         *)
(* A step of the model is the code between two await points, or between    *)
(* two critical sections of the shared buffer where the other task may run *)
(* in between.                                                             *)
(***************************************************************************)
EXTENDS Integers, Sequences, FiniteSets, Functions

CONSTANTS
    Commands,        \* the commands callers may send
    Pipelined,       \* the ones should_auto_pipeline accepts
    NoResponses,     \* the ones has_no_responses accepts (bare UNSUBSCRIBE)
    Quits,           \* QUIT and SHUTDOWN
    NoCommand,       \* no command in hand (Option::None)
    MaxAttempts,     \* max_command_attempts
    MaxInFlight,     \* max_in_flight_commands
    Backpressure,    \* "Drain", "Sleep" or "Error" (disable_auto_backpressure)
    HasPolicy,       \* whether a ReconnectPolicy is set
    MaxReconnects,   \* its max_attempts, 0 meaning unlimited
    FailFast,        \* fail_fast
    Timeouts,        \* whether default_command_timeout_ms is set
    MaxFaults,       \* bound: faults and forced reconnections
    MaxConnects      \* bound: calls of connect()

ASSUME CommandsAssumption ==
    /\ Pipelined \subseteq Commands
    /\ NoResponses \subseteq Commands
    /\ Quits \subseteq Commands \ (Pipelined \cup NoResponses)
    /\ NoCommand \notin Commands
    /\ {"Reconnect", "Force"} \cap Commands = {}

ASSUME ConfigAssumption ==
    /\ MaxAttempts \in Nat \ {0}
    /\ MaxInFlight \in Nat
    /\ Backpressure \in {"Drain", "Sleep", "Error"}
    /\ HasPolicy \in BOOLEAN
    /\ MaxReconnects \in Nat
    /\ FailFast \in BOOLEAN
    /\ Timeouts \in BOOLEAN
    /\ MaxFaults \in Nat
    /\ MaxConnects \in Nat

VARIABLES
    chan,       \* the command channel: commands and Reconnect messages
    state,      \* ClientState
    attempts,   \* attempts of the reconnection policy
    outcome,    \* what each caller has seen
    attempted,  \* RedisCommand.attempted
    tx,         \* RedisCommand.router_tx: none, live, or dead (receiver gone)
    skip,       \* RedisCommand.skip_backpressure
    pc,         \* where the router task is
    cmd,        \* the command write_with_backpressure works on
    sending,    \* the command write_command works on, then the one it gives back
    rx,         \* the router's receiving half of the current router channel
    resume,     \* what follows the reconnection in progress
    replay,     \* the local queue of retry_buffer
    retry,      \* Router.buffer
    writer,     \* whether the router holds a writer
    reader,     \* the reader task of that connection
    socket,     \* open, half (the client closed its half) or closed
    buffer,     \* the SharedBuffer of that connection
    inFlight,   \* Counters.in_flight
    requests,   \* frames written and not yet executed by the server
    replies,    \* responses not yet read by the reader task
    orphans,    \* frames of each command left on connections given up
    executed,   \* how often the server executed each command
    order,      \* the commands in the order they entered the channel
    faults,     \* faults so far
    connects    \* calls of connect() so far

callerVars == <<outcome>>
commandVars == <<attempted, tx, skip>>
routerVars == <<pc, cmd, sending, rx, resume, replay, retry>>
connVars == <<writer, reader, socket, buffer, inFlight, requests, replies>>
policyVars == <<state, attempts>>
envVars == <<orphans, executed, order, faults, connects>>
vars == <<chan, policyVars, callerVars, commandVars, routerVars, connVars, envVars>>

States == {"Disconnected", "Connecting", "Connected", "Disconnecting"}
Final == {"ok", "error", "attempts", "backpressure", "canceled", "timeout"}
Places == {"stopped", "recv", "write", "sleep", "frame", "count", "await",
           "delay", "connect", "replay", "rframe", "rcount",
           "closeWrite", "closeConnect", "closeReplay", "closeStop"}

-----------------------------------------------------------------------------
(* Helpers.                                                                *)

(* A sequence without the elements of a set, in the same order. *)
Without(s, S) ==
    LET kept == {i \in DOMAIN s : s[i] \notin S}
    IN  [k \in 1..Cardinality(kept) |->
           s[CHOOSE i \in kept : Cardinality({j \in kept : j <= i}) = k]]

Occurrences(s, c) == Cardinality({i \in DOMAIN s : s[i] = c})

Optional(c) == IF c = NoCommand THEN <<>> ELSE <<c>>

AnswerTwice(o, S, how) == [c \in Commands |-> IF c \in S THEN how ELSE o[c]]

(* RedisCommand::respond_to_caller: only the first answer reaches a caller,
   and none does after the caller gave up. *)
Answer(o, S, how) ==
    [c \in Commands |-> IF c \in S /\ o[c] = "waiting" THEN how ELSE o[c]]

(* A command dropped with its response sender leaves its caller with the
   canceled error of the closed oneshot channel. *)
Dropped(o, S) == Answer(o, S, "canceled")

(* A dropped receiver turns the sender a command still holds into a dead one. *)
ReceiverGone(t) ==
    [c \in Commands |-> IF t[c] = "live" THEN "dead" ELSE t[c]]

(* The command that travels in the router channel, if any. *)
InChannel == IF rx = "closed" THEN {cmd} \ {NoCommand} ELSE {}

TimedOut(c) == outcome[c] = "timeout"

UnblockForgotten(c, message) == rx

(* respond_to_router: a message to a receiver that is gone is lost. *)
Unblock(c, message) == IF tx[c] = "live" THEN message ELSE rx

PopOldest(b) == [command |-> Head(b), rest |-> Tail(b)]

(* The newest command of the buffer and the ones before it. *)
Last(b) == b[Len(b)]
Front(b) == SubSeq(b, 1, Len(b) - 1)

(* pop_recent_command *)
PopRecent(b) == [command |-> Last(b), rest |-> Front(b)]

DecrForgotten(n) == n

(* incr_in_flight and decr_in_flight *)
IncrInFlight(n) == n + 1
DecrInFlight(n) == n - 1

RequeueFailedFirst(kept, drained, failed) == Optional(failed) \o kept \o drained
RequeueWithoutFailed(kept, drained, failed) == kept \o drained

(* buffer_commands with what graceful_close returned, then buffer_command with
   the command whose write failed, if it is to be tried again. *)
Requeue(kept, drained, failed) == kept \o drained \o Optional(failed)

(* RedisWriter::is_working *)
Working == writer /\ reader # "done"

(* ReconnectPolicy::should_reconnect, also the guard of next_delay *)
PolicyAllows == HasPolicy /\ (MaxReconnects = 0 \/ attempts < MaxReconnects)

(* RedisClientInner::should_reconnect *)
ShouldReconnect == PolicyAllows /\ state # "Disconnecting"

SinkLeftOpen == UNCHANGED socket

(* graceful_close closes the sink first; the server may still answer what it
   has read. *)
CloseSink == socket' = IF writer /\ socket = "open" THEN "half" ELSE socket

(* next_reconnection_delay, then the wait before reconnect_once; without a
   delay the error ends the router task. *)
StartReconnect ==
    IF PolicyAllows
    THEN /\ pc' = "delay"
         /\ attempts' = attempts + 1
         /\ UNCHANGED socket
    ELSE /\ pc' = "closeStop"
         /\ CloseSink
         /\ UNCHANGED attempts

-----------------------------------------------------------------------------
Init ==
    /\ chan = <<>>
    /\ state = "Disconnected"
    /\ attempts = 0
    /\ outcome = [c \in Commands |-> "unsent"]
    /\ attempted = [c \in Commands |-> 0]
    /\ tx = [c \in Commands |-> "none"]
    /\ skip = [c \in Commands |-> FALSE]
    /\ pc = "stopped"
    /\ cmd = NoCommand
    /\ sending = NoCommand
    /\ rx = "none"
    /\ resume = "recv"
    /\ replay = <<>>
    /\ retry = <<>>
    /\ writer = FALSE
    /\ reader = "none"
    /\ socket = "closed"
    /\ buffer = <<>>
    /\ inFlight = 0
    /\ requests = <<>>
    /\ replies = <<>>
    /\ orphans = [c \in Commands |-> 0]
    /\ executed = [c \in Commands |-> 0]
    /\ order = <<>>
    /\ faults = 0
    /\ connects = 0


-----------------------------------------------------------------------------
(* The callers.                                                            *)

(* ClientLike::connect and router::commands::start: refused unless the client
   is Disconnected; every way out of connect() leaves it Disconnected. *)
Connect ==
    /\ pc = "stopped"
    /\ connects < MaxConnects
    /\ connects' = connects + 1
    /\ IF state # "Disconnected" \/ (~FailFast /\ ~HasPolicy)
       THEN /\ state' = "Disconnected"
            /\ attempts' = IF state = "Disconnected" THEN 0 ELSE attempts
            /\ UNCHANGED <<pc, resume>>
       ELSE /\ state' = "Connecting"
            /\ attempts' = IF FailFast THEN 0 ELSE 1
            /\ pc' = IF FailFast THEN "connect" ELSE "delay"
            /\ resume' = "start"
    /\ UNCHANGED <<chan, callerVars, commandVars, cmd, sending, rx, replay, retry,
                   connVars, orphans, executed, order, faults>>

(* default_send_command and send_to_router: the receiver is kept across
   connections, so the send always succeeds. *)
Send(c) ==
    /\ outcome[c] = IF c \in Quits THEN "closing" ELSE "unsent"
    /\ outcome' = [outcome EXCEPT ![c] = "waiting"]
    /\ chan' = Append(chan, c)
    /\ order' = Append(order, c)
    /\ UNCHANGED <<policyVars, commandVars, routerVars, connVars,
                   orphans, executed, faults, connects>>

(* quit and shutdown up to the send: the close broadcast interrupts a router
   that sleeps in wait_with_interrupt, unless the sleep has elapsed as well. *)
BeginQuit(c) ==
    /\ c \in Quits
    /\ outcome[c] = "unsent"
    /\ state' = "Disconnecting"
    /\ \/ /\ outcome' = [outcome EXCEPT ![c] = "closing"]
          /\ UNCHANGED <<tx, pc, cmd, rx, socket>>
       \/ /\ pc = "delay"
          /\ pc' = "closeStop"
          /\ outcome' = [outcome EXCEPT ![c] = "closing"]
          /\ CloseSink
          /\ UNCHANGED <<tx, cmd, rx>>
       \/ /\ pc = "sleep"
          /\ pc' = "recv"
          /\ outcome' = [Answer(outcome, {cmd}, "error") EXCEPT ![c] = "closing"]
          /\ tx' = [tx EXCEPT ![cmd] = "none"]
          /\ cmd' = NoCommand
          /\ rx' = "none"
          /\ UNCHANGED socket
    /\ UNCHANGED <<chan, attempts, attempted, skip, sending, resume, replay, retry,
                   writer, reader, buffer, inFlight, requests, replies, envVars>>

(* wait_for_response and its map_err: the caller stops waiting and flags the
   command, wherever it is. *)
TimeOut(c) ==
    /\ Timeouts
    /\ c \notin Quits
    /\ outcome[c] = "waiting"
    /\ outcome' = [outcome EXCEPT ![c] = "timeout"]
    /\ UNCHANGED <<chan, policyVars, commandVars, routerVars, connVars, envVars>>

(* force_reconnection *)
ForceReconnection ==
    /\ faults < MaxFaults
    /\ faults' = faults + 1
    /\ chan' = Append(chan, "Force")
    /\ UNCHANGED <<policyVars, callerVars, commandVars, routerVars, connVars,
                   orphans, executed, order, connects>>

-----------------------------------------------------------------------------
(* The router task: taking messages and writing commands.                  *)

(* process_commands, process_normal_command *)
ReceiveCommand ==
    /\ pc = "recv"
    /\ chan # <<>>
    /\ Head(chan) \in Commands
    /\ chan' = Tail(chan)
    /\ cmd' = Head(chan)
    /\ pc' = "write"
    /\ UNCHANGED <<policyVars, callerVars, commandVars, sending, rx, resume, replay,
                   retry, connVars, envVars>>

(* process_reconnect: skipped for a server whose reader task still runs. *)
ReceiveReconnect ==
    /\ pc = "recv"
    /\ chan # <<>>
    /\ Head(chan) \in {"Reconnect", "Force"}
    /\ chan' = Tail(chan)
    /\ IF Working /\ Head(chan) = "Reconnect"
       THEN UNCHANGED <<pc, attempts, socket, resume>>
       ELSE StartReconnect /\ resume' = "recv"
    /\ UNCHANGED <<state, callerVars, commandVars, cmd, sending, rx, replay, retry,
                   writer, reader, buffer, inFlight, requests, replies, envVars>>

ChannelNotStored(t) == t

(* The router channel of the iteration: write_with_backpressure makes a new
   one for every command that is not pipelined. *)
WithChannel(t) == IF cmd \in Pipelined THEN t ELSE [t EXCEPT ![cmd] = "live"]
Receiver == IF cmd \in Pipelined THEN rx ELSE "empty"

(* incr_check_attempted *)
Tried == [attempted EXCEPT ![cmd] = @ + 1]

(* Written::Ignore: the command and its router channel are dropped. *)
Ignored(o) ==
    /\ pc' = "recv"
    /\ outcome' = o
    /\ tx' = [tx EXCEPT ![cmd] = "none"]
    /\ cmd' = NoCommand
    /\ rx' = "none"

(* Router::write_command after the last attempt *)
WriteRefused ==
    /\ pc = "write"
    /\ attempted[cmd] >= MaxAttempts
    /\ attempted' = Tried
    /\ Ignored(Answer(outcome, {cmd}, "attempts"))
    /\ UNCHANGED <<chan, policyVars, skip, sending, resume, replay, retry, connVars, envVars>>

(* centralized::send_command without a writer: the command is queued, and the
   error ends the router task. *)
MissingConnection ==
    /\ pc = "write"
    /\ attempted[cmd] < MaxAttempts
    /\ ~writer
    /\ attempted' = Tried
    /\ retry' = Append(retry, cmd)
    /\ tx' = ReceiverGone(WithChannel(tx))
    /\ pc' = "closeStop"
    /\ cmd' = NoCommand
    /\ rx' = "none"
    /\ UNCHANGED <<chan, policyVars, callerVars, skip, sending, resume, replay,
                   connVars, envVars>>

(* utils::write_command with a writer, for a command whose caller gave up *)
WriteTimedOut ==
    /\ pc = "write"
    /\ attempted[cmd] < MaxAttempts
    /\ writer
    /\ TimedOut(cmd)
    /\ attempted' = Tried
    /\ Ignored(outcome)
    /\ UNCHANGED <<chan, policyVars, skip, sending, resume, replay, retry, connVars, envVars>>

(* check_backpressure *)
Overloaded(c) == ~skip[c] /\ inFlight > MaxInFlight

CanWriteTimedOut ==
    /\ pc = "write"
    /\ attempted[cmd] < MaxAttempts
    /\ writer

CanWrite ==
    /\ pc = "write"
    /\ attempted[cmd] < MaxAttempts
    /\ writer
    /\ ~TimedOut(cmd)

(* Written::Backpressure followed by Backpressure::wait *)
ApplyBackpressure ==
    /\ CanWrite
    /\ Overloaded(cmd)
    /\ attempted' = Tried
    /\ \/ /\ Backpressure = "Error"
          /\ Ignored(Answer(outcome, {cmd}, "backpressure"))
          /\ UNCHANGED skip
       \/ /\ Backpressure = "Sleep"
          /\ pc' = "sleep"
          /\ tx' = WithChannel(tx)
          /\ rx' = Receiver
          /\ UNCHANGED <<outcome, skip, cmd>>
       \/ /\ Backpressure = "Drain"
          /\ skip' = [skip EXCEPT ![cmd] = WithChannel(tx)[cmd] = "none"]
          /\ tx' = [tx EXCEPT ![cmd] = "live"]
          /\ rx' = "empty"
          /\ UNCHANGED <<outcome, pc, cmd>>
    /\ UNCHANGED <<chan, policyVars, sending, resume, replay, retry, connVars, envVars>>

(* The end of the Sleep policy's wait *)
SleepElapsed ==
    /\ pc = "sleep"
    /\ pc' = "write"
    /\ UNCHANGED <<chan, policyVars, callerVars, commandVars, cmd, sending, rx, resume,
                   replay, retry, connVars, envVars>>

(* RedisWriter::push_command: a command that has no response is answered here
   and does not enter the shared buffer. *)
PushCommand ==
    /\ CanWrite
    /\ ~Overloaded(cmd)
    /\ attempted' = Tried
    /\ pc' = "frame"
    /\ sending' = cmd
    /\ IF cmd \in NoResponses
       THEN /\ outcome' = Answer(outcome, {cmd}, "ok")
            /\ rx' = IF Receiver = "none" THEN "none" ELSE "continue"
            /\ tx' = [tx EXCEPT ![cmd] = "none"]
            /\ UNCHANGED buffer
       ELSE /\ buffer' = Append(buffer, cmd)
            /\ rx' = Receiver
            /\ tx' = WithChannel(tx)
            /\ UNCHANGED outcome
    /\ UNCHANGED <<chan, policyVars, skip, cmd, resume, replay, retry, writer, reader,
                   socket, inFlight, requests, replies, envVars>>

-----------------------------------------------------------------------------
(* The router task: the frame, on the way of a new command (frame) or of a
   replayed one (rframe).                                                  *)

(* RedisWriter::write_frame up to the socket; a write to a socket the peer has
   closed may still succeed. *)
WriteFrame ==
    /\ pc \in {"frame", "rframe"}
    /\ reader # "done"
    /\ requests' = IF socket = "open" /\ sending \notin NoResponses
                   THEN Append(requests, sending) ELSE requests
    /\ pc' = IF pc = "frame" THEN "count" ELSE "rcount"
    /\ UNCHANGED <<chan, policyVars, callerVars, commandVars, cmd, sending, rx, resume,
                   replay, retry, writer, reader, socket, buffer, inFlight, replies, envVars>>

(* write_frame after the socket, where the response may have been processed
   already; then Written::Sent, or the next command of retry_buffer. *)
CountFrame ==
    /\ pc \in {"count", "rcount"}
    /\ inFlight' = IncrInFlight(inFlight)
    /\ sending' = NoCommand
    /\ pc' = IF pc = "rcount" THEN "replay"
             ELSE IF rx = "none" THEN "recv" ELSE "await"
    /\ cmd' = IF pc = "count" /\ rx = "none" THEN NoCommand ELSE cmd
    /\ UNCHANGED <<chan, policyVars, callerVars, commandVars, rx, resume, replay, retry,
                   writer, reader, socket, buffer, requests, replies, envVars>>

(* should_send_write_error *)
ShouldSendWriteError(c) == attempted[c] >= MaxAttempts \/ ~HasPolicy

(* utils::write_command after a write error: the most recent command of the
   shared buffer is taken back, whichever it is.  With the buffer empty the
   result is Written::Ignore, else Written::Disconnect. *)
WriteFails ==
    /\ pc \in {"frame", "rframe"}
    /\ reader = "done" \/ socket = "closed"
    /\ rx' = "none"
    /\ cmd' = IF pc = "frame" THEN NoCommand ELSE cmd
    /\ IF buffer = <<>>
       THEN /\ pc' = IF pc = "frame" THEN "recv" ELSE "replay"
            /\ sending' = NoCommand
            /\ outcome' = Dropped(outcome, InChannel)
            /\ tx' = ReceiverGone(tx)
            /\ UNCHANGED <<buffer, socket>>
       ELSE LET last == PopRecent(buffer).command
            IN  /\ pc' = IF pc = "frame" THEN "closeWrite" ELSE "closeReplay"
                /\ buffer' = PopRecent(buffer).rest
                /\ CloseSink
                /\ IF ShouldSendWriteError(last)
                   THEN /\ outcome' = Answer(Dropped(outcome, InChannel), {last}, "error")
                        /\ sending' = NoCommand
                        /\ tx' = [ReceiverGone(tx) EXCEPT ![last] = "none"]
                   ELSE /\ outcome' = Dropped(outcome, InChannel)
                        /\ sending' = last
                        /\ tx' = ReceiverGone(tx)
    /\ UNCHANGED <<chan, policyVars, attempted, skip, resume, replay, retry, writer,
                   reader, inFlight, requests, replies, envVars>>

UnblockedAfterQuit ==
    /\ pc = "await"
    /\ rx \in {"continue", "dropped"}
    /\ rx' = "none"
    /\ cmd' = NoCommand
    /\ pc' = "recv"
    /\ UNCHANGED <<chan, policyVars, callerVars, commandVars, sending, resume, replay,
                   retry, connVars, envVars>>

(* handle_router_response, with a command that was answered or dropped *)
RouterUnblocked ==
    /\ pc = "await"
    /\ rx \in {"continue", "dropped"}
    /\ rx' = "none"
    /\ cmd' = NoCommand
    /\ IF cmd \in Quits
       THEN pc' = "closeStop" /\ CloseSink
       ELSE pc' = "recv" /\ UNCHANGED socket
    /\ UNCHANGED <<chan, policyVars, callerVars, commandVars, sending, resume, replay,
                   retry, writer, reader, buffer, inFlight, requests, replies, envVars>>

(* handle_router_response with RouterResponse::ConnectionClosed: the router
   reconnects, then writes the command again unless it is out of attempts. *)
RouterSeesClose ==
    /\ pc = "await"
    /\ rx = "closed"
    /\ rx' = "none"
    /\ IF attempted[cmd] >= MaxAttempts
       THEN /\ outcome' = Answer(outcome, {cmd}, "error")
            /\ cmd' = NoCommand
            /\ resume' = IF cmd \in Quits THEN "end" ELSE "recv"
       ELSE /\ resume' = "rewrite"
            /\ UNCHANGED <<outcome, cmd>>
    /\ StartReconnect
    /\ UNCHANGED <<chan, state, commandVars, sending, replay, retry, writer, reader,
                   buffer, inFlight, requests, replies, envVars>>

-----------------------------------------------------------------------------
(* The router task: closing a connection.                                  *)

(* graceful_close after the sink: the reader task has ended and the shared
   buffer is drained.  What the server has not executed yet it may still
   execute later. *)
ReaderGone == ~writer \/ reader = "done"

ReleaseConnection ==
    /\ writer' = FALSE
    /\ reader' = "none"
    /\ socket' = "closed"
    /\ buffer' = <<>>
    /\ inFlight' = 0
    /\ requests' = <<>>
    /\ replies' = <<>>
    /\ orphans' = [c \in Commands |-> orphans[c] + Occurrences(requests, c)]

(* Written::Disconnect in write_with_backpressure *)
ClosedAfterWrite ==
    /\ pc = "closeWrite"
    /\ ReaderGone
    /\ ReleaseConnection
    /\ retry' = Requeue(retry, buffer, sending)
    /\ sending' = NoCommand
    /\ pc' = "recv"
    /\ UNCHANGED <<chan, policyVars, callerVars, commandVars, cmd, rx, resume, replay,
                   executed, order, faults, connects>>

(* Router::connect, which first disconnects and keeps the unanswered commands *)
ClosedBeforeConnect ==
    /\ pc = "closeConnect"
    /\ ReaderGone
    /\ ReleaseConnection
    /\ retry' = Requeue(retry, buffer, NoCommand)
    /\ pc' = "connect"
    /\ UNCHANGED <<chan, policyVars, callerVars, commandVars, cmd, sending, rx, resume,
                   replay, executed, order, faults, connects>>

(* The end of process_commands, start and connect(): in-flight and queued
   commands are dropped with the retry buffer. *)
ClosedAndStopped ==
    /\ pc = "closeStop"
    /\ ReaderGone
    /\ ReleaseConnection
    /\ outcome' = Dropped(outcome, Range(retry) \cup Range(buffer) \cup {cmd})
    /\ tx' = [c \in Commands |-> "none"]
    /\ retry' = <<>>
    /\ cmd' = NoCommand
    /\ state' = "Disconnected"
    /\ pc' = "stopped"
    /\ UNCHANGED <<chan, attempts, attempted, skip, sending, rx, resume, replay,
                   executed, order, faults, connects>>

-----------------------------------------------------------------------------
(* The router task: reconnect_with_policy and retry_buffer.                *)

(* reconnect_once up to the closing of the old connection *)
DelayElapsed ==
    /\ pc = "delay"
    /\ pc' = "closeConnect"
    /\ state' = "Connecting"
    /\ CloseSink
    /\ UNCHANGED <<chan, attempts, callerVars, commandVars, cmd, sending, rx, resume,
                   replay, retry, writer, reader, buffer, inFlight, requests, replies, envVars>>

(* initialize_connection, split_and_initialize, and the start of retry_buffer *)
ConnectionMade ==
    /\ pc = "connect"
    /\ writer' = TRUE
    /\ reader' = "reading"
    /\ socket' = "open"
    /\ replay' = retry
    /\ retry' = <<>>
    /\ pc' = "replay"
    /\ UNCHANGED <<chan, policyVars, callerVars, commandVars, cmd, sending, rx, resume,
                   buffer, inFlight, requests, replies, envVars>>

(* A failed attempt: start() with fail_fast gives up, everything else tries
   again as the policy allows. *)
ConnectionRefused ==
    /\ pc = "connect"
    /\ faults < MaxFaults
    /\ faults' = faults + 1
    /\ IF FailFast /\ resume = "start"
       THEN pc' = "closeStop" /\ UNCHANGED <<state, attempts, socket>>
       ELSE state' = "Disconnected" /\ StartReconnect
    /\ UNCHANGED <<chan, callerVars, commandVars, cmd, sending, rx, resume, replay, retry,
                   writer, reader, buffer, inFlight, requests, replies,
                   orphans, executed, order, connects>>

(* Where the caller of reconnect_with_policy goes on *)
AfterReconnect ==
    CASE resume = "rewrite" -> "write"
      [] resume = "end"     -> "closeStop"
      [] OTHER              -> "recv"

(* retry_buffer: a replayed command skips backpressure, keeps the router
   channel it may have, and is dropped when its caller gave up or when it is
   out of attempts. *)
ReplayCommand ==
    /\ pc = "replay"
    /\ replay # <<>>
    /\ replay' = Tail(replay)
    /\ LET c == Head(replay)
       IN  IF TimedOut(c)
           THEN /\ tx' = [tx EXCEPT ![c] = "none"]
                /\ UNCHANGED <<attempted, skip, outcome, buffer, sending, pc>>
           ELSE /\ skip' = [skip EXCEPT ![c] = TRUE]
                /\ attempted' = [attempted EXCEPT ![c] = @ + 1]
                /\ IF attempted[c] >= MaxAttempts
                   THEN /\ outcome' = Answer(outcome, {c}, "attempts")
                        /\ tx' = [tx EXCEPT ![c] = "none"]
                        /\ UNCHANGED <<buffer, sending, pc>>
                   ELSE /\ buffer' = Append(buffer, c)
                        /\ sending' = c
                        /\ pc' = "rframe"
                        /\ UNCHANGED <<outcome, tx>>
    /\ UNCHANGED <<chan, policyVars, cmd, rx, resume, retry, writer, reader, socket,
                   inFlight, requests, replies, envVars>>

(* reconnect_once after retry_buffer went through *)
ReplayFinished ==
    /\ pc = "replay"
    /\ replay = <<>>
    /\ state' = "Connected"
    /\ attempts' = 0
    /\ pc' = AfterReconnect
    /\ IF resume = "end" THEN CloseSink ELSE UNCHANGED socket
    /\ UNCHANGED <<chan, callerVars, commandVars, cmd, sending, rx, resume, replay, retry,
                   writer, reader, buffer, inFlight, requests, replies, envVars>>

(* retry_buffer after a write error: the drained queue goes with its remaining
   commands, and reconnect_once still reports Connected. *)
ClosedDuringReplay ==
    /\ pc = "closeReplay"
    /\ ReaderGone
    /\ ReleaseConnection
    /\ retry' = Requeue(retry, buffer, sending)
    /\ sending' = NoCommand
    /\ outcome' = Dropped(outcome, Range(replay))
    /\ tx' = [c \in Commands |-> IF c \in Range(replay) THEN "none" ELSE tx[c]]
    /\ replay' = <<>>
    /\ state' = "Connected"
    /\ attempts' = 0
    /\ pc' = AfterReconnect
    /\ UNCHANGED <<chan, attempted, skip, cmd, rx, resume, executed, order, faults, connects>>

-----------------------------------------------------------------------------
(* The reader task.                                                        *)

(* process_response_frame and respond_to_caller; what was received before the
   end of the connection may still be read.  The server closes the connection
   after it has answered QUIT. *)
ReadResponse ==
    /\ reader = "reading"
    /\ replies # <<>>
    /\ replies' = Tail(replies)
    /\ IF buffer = <<>>
       THEN UNCHANGED <<buffer, inFlight, outcome, tx, rx, socket>>
       ELSE LET c == Head(buffer)
            IN  /\ buffer' = Tail(buffer)
                /\ inFlight' = DecrInFlight(inFlight)
                /\ outcome' = Answer(outcome, {c}, "ok")
                /\ tx' = [tx EXCEPT ![c] = "none"]
                /\ rx' = Unblock(c, "continue")
                /\ socket' = IF c \in Quits THEN "closed" ELSE socket
    /\ UNCHANGED <<chan, policyVars, attempted, skip, pc, cmd, sending, resume, replay,
                   retry, writer, reader, requests, envVars>>

(* check_blocked_router: only the front of the shared buffer is looked at.  A
   command that holds a dead channel is popped and lost with the message. *)
CheckBlockedRouter ==
    LET c == Head(buffer)
    IN  IF buffer = <<>> \/ tx[c] = "none"
        THEN UNCHANGED <<buffer, outcome, tx, rx>>
        ELSE /\ buffer' = Tail(buffer)
             /\ tx' = [tx EXCEPT ![c] = "none"]
             /\ rx' = Unblock(c, "closed")
             /\ outcome' = IF tx[c] = "live" THEN outcome ELSE Dropped(outcome, {c})

(* The reader loop ends with the socket *)
ReaderSeesEnd ==
    /\ reader = "reading"
    /\ socket = "closed"
    /\ reader' = "final"
    /\ CheckBlockedRouter
    /\ UNCHANGED <<chan, policyVars, attempted, skip, pc, cmd, sending, resume, replay,
                   retry, writer, socket, inFlight, requests, replies, envVars>>

(* The reader loop ends with the socket still open: a protocol error, one of
   the special errors, or an unresponsive connection *)
ReaderFails ==
    /\ reader = "reading"
    /\ socket = "open"
    /\ faults < MaxFaults
    /\ faults' = faults + 1
    /\ reader' = "final"
    /\ CheckBlockedRouter
    /\ UNCHANGED <<chan, policyVars, attempted, skip, pc, cmd, sending, resume, replay,
                   retry, writer, socket, inFlight, requests, replies,
                   orphans, executed, order, connects>>

(* check_final_write_attempt *)
OnFinalAttempt ==
    {c \in Range(buffer) : tx[c] # "none" /\ attempted[c] >= MaxAttempts}

CheckFinalAttempt ==
    /\ reader = "final"
    /\ reader' = "notify"
    /\ buffer' = Without(buffer, OnFinalAttempt)
    /\ outcome' = Answer(outcome, OnFinalAttempt, "error")
    /\ rx' = IF \E c \in OnFinalAttempt : tx[c] = "live" THEN "dropped" ELSE rx
    /\ tx' = [c \in Commands |-> IF c \in OnFinalAttempt THEN "none" ELSE tx[c]]
    /\ UNCHANGED <<chan, policyVars, attempted, skip, pc, cmd, sending, resume, replay,
                   retry, writer, socket, inFlight, requests, replies, envVars>>

(* broadcast_reader_error and send_reconnect *)
NotifyRouter ==
    /\ reader = "notify"
    /\ reader' = "ending"
    /\ chan' = IF ShouldReconnect THEN Append(chan, "Reconnect") ELSE chan
    /\ UNCHANGED <<policyVars, callerVars, commandVars, routerVars, writer, socket, buffer,
                   inFlight, requests, replies, envVars>>

(* The task returns: from here on is_finished is true *)
ReaderEnds ==
    /\ reader = "ending"
    /\ reader' = "done"
    /\ UNCHANGED <<chan, policyVars, callerVars, commandVars, routerVars, writer, socket,
                   buffer, inFlight, requests, replies, envVars>>

-----------------------------------------------------------------------------
(* The server and the network.                                             *)

(* Commands of one connection are executed and answered in order *)
ServerExecutes ==
    /\ requests # <<>>
    /\ socket # "closed"
    /\ requests' = Tail(requests)
    /\ replies' = Append(replies, Head(requests))
    /\ executed' = [executed EXCEPT ![Head(requests)] = @ + 1]
    /\ UNCHANGED <<chan, policyVars, callerVars, commandVars, routerVars, writer, reader,
                   socket, buffer, inFlight, orphans, order, faults, connects>>

(* A frame left on an old connection may be executed after the client has
   moved on *)
ServerExecutesOrphan(c) ==
    /\ orphans[c] > 0
    /\ orphans' = [orphans EXCEPT ![c] = @ - 1]
    /\ executed' = [executed EXCEPT ![c] = @ + 1]
    /\ UNCHANGED <<chan, policyVars, callerVars, commandVars, routerVars, connVars,
                   order, faults, connects>>

ConnectionLost ==
    /\ socket = "open"
    /\ faults < MaxFaults
    /\ faults' = faults + 1
    /\ socket' = "closed"
    /\ UNCHANGED <<chan, policyVars, callerVars, commandVars, routerVars, writer, reader,
                   buffer, inFlight, requests, replies, orphans, executed, order, connects>>

(* The server closes its half after the client closed the other *)
ServerCloses ==
    /\ socket = "half"
    /\ socket' = "closed"
    /\ UNCHANGED <<chan, policyVars, callerVars, commandVars, routerVars, writer, reader,
                   buffer, inFlight, requests, replies, envVars>>

-----------------------------------------------------------------------------
CallerNext ==
    \/ Connect
    \/ ForceReconnection
    \/ \E c \in Commands : Send(c) \/ BeginQuit(c) \/ TimeOut(c)

RouterNext ==
    \/ ReceiveCommand \/ ReceiveReconnect
    \/ WriteRefused \/ MissingConnection \/ WriteTimedOut
    \/ ApplyBackpressure \/ SleepElapsed \/ PushCommand
    \/ WriteFrame \/ CountFrame \/ WriteFails
    \/ RouterUnblocked \/ RouterSeesClose
    \/ ClosedAfterWrite \/ ClosedBeforeConnect \/ ClosedAndStopped
    \/ DelayElapsed \/ ConnectionMade \/ ConnectionRefused
    \/ ReplayCommand \/ ReplayFinished \/ ClosedDuringReplay

ReaderNext ==
    \/ ReadResponse \/ ReaderSeesEnd \/ CheckFinalAttempt \/ NotifyRouter \/ ReaderEnds

ServerNext == ServerExecutes \/ ServerCloses

FaultNext ==
    \/ ReaderFails \/ ConnectionLost
    \/ \E c \in Commands : ServerExecutesOrphan(c)

Next == CallerNext \/ RouterNext \/ ReaderNext \/ ServerNext \/ FaultNext

Spec == Init /\ [][Next]_vars

(* The runtime polls every task that can make progress, and the server answers
   what it has read and closes a connection the client has closed.  Callers
   may stop calling and faults need not happen. *)
FairSpec ==
    /\ Spec
    /\ WF_vars(RouterNext)
    /\ WF_vars(ReaderNext)
    /\ WF_vars(ServerExecutes)
    /\ WF_vars(ServerCloses)

-----------------------------------------------------------------------------
(* Properties.                                                             *)

CallerTypes ==
    /\ chan \in Seq(Commands \cup {"Reconnect", "Force"})
    /\ order \in Seq(Commands)
    /\ outcome \in [Commands -> {"unsent", "closing", "waiting"} \cup Final]
CommandTypes ==
    /\ attempted \in [Commands -> Nat]
    /\ tx \in [Commands -> {"none", "live", "dead"}]
    /\ skip \in [Commands -> BOOLEAN]
RouterTypes ==
    /\ pc \in Places
    /\ cmd \in Commands \cup {NoCommand}
    /\ sending \in Commands \cup {NoCommand}
    /\ rx \in {"none", "empty", "continue", "closed", "dropped"}
    /\ resume \in {"recv", "start", "rewrite", "end"}
    /\ replay \in Seq(Commands)
    /\ retry \in Seq(Commands)
    /\ state \in States
    /\ attempts \in Nat
ConnectionTypes ==
    /\ writer \in BOOLEAN
    /\ reader \in {"none", "reading", "final", "notify", "ending", "done"}
    /\ socket \in {"open", "half", "closed"}
StreamTypes ==
    /\ buffer \in Seq(Commands)
    /\ inFlight \in Int
    /\ requests \in Seq(Commands)
    /\ replies \in Seq(Commands)
ServerTypes ==
    /\ orphans \in [Commands -> Nat]
    /\ executed \in [Commands -> Nat]
    /\ faults \in Nat
    /\ connects \in Nat

(* The type invariant: besides the types, the shared buffer and the queues of
   the router hold commands only, and never the None of a taken Option. *)
TypeOK ==
    /\ CallerTypes /\ CommandTypes /\ RouterTypes
    /\ ConnectionTypes /\ StreamTypes /\ ServerTypes

(* process_response_frame pairs a response with the front of the shared buffer
   and nothing else: while the reader task reads, the front of the buffer is
   always the command the next response answers, whatever the router pushes,
   fails to write, takes back or drains in the meantime. *)
ResponseMatchesRequest ==
    reader = "reading" /\ replies # <<>> /\ buffer # <<>> =>
        Head(buffer) = Head(replies)

(* check_backpressure reads in_flight, which write_frame increments only after
   the socket write and process_response_frame decrements: when the router is
   about to read it on a live connection the counter is the number of commands
   in the shared buffer, however the two tasks interleaved. *)
InFlightIsExact ==
    pc = "write" /\ reader = "reading" => inFlight = Len(buffer)

(* Where the router has a command in its hands: write_with_backpressure's
   argument, or the command in a ConnectionClosed message. *)
InHand(c) ==
    /\ cmd = c
    /\ pc \in {"frame", "count", "await"} => rx = "closed"

(* The command a failed write gave back, until it is buffered. *)
GivenBack(c) == sending = c /\ pc \in {"closeWrite", "closeReplay"}

Owners(c) ==
    Occurrences(chan, c) + Occurrences(buffer, c) + Occurrences(retry, c)
      + Occurrences(replay, c)
      + (IF InHand(c) THEN 1 ELSE 0) + (IF GivenBack(c) THEN 1 ELSE 0)

(* A command whose caller waits is in exactly one of the command channel, the
   shared buffer, the retry buffer, the replay queue and the router's hands; it
   is never duplicated by a disconnect, a replay or a message to a blocked
   router, and never disappears without its caller seeing an error. *)
OneOwner ==
    \A c \in Commands :
        /\ Owners(c) <= 1
        /\ outcome[c] = "waiting" => Owners(c) = 1

(* A blocked router waits on a channel whose sending half is in the shared
   buffer of the connection it holds, at the very command it waits for. *)
BlockedRouterHasWaker ==
    pc = "await" /\ rx = "empty" =>
        /\ writer
        /\ tx[cmd] = "live"
        /\ cmd \in Range(buffer)

(* Answers come in the order of the sends: a command is not answered by the
   server while one sent before it still waits, even when a connection was lost
   and commands were replayed.  Bare UNSUBSCRIBE is answered at once. *)
AnswersInOrder ==
    \A i, j \in DOMAIN order :
        /\ i < j
        /\ outcome[order[j]] = "ok"
        /\ order[j] \notin NoResponses
        => outcome[order[i]] # "waiting"

(* utils::write_command and retry_buffer skip a command whose caller gave up:
   once it has timed out outside of a shared buffer it never enters one. *)
TimedOutNeverPushed ==
    [][\A c \in Commands :
          TimedOut(c) /\ c \notin Range(buffer) => c \notin Range(buffer')]_vars

(* The router waits neither for a message nor for a response. *)
Busy == pc \notin {"recv", "await", "stopped"}

(* The loops of write_with_backpressure, graceful_close, reconnect_with_policy
   and retry_buffer end: they lead back to waiting for a message, for a response,
   or to the end of the task, as long as connection attempts do not fail for
   ever. *)
RouterLoopsEnd == Busy ~> ~Busy

(* The router is stuck on a connection whose reader task is gone or skipped
   its only message: idle with unanswered commands, or blocked. *)
Stranded ==
    \/ pc = "await" /\ reader = "done"
    \/ pc = "recv" /\ chan = <<>> /\ (~writer \/ reader = "done")

(* Through backpressure, lost connections, failed writes, reconnections and
   replays every command the router can take is answered, unless the router task
   ends, or is stranded after a fault. *)
AnsweredOrStranded ==
    \A c \in Commands :
        outcome[c] = "waiting" ~>
            outcome[c] # "waiting" \/ pc = "stopped" \/ (Stranded /\ faults > 0)

(* When no connection fails, the future of connect() resolves after quit() has:
   the router task sees the answer to QUIT and leaves process_commands. *)
QuitEndsTask ==
    \A c \in Quits : outcome[c] = "ok" ~> pc = "stopped" \/ faults > 0

(* The client seen by its callers: see RequestService. *)
Promise ==
    INSTANCE RequestService WITH
        Silent <- NoResponses,
        MaxExecutions <- MaxAttempts,
        result <- [c \in Commands |->
                     IF outcome[c] = "closing" THEN "unsent" ELSE outcome[c]],
        executions <- executed

(* The router, the reader and the retry buffer together implement RequestService:
   respond_to_caller reaches a caller once, with a response of the server only
   after the server executed the command, and max_command_attempts bounds the
   executions. *)
KeepsPromise == Promise!Service

-----------------------------------------------------------------------------
(* The inductive invariant the proofs rest on.                             *)

(* Where the router is while it holds no connection, holds one, has a command
   in its hands or writes one. *)
Reconnecting == {"delay", "closeConnect", "connect", "replay", "rframe", "rcount",
                 "closeReplay"}
Closing == {"closeWrite", "closeConnect", "closeReplay", "closeStop"}
Sending == {"frame", "rframe", "count", "rcount"}

Shape ==
    /\ writer => reader # "none"
    /\ ~writer => /\ reader = "none"
                  /\ buffer = <<>> /\ requests = <<>> /\ replies = <<>>
                  /\ inFlight = 0
    /\ pc \in {"stopped", "connect"} => ~writer
    /\ pc \in Sending \cup {"await", "replay"} => writer
    /\ pc \in {"write", "sleep", "frame", "count", "await"} => cmd \in Commands
    /\ pc \in Reconnecting /\ resume = "rewrite" => cmd \in Commands
    /\ pc \in Sending => sending \in Commands
    /\ pc = "frame" => sending = cmd

(* The responses to come on the connection, in order, and the command pushed
   on the shared buffer whose frame is not written yet. *)
Stream == replies \o requests
Unwritten ==
    IF pc \in {"frame", "rframe"} /\ sending \notin NoResponses
    THEN <<sending>> ELSE <<>>

(* The shared buffer and the responses to come agree as far as both go; until
   the router gives the connection up the buffer is not the shorter one, and
   while the socket is open they are the same. *)
InStep ==
    reader = "reading" =>
        /\ \A i \in 1..Len(buffer) : i <= Len(Stream) => buffer[i] = Stream[i]
        /\ pc \notin Closing => Len(buffer) >= Len(Stream) + Len(Unwritten)
        /\ pc \notin Closing /\ socket = "open" => buffer = Stream \o Unwritten

(* The counter lags one behind the buffer between push_command and the end of
   write_frame. *)
CounterLag ==
    reader = "reading" /\ pc \notin Closing /\ NoResponses = {} =>
        Len(buffer) = inFlight + (IF pc \in Sending THEN 1 ELSE 0)

(* Only the command the router works on can reach it. *)
Wakeups ==
    /\ \A c \in Commands : tx[c] = "live" => c = cmd /\ rx = "empty"
    /\ rx # "none" => pc \in {"write", "sleep", "frame", "count", "await"}
    /\ rx = "empty" => tx[cmd] = "live"
    /\ pc \in {"frame", "count", "await"} /\ rx = "empty" => cmd \in Range(buffer)

(* A command without a response is never on a buffer that is replayed: it is
   queued only when there is no writer, and that ends the task. *)
Responding == Commands \ NoResponses

Replayable ==
    /\ buffer \in Seq(Responding)
    /\ replay \in Seq(Responding)
    /\ pc # "closeStop" => retry \in Seq(Responding)
    /\ pc \in {"rframe", "rcount", "closeWrite", "closeReplay"} /\ sending # NoCommand =>
           sending \in Responding

(* What holds between any two steps of the router and the reader task: the parts
   above together.  It is inductive, and ResponseMatchesRequest, InFlightIsExact
   and BlockedRouterHasWaker follow from it. *)
Inv == TypeOK /\ Shape /\ Replayable /\ InStep /\ CounterLag /\ Wakeups

-----------------------------------------------------------------------------
(* What comments and docs say of the client, and the code does not do.     *)

(* retry_buffer: the commands not sent when a replay fails stay buffered. *)
UnsentStayBuffered ==
    [][\A c \in Range(replay) :
          outcome[c] = "waiting" => outcome'[c] # "canceled"]_vars

(* write_with_backpressure: a command in flight when its connection closes is
   taken off the dead connection to run later. *)
InFlightRequeued ==
    \A c \in Commands :
        c \in Range(buffer) /\ reader = "done" ~> c \notin Range(buffer)

=============================================================================
