------------------------------ MODULE Lifecycle ------------------------------
(***************************************************************************)
(* The life of a client: connect(), quit(), wait_for_connect() and the     *)
(* connection tasks.  The client state, the notification channels and the  *)
(* receiver of the command channel are shared by every clone of a client,  *)
(* so that several connect() and quit() calls interleave with each other   *)
(* and with the reconnection loop.  A broadcast reaches the receivers that *)
(* exist when it is sent and no others.                                    *)
(***************************************************************************)
EXTENDS Naturals, Sequences, Functions

CONSTANTS
    ConnectCalls,   \* calls of connect(), one spawned task each
    QuitCalls,      \* calls of quit()
    SendCalls,      \* calls that send an ordinary command
    WaitCalls,      \* calls of wait_for_connect()
    LifecycleFails, \* bound: failed connection attempts
    LifecycleDrops  \* bound: lost connections

VARIABLES
    failFast,      \* config.fail_fast
    clientState,   \* inner.state
    task,          \* where each connection task is
    loop,          \* where its reconnection loop returns to
    rxCell,        \* whether command_rx holds the receiver
    channel,       \* the command channel: calls, and "Reconnect" messages
    wire,          \* the connection of each task's router: none, up, lost
    buffered,      \* written and not answered: the shared buffer of the command loop
    stored,        \* the retry buffer of the command loop
    awaited,       \* the QUIT whose router channel the command loop waits on
    quitting,      \* where each quit() is
    sending,       \* where each ordinary call is
    waiter,        \* where each wait_for_connect() is
    fails,
    losses

wireVars == <<wire, buffered, stored, awaited>>
lifecycleVars == <<failFast, clientState, task, loop, rxCell, channel, wireVars, quitting, sending,
                   waiter, fails, losses>>

LifecycleStart(f) ==
    /\ failFast = f /\ clientState = "Disconnected"
    /\ task = [t \in ConnectCalls |-> "new"] /\ loop = [t \in ConnectCalls |-> "taking"]
    /\ rxCell = TRUE /\ channel = <<>>
    /\ wire = [t \in ConnectCalls |-> "none"] /\ buffered = <<>> /\ stored = <<>> /\ awaited = <<>>
    /\ quitting = [q \in QuitCalls |-> "new"] /\ sending = [s \in SendCalls |-> "new"]
    /\ waiter = [w \in WaitCalls |-> "new"]
    /\ fails = 0 /\ losses = 0

LifecycleInit == \E f \in BOOLEAN : LifecycleStart(f)

Goto(t, where) == task' = [task EXCEPT ![t] = where]

(* broadcast_connect: the waiters that have subscribed receive the result. *)
broadcast_connect(result) ==
    waiter' = [w \in WaitCalls |-> IF waiter[w] = "subscribed" THEN result ELSE waiter[w]]

(* connect() spawns the task; start() sleeps first. *)
connect(t) ==
    /\ task[t] = "new"
    /\ Goto(t, "starting")
    /\ UNCHANGED <<failFast, wireVars, clientState, loop, rxCell, channel, quitting, sending,
                   waiter, fails, losses>>

(* start(): only a disconnected client may connect; the call is refused otherwise. *)
start(t) ==
    /\ task[t] = "starting"
    /\ IF clientState = "Disconnected"
       THEN clientState' = "Connecting" /\ Goto(t, IF failFast THEN "dialing" ELSE "delay")
       ELSE UNCHANGED clientState /\ Goto(t, "failed")
    /\ UNCHANGED <<failFast, wireVars, loop, rxCell, channel, quitting, sending, waiter, fails,
                   losses>>

(* wait_with_interrupt subscribes to the close notifications only now. *)
Delay(t) ==
    /\ task[t] = "delay"
    /\ Goto(t, "sleeping")
    /\ UNCHANGED <<failFast, wireVars, clientState, loop, rxCell, channel, quitting, sending,
                   waiter, fails, losses>>

(* reconnect_once begins with the state, whatever it was. *)
Wake(t) ==
    /\ task[t] = "sleeping"
    /\ Goto(t, "dialing")
    /\ clientState' = "Connecting"
    /\ UNCHANGED <<failFast, wireVars, loop, rxCell, channel, quitting, sending, waiter, fails,
                   losses>>

(* Connected.  retry_buffer writes what waits again, whoever waits for its reply, and
   the router then the QUIT it was handed back. *)
DialOk(t) ==
    /\ task[t] = "dialing"
    /\ clientState' = "Connected"
    /\ broadcast_connect("ok")
    /\ wire' = [wire EXCEPT ![t] = "up"]
    /\ IF loop[t] = "processing"
       THEN buffered' = stored \o buffered \o awaited /\ stored' = <<>>
       ELSE UNCHANGED <<buffered, stored>>
    /\ Goto(t, loop[t])
    /\ UNCHANGED <<failFast, loop, rxCell, channel, awaited, quitting, sending, fails, losses>>

(* A failed attempt ends a fail-fast start, which reports it here and again when the
   task ends; otherwise the policy gives another delay or, at its limit, the error. *)
DialFails(t) ==
    /\ task[t] = "dialing" /\ fails < LifecycleFails
    /\ fails' = fails + 1
    /\ IF failFast /\ loop[t] = "taking"
       THEN UNCHANGED clientState /\ broadcast_connect("error") /\ Goto(t, "failed")
       ELSE /\ clientState' = "Disconnected" /\ UNCHANGED waiter
            /\ \/ Goto(t, "delay")
               \/ Goto(t, IF loop[t] = "taking" THEN "failed" ELSE "aborting")
    /\ UNCHANGED <<failFast, wireVars, loop, rxCell, channel, quitting, sending, losses>>

(* A slip: the receiver stays in its cell. *)
take_command_rx_shared(t) ==
    /\ task[t] = "taking"
    /\ IF rxCell THEN Goto(t, "processing") ELSE Goto(t, "failed")
    /\ loop' = [loop EXCEPT ![t] = "processing"]
    /\ UNCHANGED <<failFast, wireVars, clientState, rxCell, channel, quitting, sending, waiter,
                   fails, losses>>

(* take_command_rx: the second task to come here is refused, connected as it is. *)
take_command_rx(t) ==
    /\ task[t] = "taking"
    /\ IF rxCell THEN Goto(t, "processing") ELSE Goto(t, "failed")
    /\ rxCell' = FALSE
    /\ loop' = [loop EXCEPT ![t] = "processing"]
    /\ UNCHANGED <<failFast, wireVars, clientState, channel, quitting, sending, waiter, fails,
                   losses>>

(* broadcast_reader_error: a reader task that ends asks for a reconnection, but not
   while the client disconnects. *)
AskReconnect(messages) ==
    IF clientState = "Disconnecting" THEN messages ELSE Append(messages, "Reconnect")

Answered(calls) ==
    /\ quitting' = [q \in QuitCalls |-> IF q \in calls THEN "answered" ELSE quitting[q]]
    /\ sending' = [s \in SendCalls |-> IF s \in calls THEN "answered" ELSE sending[s]]

(* process_commands takes the next message unless the router waits for a reply. *)
NextMessage(t, m) ==
    /\ task[t] = "processing" /\ awaited = <<>>
    /\ channel # <<>> /\ m = Head(channel)

(* A Reconnect is skipped when there is a working connection. *)
TakeReconnect(t) ==
    /\ NextMessage(t, "Reconnect")
    /\ channel' = Tail(channel)
    /\ IF wire[t] = "up" THEN UNCHANGED task ELSE Goto(t, "delay")
    /\ UNCHANGED <<failFast, clientState, loop, rxCell, wireVars, quitting, sending, waiter,
                   fails, losses>>

(* A slip: QUIT is written only while the state is the one that quit() sets. *)
SendsIfQuitting(t, m) ==
    /\ wire[t] # "none"
    /\ m \in QuitCalls => clientState = "Disconnecting"
    /\ buffered' = Append(buffered, m)
    /\ awaited' = IF m \in QuitCalls THEN <<m>> ELSE <<>>
    /\ UNCHANGED <<task, wire, stored>>

(* Sent, or swallowed by a broken connection: the router waits for QUIT, and pipelines
   anything else. *)
Sends(t, m) ==
    /\ wire[t] # "none"
    /\ buffered' = Append(buffered, m)
    /\ awaited' = IF m \in QuitCalls THEN <<m>> ELSE <<>>
    /\ UNCHANGED <<task, wire, stored>>

(* The write fails: the connection is dropped, what it carried and the command wait in
   the retry buffer, and the router goes on. *)
FailsToSend(t, m) ==
    /\ wire[t] = "lost"
    /\ wire' = [wire EXCEPT ![t] = "none"]
    /\ stored' = stored \o buffered \o <<m>> /\ buffered' = <<>>
    /\ UNCHANGED <<task, awaited>>

(* There is no connection: the error ends the command loop. *)
MissesConnection(t, m) ==
    /\ wire[t] = "none"
    /\ stored' = Append(stored, m)
    /\ Goto(t, "aborting")
    /\ UNCHANGED <<wire, buffered, awaited>>

write_with_backpressure(t) ==
    /\ \E m \in QuitCalls \union SendCalls :
          NextMessage(t, m) /\ (Sends(t, m) \/ FailsToSend(t, m) \/ MissesConnection(t, m))
    /\ channel' = Tail(channel)
    /\ UNCHANGED <<failFast, clientState, loop, rxCell, quitting, sending, waiter, fails,
                   losses>>

(* The oldest command is answered.  The server closes the connection after QUIT, and
   the reply ends the loop of a router that waits for it; nobody waits for the reply of
   a QUIT that came from the retry buffer. *)
ReaderReply(t) ==
    /\ task[t] = "processing" /\ wire[t] = "up" /\ buffered # <<>>
    /\ LET c == Head(buffered) IN
       /\ Answered({c})
       /\ wire' = [wire EXCEPT ![t] = IF c \in QuitCalls THEN "lost" ELSE "up"]
       /\ channel' = IF c \in QuitCalls THEN AskReconnect(channel) ELSE channel
       /\ awaited' = IF awaited = <<c>> THEN <<>> ELSE awaited
       /\ IF awaited = <<c>> THEN Goto(t, "leaving") ELSE UNCHANGED task
    /\ buffered' = Tail(buffered)
    /\ UNCHANGED <<failFast, clientState, loop, rxCell, stored, waiter, fails, losses>>

(* The connection is lost and the reader task ends.  check_blocked_router takes a QUIT
   off the front of the buffer and hands it to the router, which reconnects and writes
   it again; if the router does not wait for it, its caller is told. *)
LoseConnection(t) ==
    /\ task[t] = "processing" /\ losses < LifecycleDrops /\ wire[t] = "up"
    /\ losses' = losses + 1
    /\ wire' = [wire EXCEPT ![t] = "lost"]
    /\ IF buffered # <<>> /\ Head(buffered) \in QuitCalls
       THEN /\ buffered' = Tail(buffered)
            /\ IF awaited = <<Head(buffered)>>
               THEN Goto(t, "delay") /\ Answered({})
               ELSE UNCHANGED task /\ Answered({Head(buffered)})
       ELSE UNCHANGED <<task, buffered>> /\ Answered({})
    /\ channel' = AskReconnect(channel)
    /\ UNCHANGED <<failFast, clientState, loop, rxCell, stored, awaited, waiter, fails>>

(* The end of process_commands closes the connection and drops the commands it still
   has; store_command_rx follows, however the loop ended: with QUIT and with an
   interrupted sleep the result is Ok, at the policy's limit it is the error. *)
store_command_rx(t) ==
    /\ task[t] \in {"leaving", "aborting"}
    /\ channel' = IF wire[t] = "up" THEN AskReconnect(channel) ELSE channel
    /\ wire' = [wire EXCEPT ![t] = "none"]
    /\ buffered' = <<>> /\ stored' = <<>> /\ awaited' = <<>>
    /\ Answered(Range(awaited) \union Range(buffered) \union Range(stored))
    /\ rxCell' = TRUE
    /\ Goto(t, IF task[t] = "leaving" THEN "done" ELSE "failed")
    /\ UNCHANGED <<failFast, clientState, loop, waiter, fails, losses>>

(* A slip: the task ends without reporting its error. *)
ConnectEndsQuietly(t) ==
    /\ task[t] \in {"failed", "done"}
    /\ UNCHANGED waiter
    /\ clientState' = "Disconnected"
    /\ Goto(t, "finished")
    /\ UNCHANGED <<failFast, wireVars, loop, rxCell, channel, quitting, sending, fails,
                   losses>>

(* The end of the spawned task: it sets the state even when it was refused. *)
ConnectEnds(t) ==
    /\ task[t] \in {"failed", "done"}
    /\ IF task[t] = "failed" THEN broadcast_connect("error") ELSE UNCHANGED waiter
    /\ clientState' = "Disconnected"
    /\ Goto(t, "finished")
    /\ UNCHANGED <<failFast, wireVars, loop, rxCell, channel, quitting, sending, fails,
                   losses>>

(* quit() sets the state, then wakes the tasks that sleep now, then queues QUIT. *)
quit(q) ==
    /\ quitting[q] = "new"
    /\ quitting' = [quitting EXCEPT ![q] = "marked"]
    /\ clientState' = "Disconnecting"
    /\ UNCHANGED <<failFast, wireVars, task, loop, rxCell, channel, sending, waiter, fails,
                   losses>>

broadcast_close(q) ==
    /\ quitting[q] = "marked"
    /\ quitting' = [quitting EXCEPT ![q] = "queued"]
    /\ task' = [t \in ConnectCalls |-> IF task[t] # "sleeping" THEN task[t]
                                       ELSE IF loop[t] = "taking" THEN "failed" ELSE "leaving"]
    /\ channel' = Append(channel, q)
    /\ UNCHANGED <<failFast, wireVars, clientState, loop, rxCell, sending, waiter, fails,
                   losses>>

(* Sending works whether or not a task runs: the receiver is never dropped. *)
send_to_router(s) ==
    /\ sending[s] = "new"
    /\ sending' = [sending EXCEPT ![s] = "queued"]
    /\ channel' = Append(channel, s)
    /\ UNCHANGED <<failFast, wireVars, clientState, task, loop, rxCell, quitting, waiter,
                   fails, losses>>

(* wait_for_connect reads the state and then subscribes. *)
wait_for_connect(w) ==
    /\ waiter[w] = "new"
    /\ waiter' = [waiter EXCEPT ![w] = IF clientState = "Connected" THEN "ok" ELSE "reading"]
    /\ UNCHANGED <<failFast, wireVars, clientState, task, loop, rxCell, channel, quitting,
                   sending, fails, losses>>

SubscribeConnect(w) ==
    /\ waiter[w] = "reading"
    /\ waiter' = [waiter EXCEPT ![w] = "subscribed"]
    /\ UNCHANGED <<failFast, wireVars, clientState, task, loop, rxCell, channel, quitting,
                   sending, fails, losses>>

TaskSteps(t) ==
    \/ start(t) \/ Delay(t) \/ Wake(t) \/ DialOk(t) \/ DialFails(t) \/ take_command_rx(t)
    \/ TakeReconnect(t) \/ write_with_backpressure(t)
    \/ store_command_rx(t) \/ ConnectEnds(t)

LifecycleNext ==
    \/ \E t \in ConnectCalls : connect(t) \/ TaskSteps(t) \/ ReaderReply(t) \/ LoseConnection(t)
    \/ \E q \in QuitCalls : quit(q) \/ broadcast_close(q)
    \/ \E s \in SendCalls : send_to_router(s)
    \/ \E w \in WaitCalls : wait_for_connect(w) \/ SubscribeConnect(w)

LifecycleSpec == LifecycleInit /\ [][LifecycleNext]_lifecycleVars

(* Spawned tasks run, a server that is connected answers, a call that began goes on,
   and attempts fail a bounded number of times.  Nothing makes a user call. *)
LifecycleFairness ==
    /\ \A t \in ConnectCalls : WF_lifecycleVars(TaskSteps(t)) /\ WF_lifecycleVars(ReaderReply(t))
    /\ \A q \in QuitCalls : WF_lifecycleVars(broadcast_close(q))
    /\ \A w \in WaitCalls : WF_lifecycleVars(SubscribeConnect(w))

LifecycleFairSpec == LifecycleSpec /\ LifecycleFairness
-----------------------------------------------------------------------------
Owns(t) == \/ task[t] \in {"processing", "leaving", "aborting"}
           \/ task[t] \in {"delay", "sleeping", "dialing"} /\ loop[t] = "processing"

(* The receiver of the command channel is in its cell or with exactly one task: however
   connect() and quit() interleave, two routers never take commands from one client, and
   a task that ends gives the receiver back, so the client can connect again. *)
OneCommandLoop ==
    /\ rxCell <=> ~\E t \in ConnectCalls : Owns(t)
    /\ \A t, u \in ConnectCalls : Owns(t) /\ Owns(u) => t = u

(* The command loop lost its connection, nobody asks for another, and q waits for its
   reply or behind one that is waited for. *)
QuitStranded(q) ==
    \E t \in ConnectCalls :
        /\ task[t] = "processing" /\ wire[t] # "up"
        /\ \/ awaited # <<>>
           \/ "Reconnect" \notin Range(channel) /\ q \in Range(buffered) \union Range(stored)

(* A queued QUIT is answered as long as some task takes commands, also when its close
   notification fell between two sleeps of the reconnection loop, when the connection
   is lost under it, and when its write fails and it is replayed.  The exception is a
   connection lost while the client disconnects: the reader task asks for no other, and
   the QUIT stays in a buffer of a loop that still holds the receiver. *)
QuitIsHeard ==
    \A q \in QuitCalls :
        quitting[q] = "queued" ~>
            \/ quitting[q] = "answered" \/ QuitStranded(q)
            \/ \A t \in ConnectCalls : ~Owns(t)

(* A wait_for_connect() that has subscribed while a task is on its way to its first
   connection returns: every way out of start(), a refusal, an interrupt, the policy's
   limit or a connection, is broadcast.  (The interrupted sleep of a later reconnection
   is not: it ends the task with Ok.) *)
WaiterHears ==
    \A w \in WaitCalls :
        (waiter[w] = "subscribed" /\ \E t \in ConnectCalls :
             loop[t] = "taking" /\ task[t] \in {"starting", "delay", "sleeping", "dialing"})
        ~> waiter[w] \in {"ok", "error"}

=============================================================================
