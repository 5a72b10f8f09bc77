---------------------------- MODULE ClientProofs ----------------------------
(***************************************************************************)
(* Proofs about the parts of a client around its router: the command       *)
(* loops, the flag of blocking commands, the retries of a reconnection,    *)
(* the writer that sentinels lead to, and the subscriptions of a           *)
(* subscriber.                                                             *)
(***************************************************************************)
EXTENDS Lifecycle, Blocking, ReconnectPolicy, Discovery, Subscriber, WellFoundedInduction, TLAPS

-----------------------------------------------------------------------------
(***************************************************************************)
(* One command loop per client, for any number of connect(), quit() and    *)
(* other calls, any number of lost connections and failed attempts.        *)
(***************************************************************************)

TaskStates == {"new", "starting", "delay", "sleeping", "dialing", "taking", "processing", "leaving",
               "aborting", "done", "failed", "finished"}

(* A task that has not reached the command loop yet, and one that is in it: where the
   reconnection loop of the first goes back to is not where that of the second does. *)
Early == {"new", "starting", "taking"}
Late == {"processing", "leaving", "aborting"}

LifecycleTypes ==
    /\ task \in [ConnectCalls -> TaskStates]
    /\ loop \in [ConnectCalls -> {"taking", "processing"}]
    /\ rxCell \in BOOLEAN
    /\ \A t \in ConnectCalls : /\ task[t] \in Early => loop[t] = "taking"
                               /\ task[t] \in Late => loop[t] = "processing"

LifecycleInv == LifecycleTypes /\ OneCommandLoop

(* Whether a task owns the receiver at a place, given where its loop goes back to. *)
OwnsThere(where, back) ==
    \/ where \in {"processing", "leaving", "aborting"}
    \/ where \in {"delay", "sleeping", "dialing"} /\ back = "processing"

(* A step that moves nobody in or out of the command loop and leaves the cell alone. *)
SameOwners == rxCell' = rxCell /\ \A u \in ConnectCalls : Owns(u)' <=> Owns(u)

LEMMA SameOwnersKeep ==
    ASSUME OneCommandLoop, SameOwners
    PROVE  OneCommandLoop'
BY Zenon DEF OneCommandLoop, SameOwners

(* One task moves; the others stay where they are. *)
LEMMA MoveOne ==
    ASSUME LifecycleTypes, NEW t \in ConnectCalls, NEW where \in TaskStates, Goto(t, where), UNCHANGED <<loop, rxCell>>,
           where \in Early => loop[t] = "taking", where \in Late => loop[t] = "processing",
           OwnsThere(where, loop[t]) <=> Owns(t)
    PROVE  LifecycleTypes' /\ SameOwners
<1>1. task' = [task EXCEPT ![t] = where] /\ task'[t] = where
  BY Zenon DEF Goto, LifecycleTypes
<1>2. \A u \in ConnectCalls : u # t => task'[u] = task[u]
  BY Zenon DEF Goto, LifecycleTypes
<1>3. LifecycleTypes'
  BY <1>1, <1>2, Zenon DEF LifecycleTypes
<1>4. Owns(t)' <=> Owns(t)
  BY <1>1, Zenon DEF Owns, OwnsThere
<1>5. \A u \in ConnectCalls : u # t => (Owns(u)' <=> Owns(u))
  BY <1>2, Zenon DEF Owns
<1> QED BY <1>3, <1>4, <1>5, Zenon DEF SameOwners

(* Nothing that matters changes. *)
LEMMA StandStill ==
    ASSUME LifecycleTypes, UNCHANGED <<task, loop, rxCell>>
    PROVE  LifecycleTypes' /\ SameOwners
BY Zenon DEF LifecycleTypes, SameOwners, Owns

(* The receiver is taken by one task, or was taken before. *)
LEMMA Takes ==
    ASSUME LifecycleInv, NEW t \in ConnectCalls, take_command_rx(t)
    PROVE  LifecycleInv'
<1>1. /\ task[t] = "taking" /\ rxCell' = FALSE
      /\ task' = [task EXCEPT ![t] = IF rxCell THEN "processing" ELSE "failed"]
      /\ loop' = [loop EXCEPT ![t] = "processing"]
  BY Zenon DEF take_command_rx, Goto
<1>2. task'[t] = (IF rxCell THEN "processing" ELSE "failed") /\ loop'[t] = "processing"
  BY <1>1, Zenon DEF LifecycleInv, LifecycleTypes
<1>3. \A u \in ConnectCalls : u # t => task'[u] = task[u] /\ loop'[u] = loop[u]
  BY <1>1, Zenon DEF LifecycleInv, LifecycleTypes
<1>4. LifecycleTypes'
  <2>1. task' \in [ConnectCalls -> TaskStates]
    BY <1>1, Zenon DEF LifecycleInv, LifecycleTypes, TaskStates
  <2>2. loop' \in [ConnectCalls -> {"taking", "processing"}]
    BY <1>1, Zenon DEF LifecycleInv, LifecycleTypes
  <2>3. \A u \in ConnectCalls : /\ task'[u] \in Early => loop'[u] = "taking"
                                /\ task'[u] \in Late => loop'[u] = "processing"
    <3> SUFFICES ASSUME NEW u \in ConnectCalls
                 PROVE  /\ task'[u] \in Early => loop'[u] = "taking"
                        /\ task'[u] \in Late => loop'[u] = "processing"
      OBVIOUS
    <3>1. CASE u = t
      BY <1>2, <3>1, Zenon DEF Early
    <3>2. CASE u # t
      BY <1>3, <3>2, Zenon DEF LifecycleInv, LifecycleTypes
    <3> QED BY Zenon, <3>1, <3>2
  <2> QED BY <1>1, <2>1, <2>2, <2>3, Zenon DEF LifecycleTypes
<1>5. ~Owns(t)
  BY <1>1, Zenon DEF Owns
<1>6. \A u \in ConnectCalls : u # t => (Owns(u)' <=> Owns(u))
  BY <1>3, Zenon DEF Owns
<1>7. CASE rxCell
  <2>1. Owns(t)' /\ \A u \in ConnectCalls : u # t => ~Owns(u)'
    BY <1>2, <1>6, <1>7, Zenon DEF Owns, LifecycleInv, OneCommandLoop
  <2> QED BY <1>1, <1>4, <2>1, Zenon DEF LifecycleInv, OneCommandLoop
<1>8. CASE ~rxCell
  <2>1. ~Owns(t)'
    BY <1>2, <1>8, Zenon DEF Owns
  <2>2. PICK u \in ConnectCalls : Owns(u)
    BY <1>8, Zenon DEF LifecycleInv, OneCommandLoop
  <2>3. Owns(u)'
    BY Zenon, <1>5, <1>6, <2>2
  <2> QED BY <1>1, <1>4, <1>5, <1>6, <2>1, <2>2, <2>3, Zenon DEF LifecycleInv, OneCommandLoop
<1> QED BY Zenon, <1>7, <1>8

(* The task that gives the receiver back is the one that had it. *)
LEMMA Stores ==
    ASSUME LifecycleInv, NEW t \in ConnectCalls, store_command_rx(t)
    PROVE  LifecycleInv'
<1>1. /\ task[t] \in {"leaving", "aborting"} /\ rxCell' = TRUE /\ loop' = loop
      /\ task' = [task EXCEPT ![t] = IF task[t] = "leaving" THEN "done" ELSE "failed"]
  BY Zenon DEF store_command_rx, Goto
<1>2. task'[t] \in {"done", "failed"} /\ \A u \in ConnectCalls : u # t => task'[u] = task[u]
  BY <1>1, Zenon DEF LifecycleInv, LifecycleTypes
<1>3. LifecycleTypes'
  BY <1>1, <1>2, Zenon DEF LifecycleInv, LifecycleTypes, TaskStates, Early, Late
<1>4. Owns(t) /\ ~Owns(t)'
  BY <1>1, <1>2, Zenon DEF Owns
<1>5. \A u \in ConnectCalls : u # t => (Owns(u)' <=> Owns(u))
  BY <1>1, <1>2, Zenon DEF Owns
<1>6. \A u \in ConnectCalls : ~Owns(u)'
  BY <1>4, <1>5, Zenon DEF LifecycleInv, OneCommandLoop
<1> QED BY <1>1, <1>3, <1>6, Zenon DEF LifecycleInv, OneCommandLoop

(* Every other step of a task moves it without changing who owns the receiver. *)
LEMMA TaskMoves ==
    ASSUME LifecycleTypes, NEW t \in ConnectCalls,
           \/ connect(t) \/ start(t) \/ Delay(t) \/ Wake(t) \/ DialOk(t) \/ DialFails(t)
           \/ TakeReconnect(t) \/ write_with_backpressure(t) \/ ReaderReply(t) \/ LoseConnection(t)
           \/ ConnectEnds(t)
    PROVE  LifecycleTypes' /\ SameOwners
<1>0. /\ task[t] \in TaskStates /\ loop[t] \in {"taking", "processing"}
      /\ task[t] \in Early => loop[t] = "taking"
      /\ task[t] \in Late => loop[t] = "processing"
  BY Zenon DEF LifecycleTypes
<1> USE DEF TaskStates, Early, Late, Owns, OwnsThere
<1>1. CASE connect(t)
  BY <1>0, <1>1, MoveOne, Zenon DEF connect
<1>2. CASE start(t)
  <2>1. CASE clientState = "Disconnected" /\ failFast
    BY <1>0, <1>2, <2>1, MoveOne, Zenon DEF start
  <2>2. CASE clientState = "Disconnected" /\ ~failFast
    BY <1>0, <1>2, <2>2, MoveOne, Zenon DEF start
  <2>3. CASE clientState # "Disconnected"
    BY <1>0, <1>2, <2>3, MoveOne, Zenon DEF start
  <2> QED BY Zenon, <2>1, <2>2, <2>3
<1>3. CASE Delay(t)
  BY <1>0, <1>3, MoveOne, Zenon DEF Delay
<1>4. CASE Wake(t)
  BY <1>0, <1>4, MoveOne, Zenon DEF Wake
<1>5. CASE DialOk(t)
  BY <1>0, <1>5, MoveOne, Zenon DEF DialOk
<1>6. CASE DialFails(t)
  <2>1. task[t] = "dialing" /\ UNCHANGED <<loop, rxCell>>
    BY <1>6, Zenon DEF DialFails
  <2>2. \/ Goto(t, "delay")
        \/ loop[t] = "taking" /\ Goto(t, "failed")
        \/ loop[t] = "processing" /\ Goto(t, "aborting")
    BY <1>0, <1>6, Zenon DEF DialFails
  <2>3. CASE Goto(t, "delay")
    BY Zenon, <1>0, <2>1, <2>3, MoveOne
  <2>4. CASE loop[t] = "taking" /\ Goto(t, "failed")
    BY Zenon, <1>0, <2>1, <2>4, MoveOne
  <2>5. CASE loop[t] = "processing" /\ Goto(t, "aborting")
    BY Zenon, <1>0, <2>1, <2>5, MoveOne
  <2> QED BY Zenon, <2>2, <2>3, <2>4, <2>5
<1>7. CASE TakeReconnect(t)
  <2>1. task[t] = "processing" /\ UNCHANGED <<loop, rxCell>> /\ (UNCHANGED task \/ Goto(t, "delay"))
    BY <1>7, Zenon DEF TakeReconnect, NextMessage
  <2> QED BY Zenon, <1>0, <2>1, MoveOne, StandStill
<1>8. CASE write_with_backpressure(t)
  <2>1. task[t] = "processing" /\ UNCHANGED <<loop, rxCell>> /\ (UNCHANGED task \/ Goto(t, "aborting"))
    BY <1>8, Zenon DEF write_with_backpressure, NextMessage, Sends, FailsToSend, MissesConnection
  <2> QED BY Zenon, <1>0, <2>1, MoveOne, StandStill
<1>9. CASE ReaderReply(t)
  <2>1. task[t] = "processing" /\ UNCHANGED <<loop, rxCell>> /\ (UNCHANGED task \/ Goto(t, "leaving"))
    BY <1>9, Zenon DEF ReaderReply
  <2> QED BY Zenon, <1>0, <2>1, MoveOne, StandStill
<1>10. CASE LoseConnection(t)
  <2>1. task[t] = "processing" /\ UNCHANGED <<loop, rxCell>> /\ (UNCHANGED task \/ Goto(t, "delay"))
    BY <1>10, Zenon DEF LoseConnection
  <2> QED BY Zenon, <1>0, <2>1, MoveOne, StandStill
<1>11. CASE ConnectEnds(t)
  BY <1>0, <1>11, MoveOne, Zenon DEF ConnectEnds
<1> QED BY Zenon, <1>1, <1>2, <1>3, <1>4, <1>5, <1>6, <1>7, <1>8, <1>9, <1>10, <1>11

(* broadcast_close wakes the sleeping tasks: one that owned the receiver goes on to give
   it back. *)
LEMMA ClosesSleepers ==
    ASSUME LifecycleTypes, NEW q \in QuitCalls, broadcast_close(q)
    PROVE  LifecycleTypes' /\ SameOwners
<1>1. /\ task' = [t \in ConnectCalls |-> IF task[t] # "sleeping" THEN task[t]
                                         ELSE IF loop[t] = "taking" THEN "failed" ELSE "leaving"]
      /\ UNCHANGED <<loop, rxCell>>
  BY Zenon DEF broadcast_close
<1>2. LifecycleTypes'
  BY <1>1, Zenon DEF LifecycleTypes, TaskStates, Early, Late
<1>3. ASSUME NEW u \in ConnectCalls
      PROVE  Owns(u)' <=> Owns(u)
  <2>1. loop[u] \in {"taking", "processing"}
    BY Zenon DEF LifecycleTypes
  <2> QED BY <1>1, <2>1, Zenon DEF Owns
<1> QED BY <1>1, <1>2, <1>3, Zenon DEF SameOwners

(* take_command_rx, store_command_rx and the end of connect(): however calls of connect(),
   quit() and lost connections interleave, one task at a time takes the commands. *)
THEOREM OneLoop == LifecycleSpec => []OneCommandLoop
<1>1. LifecycleInit => LifecycleInv
  <2> SUFFICES ASSUME NEW f \in BOOLEAN, LifecycleStart(f) PROVE LifecycleInv
    BY Zenon DEF LifecycleInit
  <2>1. LifecycleTypes
    BY Zenon DEF LifecycleStart, LifecycleTypes, TaskStates, Late
  <2>2. \A t \in ConnectCalls : ~Owns(t)
    BY Zenon DEF LifecycleStart, Owns
  <2>3. rxCell = TRUE
    BY Zenon DEF LifecycleStart
  <2> QED BY <2>1, <2>2, <2>3, Zenon DEF LifecycleInv, OneCommandLoop
<1>2. LifecycleInv /\ [LifecycleNext]_lifecycleVars => LifecycleInv'
  <2> SUFFICES ASSUME LifecycleInv, [LifecycleNext]_lifecycleVars PROVE LifecycleInv'
    OBVIOUS
  <2>0. LifecycleTypes /\ OneCommandLoop
    BY Zenon DEF LifecycleInv
  <2>1. ASSUME NEW t \in ConnectCalls, connect(t) \/ TaskSteps(t) \/ ReaderReply(t) \/ LoseConnection(t)
        PROVE  LifecycleInv'
    BY <2>0, <2>1, Takes, Stores, TaskMoves, SameOwnersKeep, Zenon DEF TaskSteps, LifecycleInv
  <2>2. ASSUME NEW q \in QuitCalls, quit(q)
        PROVE  LifecycleInv'
    BY <2>0, <2>2, StandStill, SameOwnersKeep, Zenon DEF quit, LifecycleInv
  <2>3. ASSUME NEW q \in QuitCalls, broadcast_close(q)
        PROVE  LifecycleInv'
    BY <2>0, <2>3, ClosesSleepers, SameOwnersKeep, Zenon DEF LifecycleInv
  <2>4. ASSUME NEW s \in SendCalls, send_to_router(s)
        PROVE  LifecycleInv'
    BY <2>0, <2>4, StandStill, SameOwnersKeep, Zenon DEF send_to_router, LifecycleInv
  <2>5. ASSUME NEW w \in WaitCalls, wait_for_connect(w) \/ SubscribeConnect(w)
        PROVE  LifecycleInv'
    BY <2>0, <2>5, StandStill, SameOwnersKeep, Zenon DEF wait_for_connect, SubscribeConnect, LifecycleInv
  <2>6. CASE UNCHANGED lifecycleVars
    BY <2>0, <2>6, StandStill, SameOwnersKeep, Zenon DEF lifecycleVars, wireVars, LifecycleInv
  <2> QED BY <2>1, <2>2, <2>3, <2>4, <2>5, <2>6, Zenon DEF LifecycleNext
<1> QED BY <1>1, <1>2, PTL DEF LifecycleSpec, LifecycleInv

-----------------------------------------------------------------------------
(***************************************************************************)
(* The blocked flag, for any set of commands, any number of broken         *)
(* connections, failed writes and calls of unblock_self: while the server  *)
(* holds the command the router waits for, callers see the flag.           *)
(***************************************************************************)

CallStates == {"new", "checked", "refused", "interrupting", "queued", "written", "buffered", "closed",
               "ok", "error", "canceled"}

(* A call that the router has taken and does not hold in its hands. *)
Past == {"written", "buffered", "ok", "error", "canceled"}

(* The router listens to a router channel. *)
Flagged == {"flagged", "interrupting", "waiting"}
Listening == {"wrote"} \union Flagged

BlockingTypes ==
    /\ sharedBuffer \in Seq(BlockingCommands) /\ retryBuffer \in Seq(BlockingCommands)
    /\ commands \in Seq(BlockingCommands \union {"Reconnect"})
    /\ calls \in [BlockingCommands -> CallStates] /\ current \subseteq BlockingCommands

(* A command is in the channel, in the router's hands or in a buffer: where its call is
   tells which, so that what the router writes is not on the connection yet. *)
ChannelQueued ==
    /\ \A i \in DOMAIN commands : commands[i] \in BlockingCommands => calls[commands[i]] = "queued"
    /\ \A i, j \in DOMAIN commands :
          commands[i] = commands[j] /\ commands[i] \in BlockingCommands => i = j

BuffersPast ==
    /\ \A i \in DOMAIN sharedBuffer : calls[sharedBuffer[i]] \in Past
    /\ \A i \in DOMAIN retryBuffer : calls[retryBuffer[i]] \in Past

HandClosed ==
    /\ writing \in {"reconnecting", "again"} => \A c \in current : calls[c] = "closed"
    /\ writing \in {"idle", "ended"} => current = {}

(* Nothing follows the command the router waits for. *)
CurrentIsLast ==
    writing \in Listening /\ link = "up" /\ sharedBuffer # <<>> =>
        \E c \in BlockingCommands :
            /\ current = {c} /\ calls[c] = "written"
            /\ sharedBuffer[Len(sharedBuffer)] = c
            /\ \A i \in DOMAIN sharedBuffer : sharedBuffer[i] = c => i = Len(sharedBuffer)

(* The server only holds a command of a connection that is up, and commands only wait in
   the retry buffer while there is no connection. *)
HeldIsSent ==
    /\ serving # "no" => link = "up" /\ sharedBuffer # <<>>
    /\ retryBuffer # <<>> => link = "none"

(* Once the router has set it, the flag stays until the command is answered or handed
   back, or another task or command takes it away. *)
FlagStays ==
    writing \in Flagged /\ (\A c \in current : calls[c] = "written") => blocked \/ current \subseteq cleared

BlockingInv ==
    /\ BlockingTypes /\ ChannelQueued /\ BuffersPast /\ HandClosed
    /\ CurrentIsLast /\ HeldIsSent /\ FlagStays
-----------------------------------------------------------------------------
(* What check_final_write_attempt and retry_buffer keep was in the buffer. *)
LEMMA WithoutKeeps ==
    ASSUME NEW s \in Seq(BlockingCommands), NEW gone, NEW t \in Without(s, gone)
    PROVE  /\ t \in Seq(BlockingCommands)
           /\ \A i \in DOMAIN t : t[i] \notin gone /\ \E j \in DOMAIN s : t[i] = s[j]
<1>1. PICK n \in 0 .. Len(s) : t \in [1 .. n -> Range(s) \ gone]
    BY Zenon DEF Without
<1>2. \A x \in Range(s) : x \in BlockingCommands /\ \E j \in DOMAIN s : x = s[j]
    BY DEF Range
<1> QED
    BY <1>1, <1>2

(* A caller that has not queued its command yet. *)
LEMMA CallerKeeps ==
    ASSUME BlockingInv, NEW c \in BlockingCommands, calls[c] \in {"new", "interrupting"},
           NEW v \in {"checked", "refused", "interrupting"}, calls' = [calls EXCEPT ![c] = v],
           UNCHANGED <<blocked, commands, retryBuffer, writing, current, sharedBuffer, link, cleared>>,
           serving' # "no" => serving # "no"
    PROVE  BlockingInv'
<1>1. \A d \in BlockingCommands : calls[d] \in Past \union {"queued", "closed"} => calls'[d] = calls[d]
    BY DEF BlockingInv, BlockingTypes, Past
<1>2. \A d \in BlockingCommands : calls'[d] = "written" => calls[d] = "written"
    BY DEF BlockingInv, BlockingTypes
<1>3. BlockingTypes' /\ HeldIsSent'
    BY DEF BlockingInv, BlockingTypes, HeldIsSent, CallStates
<1>4. ChannelQueued'
    BY <1>1 DEF BlockingInv, ChannelQueued
<1>5. BuffersPast'
    BY <1>1 DEF BlockingInv, BlockingTypes, BuffersPast
<1>6. HandClosed' /\ FlagStays'
    BY <1>1, <1>2 DEF BlockingInv, BlockingTypes, HandClosed, FlagStays
<1>7. CurrentIsLast'
    BY <1>1 DEF BlockingInv, CurrentIsLast, Past
<1> QED
    BY <1>3, <1>4, <1>5, <1>6, <1>7, Zenon DEF BlockingInv

LEMMA SendKeeps ==
    ASSUME BlockingInv, NEW c \in BlockingCommands, send_command(c)
    PROVE  BlockingInv'
<1>1. /\ calls[c] = "checked" /\ calls' = [calls EXCEPT ![c] = "queued"]
      /\ commands' = Append(commands, c)
      /\ UNCHANGED <<blocked, retryBuffer, writing, current, sharedBuffer, serving, link, cleared>>
    BY Zenon DEF send_command
<1>2. \A d \in BlockingCommands : calls[d] # "checked" => d # c /\ calls'[d] = calls[d]
    BY <1>1 DEF BlockingInv, BlockingTypes
<1>3. calls'[c] = "queued"
    BY <1>1 DEF BlockingInv, BlockingTypes
<1>4. BlockingTypes' /\ HeldIsSent'
    BY <1>1 DEF BlockingInv, BlockingTypes, HeldIsSent, CallStates
<1>5. ChannelQueued'
  <2>1. /\ Len(commands') = Len(commands) + 1 /\ commands'[Len(commands) + 1] = c
        /\ DOMAIN commands' = 1 .. (Len(commands) + 1)
        /\ \A i \in DOMAIN commands' : i # Len(commands) + 1 =>
               i \in DOMAIN commands /\ commands'[i] = commands[i]
      BY <1>1 DEF BlockingInv, BlockingTypes
  <2>2. \A i \in DOMAIN commands : commands[i] \in BlockingCommands => commands[i] # c /\ calls'[commands[i]] = "queued"
      BY <1>1, <1>2 DEF BlockingInv, ChannelQueued
  <2>3. \A i \in DOMAIN commands' : commands'[i] \in BlockingCommands => calls'[commands'[i]] = "queued"
      BY <1>3, <2>1, <2>2, Zenon
  <2>4. ASSUME NEW i \in DOMAIN commands', NEW j \in DOMAIN commands',
               commands'[i] = commands'[j], commands'[i] \in BlockingCommands
        PROVE  i = j
      BY <2>1, <2>2, <2>4, Zenon DEF BlockingInv, ChannelQueued
  <2> QED BY <2>3, <2>4, Zenon DEF ChannelQueued
<1>6. BuffersPast'
    BY <1>1, <1>2 DEF BlockingInv, BlockingTypes, BuffersPast, Past
<1>7. HandClosed' /\ FlagStays'
    BY <1>1, <1>2, <1>3 DEF BlockingInv, BlockingTypes, HandClosed, FlagStays
<1>8. CurrentIsLast'
    BY <1>1, <1>2 DEF BlockingInv, CurrentIsLast
<1> QED
    BY <1>4, <1>5, <1>6, <1>7, <1>8, Zenon DEF BlockingInv

(* Steps of the router, the server and unblock_self that leave the calls and the buffers
   alone while the router listens. *)
LEMMA RouterKeeps ==
    ASSUME BlockingInv, UNCHANGED <<calls, commands, retryBuffer, current, sharedBuffer, link>>,
           writing' = writing \/ (writing \in Listening /\ writing' \in Listening),
           HeldIsSent', FlagStays'
    PROVE  BlockingInv'
<1>1. BlockingTypes' /\ ChannelQueued' /\ BuffersPast'
    BY Zenon DEF BlockingInv, BlockingTypes, ChannelQueued, BuffersPast
<1>2. HandClosed'
    BY DEF BlockingInv, HandClosed, Listening, Flagged
<1>3. CurrentIsLast'
    BY Zenon DEF BlockingInv, CurrentIsLast
<1> QED BY <1>1, <1>2, <1>3, Zenon DEF BlockingInv

(* The command in the router's hands is in no buffer and not in the rest of the channel. *)
LEMMA TakenAlone ==
    ASSUME BlockingInv, NEW c \in BlockingCommands, Taken(c)
    PROVE  /\ calls[c] \in {"queued", "closed"}
           /\ commands' \in Seq(BlockingCommands \union {"Reconnect"})
           /\ \A i \in DOMAIN commands' : commands'[i] \in BlockingCommands =>
                  commands'[i] # c /\ calls[commands'[i]] = "queued"
           /\ \A i, j \in DOMAIN commands' :
                  commands'[i] = commands'[j] /\ commands'[i] \in BlockingCommands => i = j
           /\ writing \notin Listening
<1>1. CASE writing = "again" /\ c \in current /\ UNCHANGED commands
  <2>1. calls[c] = "closed"
      BY <1>1, Zenon DEF BlockingInv, HandClosed
  <2>2. writing \notin Listening
      BY <1>1 DEF Listening, Flagged
  <2>3. \A i \in DOMAIN commands : commands[i] \in BlockingCommands => commands[i] # c
      BY <2>1 DEF BlockingInv, ChannelQueued
  <2> QED BY <1>1, <2>1, <2>2, <2>3, Zenon DEF BlockingInv, BlockingTypes, ChannelQueued
<1>2. CASE writing = "idle" /\ commands # <<>> /\ c = Head(commands) /\ commands' = Tail(commands)
  <2>1. /\ commands \in Seq(BlockingCommands \union {"Reconnect"})
        /\ commands' \in Seq(BlockingCommands \union {"Reconnect"})
        /\ c = commands[1] /\ 1 \in DOMAIN commands
        /\ \A i \in DOMAIN commands' : i + 1 \in DOMAIN commands /\ i + 1 # 1 /\ commands'[i] = commands[i + 1]
        /\ \A i, j \in DOMAIN commands' : i + 1 = j + 1 => i = j
      BY <1>2 DEF BlockingInv, BlockingTypes
  <2>2. calls[c] = "queued"
      BY <2>1, Zenon DEF BlockingInv, ChannelQueued
  <2>3. \A i \in DOMAIN commands' : commands'[i] \in BlockingCommands =>
            commands'[i] # c /\ calls[commands'[i]] = "queued"
      BY <2>1 DEF BlockingInv, ChannelQueued
  <2>4. \A i, j \in DOMAIN commands' :
            commands'[i] = commands'[j] /\ commands'[i] \in BlockingCommands => i = j
      BY <2>1, Zenon DEF BlockingInv, ChannelQueued
  <2>5. writing \notin Listening
      BY <1>2 DEF Listening, Flagged
  <2> QED BY <2>1, <2>2, <2>3, <2>4, <2>5
<1> QED BY <1>1, <1>2, Zenon DEF Taken

(* What the router wrote is the last command on the connection, and only there. *)
LEMMA SentKeeps ==
    ASSUME BlockingInv, NEW c \in BlockingCommands, WriteBlocking(c), WriteSent(c)
    PROVE  BlockingInv'
<1>1. /\ calls[c] \in {"queued", "closed"}
      /\ commands' \in Seq(BlockingCommands \union {"Reconnect"})
      /\ \A i \in DOMAIN commands' : commands'[i] \in BlockingCommands =>
             commands'[i] # c /\ calls[commands'[i]] = "queued"
      /\ \A i, j \in DOMAIN commands' :
             commands'[i] = commands'[j] /\ commands'[i] \in BlockingCommands => i = j
    BY TakenAlone, Zenon DEF WriteBlocking
<1>2. /\ calls' = [calls EXCEPT ![c] = "written"]
      /\ sharedBuffer' = Append(sharedBuffer, c)
      /\ \/ writing' = "wrote" /\ current' = {c}
         \/ writing' = "idle" /\ current' = {}
      /\ link # "none" /\ UNCHANGED <<retryBuffer, link, serving>>
    BY Zenon DEF WriteBlocking, WriteSent
<1>3. calls'[c] = "written" /\ \A d \in BlockingCommands : d # c => calls'[d] = calls[d]
    BY <1>2 DEF BlockingInv, BlockingTypes
<1>4. /\ sharedBuffer' \in Seq(BlockingCommands)
      /\ Len(sharedBuffer') = Len(sharedBuffer) + 1
      /\ sharedBuffer'[Len(sharedBuffer')] = c
      /\ \A i \in DOMAIN sharedBuffer' : i # Len(sharedBuffer') =>
             i \in DOMAIN sharedBuffer /\ sharedBuffer'[i] = sharedBuffer[i]
      /\ sharedBuffer' # <<>>
    BY <1>2 DEF BlockingInv, BlockingTypes
<1>5. BlockingTypes'
    BY <1>1, <1>2, <1>4 DEF BlockingInv, BlockingTypes, CallStates
<1>6. ChannelQueued'
    BY <1>1, <1>3, Zenon DEF ChannelQueued
<1>7. \A i \in DOMAIN sharedBuffer : sharedBuffer[i] \in BlockingCommands /\ sharedBuffer[i] # c
    BY <1>1 DEF BlockingInv, BlockingTypes, BuffersPast, Past
<1>8. BuffersPast'
  <2>1. "written" \in Past
      BY DEF Past
  <2>2. \A i \in DOMAIN retryBuffer : retryBuffer[i] \in BlockingCommands
      BY DEF BlockingInv, BlockingTypes
  <2>3. \A i \in DOMAIN sharedBuffer' : calls'[sharedBuffer'[i]] \in Past
      BY <1>3, <1>4, <1>7, <2>1, Zenon DEF BlockingInv, BuffersPast
  <2>4. \A i \in DOMAIN retryBuffer' : calls'[retryBuffer'[i]] \in Past
      BY <1>2, <1>3, <2>1, <2>2, Zenon DEF BlockingInv, BuffersPast
  <2> QED BY <2>3, <2>4, Zenon DEF BuffersPast
<1>9. HandClosed' /\ FlagStays'
    BY <1>2 DEF HandClosed, FlagStays, Flagged
<1>10. HeldIsSent'
    BY <1>2, <1>4 DEF BlockingInv, HeldIsSent
<1>11. CurrentIsLast'
  <2>1. \A i \in DOMAIN sharedBuffer' : sharedBuffer'[i] = c => i = Len(sharedBuffer')
      BY <1>4, <1>7, Zenon
  <2>2. writing' \in Listening => current' = {c}
      BY <1>2 DEF Listening, Flagged
  <2> QED BY <1>3, <1>4, <2>1, <2>2, Zenon DEF CurrentIsLast
<1> QED
    BY <1>5, <1>6, <1>8, <1>9, <1>10, <1>11, Zenon DEF BlockingInv

(* A write that fails: the command and what the connection carried go to the retry buffer. *)
LEMMA DisconnectsKeeps ==
    ASSUME BlockingInv, NEW c \in BlockingCommands, WriteBlocking(c), WriteDisconnects(c)
    PROVE  BlockingInv'
<1>1. /\ calls[c] \in {"queued", "closed"}
      /\ commands' \in Seq(BlockingCommands \union {"Reconnect"})
      /\ \A i \in DOMAIN commands' : commands'[i] \in BlockingCommands =>
             commands'[i] # c /\ calls[commands'[i]] = "queued"
      /\ \A i, j \in DOMAIN commands' :
             commands'[i] = commands'[j] /\ commands'[i] \in BlockingCommands => i = j
    BY TakenAlone, Zenon DEF WriteBlocking
<1>2. PICK v \in {"error", "buffered"}, more \in {<<>>, <<c>>} :
          /\ calls' = [calls EXCEPT ![c] = v]
          /\ retryBuffer' = retryBuffer \o sharedBuffer \o more
    BY Zenon DEF WriteDisconnects
<1>3. /\ sharedBuffer' = <<>> /\ link' = "none" /\ writing' = "idle" /\ current' = {}
      /\ link = "lost" /\ serving' = serving
    BY Zenon DEF WriteBlocking, WriteDisconnects
<1>4. calls'[c] = v /\ \A d \in BlockingCommands : d # c => calls'[d] = calls[d]
    BY <1>2 DEF BlockingInv, BlockingTypes
<1>5. /\ retryBuffer' \in Seq(BlockingCommands)
      /\ \A i \in DOMAIN retryBuffer' :
             \/ retryBuffer'[i] = c
             \/ \E j \in DOMAIN retryBuffer : retryBuffer'[i] = retryBuffer[j]
             \/ \E j \in DOMAIN sharedBuffer : retryBuffer'[i] = sharedBuffer[j]
  <2>1. retryBuffer \in Seq(BlockingCommands) /\ sharedBuffer \in Seq(BlockingCommands)
      BY DEF BlockingInv, BlockingTypes
  <2>2. more \in Seq(BlockingCommands) /\ \A i \in DOMAIN more : more[i] = c
    <3>1. CASE more = <<>>
        BY <3>1
    <3>2. CASE more = <<c>>
        BY <3>2
    <3> QED BY Zenon, <1>2, <3>1, <3>2
  <2> QED BY <1>2, <2>1, <2>2
<1>6. BlockingTypes'
    BY <1>1, <1>2, <1>3, <1>5 DEF BlockingInv, BlockingTypes, CallStates
<1>7. ChannelQueued'
    BY <1>1, <1>4, Zenon DEF ChannelQueued
<1>8. BuffersPast'
  <2>1. \A d \in BlockingCommands : calls[d] \in Past => calls'[d] \in Past
      BY <1>1, <1>4 DEF Past
  <2>2. v \in Past
      BY DEF Past
  <2>3. \A j \in DOMAIN retryBuffer : retryBuffer[j] \in BlockingCommands /\ calls[retryBuffer[j]] \in Past
      BY DEF BlockingInv, BlockingTypes, BuffersPast
  <2>4. \A j \in DOMAIN sharedBuffer : sharedBuffer[j] \in BlockingCommands /\ calls[sharedBuffer[j]] \in Past
      BY DEF BlockingInv, BlockingTypes, BuffersPast
  <2>5. \A i \in DOMAIN retryBuffer' : calls'[retryBuffer'[i]] \in Past
      BY <1>4, <1>5, <2>1, <2>2, <2>3, <2>4, Zenon
  <2>6. \A i \in DOMAIN sharedBuffer' : calls'[sharedBuffer'[i]] \in Past
      BY <1>3
  <2> QED BY <2>5, <2>6, Zenon DEF BuffersPast
<1>9. HandClosed' /\ FlagStays' /\ CurrentIsLast'
    BY <1>3 DEF HandClosed, FlagStays, CurrentIsLast, Flagged
<1>10. HeldIsSent'
    BY <1>3 DEF BlockingInv, HeldIsSent
<1> QED
    BY <1>6, <1>7, <1>8, <1>9, <1>10, Zenon DEF BlockingInv

(* A write without a connection: the task drops the commands it holds. *)
LEMMA EndsKeeps ==
    ASSUME BlockingInv, NEW c \in BlockingCommands, WriteBlocking(c), WriteEnds(c)
    PROVE  BlockingInv'
<1>1. /\ calls[c] \in {"queued", "closed"}
      /\ commands' \in Seq(BlockingCommands \union {"Reconnect"})
      /\ \A i \in DOMAIN commands' : commands'[i] \in BlockingCommands =>
             commands'[i] # c /\ calls[commands'[i]] = "queued"
      /\ \A i, j \in DOMAIN commands' :
             commands'[i] = commands'[j] /\ commands'[i] \in BlockingCommands => i = j
    BY TakenAlone, Zenon DEF WriteBlocking
<1>2. PICK gone : gone = {c} \union Range(retryBuffer)
    BY Zenon
<1>3. /\ calls' = [d \in BlockingCommands |-> IF d \in gone THEN "canceled" ELSE calls[d]]
      /\ retryBuffer' = <<>> /\ writing' = "ended" /\ current' = {}
      /\ UNCHANGED <<sharedBuffer, link, serving>>
    BY <1>2, Zenon DEF WriteBlocking, WriteEnds
<1>4. \A d \in gone : d = c \/ calls[d] \in Past
    BY <1>2 DEF BlockingInv, BuffersPast, Range
<1>5. /\ \A d \in BlockingCommands : calls[d] \in Past => calls'[d] \in Past
      /\ \A d \in BlockingCommands : d # c /\ calls[d] = "queued" => calls'[d] = "queued"
    BY <1>3, <1>4 DEF Past
<1>6. BlockingTypes'
    BY <1>1, <1>3 DEF BlockingInv, BlockingTypes, CallStates
<1>7. ChannelQueued'
    BY <1>1, <1>5, Zenon DEF ChannelQueued
<1>8. BuffersPast'
    BY <1>3, <1>5 DEF BlockingInv, BlockingTypes, BuffersPast
<1>9. HandClosed' /\ FlagStays' /\ CurrentIsLast'
    BY <1>3 DEF HandClosed, FlagStays, CurrentIsLast, Flagged, Listening
<1>10. HeldIsSent'
    BY <1>3 DEF BlockingInv, HeldIsSent
<1> QED
    BY <1>6, <1>7, <1>8, <1>9, <1>10, Zenon DEF BlockingInv

(* The router stops listening. *)
LEMMA ResumesKeeps ==
    ASSUME BlockingInv, BlockingRouterResumes
    PROVE  BlockingInv'
<1>1. PICK closed, final :
          /\ closed = {c \in current : calls[c] = "closed"} /\ final \subseteq closed
          /\ writing' = IF closed = {} THEN "idle" ELSE "reconnecting"
          /\ calls' = [c \in BlockingCommands |-> IF c \in final THEN "error" ELSE calls[c]]
          /\ current' = closed \ final
    BY Zenon DEF BlockingRouterResumes
<1>2. UNCHANGED <<commands, retryBuffer, sharedBuffer, serving, link>>
    BY Zenon DEF BlockingRouterResumes
<1>3. /\ \A d \in BlockingCommands : calls[d] # "closed" => calls'[d] = calls[d]
      /\ \A d \in BlockingCommands : calls'[d] = calls[d] \/ calls'[d] = "error"
    BY <1>1
<1>4. BlockingTypes'
    BY <1>1, <1>2 DEF BlockingInv, BlockingTypes, CallStates
<1>5. ChannelQueued'
    BY <1>2, <1>3 DEF BlockingInv, ChannelQueued
<1>6. BuffersPast'
    BY <1>2, <1>3 DEF BlockingInv, BlockingTypes, BuffersPast, Past
<1>7. HandClosed'
    BY <1>1 DEF BlockingInv, BlockingTypes, HandClosed
<1>8. FlagStays' /\ CurrentIsLast'
    BY <1>1 DEF FlagStays, CurrentIsLast, Flagged, Listening
<1>9. HeldIsSent'
    BY <1>2, Zenon DEF BlockingInv, HeldIsSent
<1> QED
    BY <1>4, <1>5, <1>6, <1>7, <1>8, <1>9, Zenon DEF BlockingInv

LEMMA TakeReconnectKeeps ==
    ASSUME BlockingInv, BlockingTakeReconnect
    PROVE  BlockingInv'
<1>1. /\ writing = "idle" /\ commands # <<>> /\ commands' = Tail(commands)
      /\ writing' = "idle" \/ writing' = "reconnecting"
      /\ UNCHANGED <<calls, retryBuffer, current, sharedBuffer, serving, link>>
    BY Zenon DEF BlockingTakeReconnect
<1>2. /\ commands' \in Seq(BlockingCommands \union {"Reconnect"})
      /\ \A i \in DOMAIN commands' : i + 1 \in DOMAIN commands /\ commands'[i] = commands[i + 1]
      /\ \A i, j \in DOMAIN commands' : i + 1 = j + 1 => i = j
    BY <1>1 DEF BlockingInv, BlockingTypes
<1>3. BlockingTypes' /\ BuffersPast' /\ HeldIsSent'
    BY <1>1, <1>2, Zenon DEF BlockingInv, BlockingTypes, BuffersPast, HeldIsSent
<1>4. ChannelQueued'
    BY <1>1, <1>2 DEF BlockingInv, ChannelQueued
<1>5. HandClosed' /\ FlagStays' /\ CurrentIsLast'
    BY <1>1 DEF BlockingInv, HandClosed, FlagStays, CurrentIsLast, Flagged, Listening
<1> QED
    BY <1>3, <1>4, <1>5, Zenon DEF BlockingInv

(* retry_buffer writes what was in a buffer, never what the router holds. *)
LEMMA ReconnectKeeps ==
    ASSUME BlockingInv, BlockingReconnect
    PROVE  BlockingInv'
<1>0. \E held \in Seq(BlockingCommands) : /\ held = retryBuffer \o sharedBuffer
                                           /\ \A i \in DOMAIN held : calls[held[i]] \in Past
  <2>1. retryBuffer \in Seq(BlockingCommands) /\ sharedBuffer \in Seq(BlockingCommands)
      BY DEF BlockingInv, BlockingTypes
  <2>2. /\ retryBuffer \o sharedBuffer \in Seq(BlockingCommands)
        /\ \A i \in DOMAIN (retryBuffer \o sharedBuffer) :
              \/ \E j \in DOMAIN retryBuffer : (retryBuffer \o sharedBuffer)[i] = retryBuffer[j]
              \/ \E j \in DOMAIN sharedBuffer : (retryBuffer \o sharedBuffer)[i] = sharedBuffer[j]
      BY <2>1
  <2>3. \A i \in DOMAIN (retryBuffer \o sharedBuffer) : calls[(retryBuffer \o sharedBuffer)[i]] \in Past
      BY <2>2, Zenon DEF BlockingInv, BuffersPast
  <2> retryBuffer \o sharedBuffer \in Seq(BlockingCommands)
      BY Zenon, <2>2
  <2> WITNESS retryBuffer \o sharedBuffer \in Seq(BlockingCommands)
  <2> QED BY Zenon, <2>3
<1>1. PICK held \in Seq(BlockingCommands) : /\ held = retryBuffer \o sharedBuffer
                                           /\ \A i \in DOMAIN held : calls[held[i]] \in Past
    BY Zenon, <1>0
<1>2. PICK final : final = {c \in Range(held) : attempts[c] >= BlockingTries}
    BY Zenon
<1>3. /\ sharedBuffer' \in Without(held, final)
      /\ calls' = [c \in BlockingCommands |->
            IF c \in final THEN "error" ELSE IF c \in Range(held) THEN "written" ELSE calls[c]]
    BY <1>1, <1>2, Zenon DEF BlockingReconnect
<1>4. /\ writing = "reconnecting" /\ writing' = IF current = {} THEN "idle" ELSE "again"
      /\ serving' = "no" /\ retryBuffer' = <<>> /\ UNCHANGED <<commands, current>>
    BY Zenon DEF BlockingReconnect
<1>5. held \in Seq(BlockingCommands) /\ \A i \in DOMAIN held : calls[held[i]] \in Past
    BY Zenon, <1>1
<1>6. /\ sharedBuffer' \in Seq(BlockingCommands)
      /\ \A i \in DOMAIN sharedBuffer' : /\ sharedBuffer'[i] \notin final
                                        /\ \E j \in DOMAIN held : sharedBuffer'[i] = held[j]
    BY <1>3, <1>5, WithoutKeeps
<1>7. \A d \in Range(held) : calls[d] \in Past
    BY <1>5 DEF Range
<1>8. \A d \in BlockingCommands : calls[d] \notin Past => calls'[d] = calls[d]
    BY <1>2, <1>3, <1>7
<1>9. BlockingTypes'
    BY <1>3, <1>4, <1>6 DEF BlockingInv, BlockingTypes, CallStates
<1>10. ChannelQueued'
    BY <1>4, <1>8 DEF BlockingInv, ChannelQueued, Past
<1>11. BuffersPast'
  <2>1. \A d \in Range(held) : d \in BlockingCommands => calls'[d] \in Past
      BY <1>3 DEF Past
  <2>2. \A i \in DOMAIN sharedBuffer' : sharedBuffer'[i] \in Range(held) /\ sharedBuffer'[i] \in BlockingCommands
      BY <1>6 DEF Range
  <2> QED BY <1>4, <2>1, <2>2 DEF BuffersPast
<1>12. HandClosed'
    BY <1>4, <1>8 DEF BlockingInv, BlockingTypes, HandClosed, Past
<1>13. FlagStays' /\ CurrentIsLast' /\ HeldIsSent'
    BY <1>4 DEF FlagStays, CurrentIsLast, HeldIsSent, Flagged, Listening
<1> QED
    BY <1>9, <1>10, <1>11, <1>12, <1>13, Zenon DEF BlockingInv

(* The reply of the command the router waits for takes the flag with it; that of another
   blocking command, replayed, takes the flag away from the waiting one; that of a
   pipelined command leaves it. *)
LEMMA ReplyKeeps ==
    ASSUME BlockingInv, BlockingReply
    PROVE  BlockingInv'
<1>1. PICK c : c = Head(sharedBuffer)
    BY Zenon
<1>2. PICK how \in {"ok", "error"} : calls' = [calls EXCEPT ![c] = how]
    BY <1>1, Zenon DEF BlockingReply, ReaderResponds
<1>3. /\ blocked' = IF c \in Pops THEN FALSE ELSE blocked
      /\ cleared' = IF c \in Pops \ current /\ writing # "wrote" THEN cleared \union current ELSE cleared
      /\ sharedBuffer # <<>> /\ sharedBuffer' = Tail(sharedBuffer) /\ serving' = "no"
      /\ UNCHANGED <<commands, retryBuffer, writing, current, link>>
    BY <1>1, Zenon DEF BlockingReply, ReaderResponds, check_and_set_unblocked_flag, TakesFlag
<1>4. /\ sharedBuffer \in Seq(BlockingCommands) /\ sharedBuffer' \in Seq(BlockingCommands)
      /\ 1 \in DOMAIN sharedBuffer /\ c = sharedBuffer[1] /\ c \in BlockingCommands
      /\ Len(sharedBuffer') = Len(sharedBuffer) - 1 /\ Len(sharedBuffer) \in Nat
      /\ DOMAIN sharedBuffer' = 1 .. (Len(sharedBuffer) - 1)
      /\ DOMAIN sharedBuffer = 1 .. Len(sharedBuffer)
      /\ \A i \in DOMAIN sharedBuffer' : i + 1 \in DOMAIN sharedBuffer /\ sharedBuffer'[i] = sharedBuffer[i + 1]
    BY <1>1, <1>3 DEF BlockingInv, BlockingTypes
<1>5. calls[c] \in Past /\ calls'[c] = how /\ \A d \in BlockingCommands : d # c => calls'[d] = calls[d]
    BY <1>2, <1>4 DEF BlockingInv, BlockingTypes, BuffersPast
<1>6. BlockingTypes'
    BY <1>2, <1>3, <1>4 DEF BlockingInv, BlockingTypes, CallStates
<1>7. ChannelQueued'
    BY <1>3, <1>5 DEF BlockingInv, ChannelQueued, Past
<1>8. BuffersPast'
  <2>1. \A d \in BlockingCommands : calls[d] \in Past => calls'[d] \in Past
      BY <1>5 DEF Past
  <2>2. \A i \in DOMAIN sharedBuffer' : calls'[sharedBuffer'[i]] \in Past
      BY <1>4, <2>1 DEF BlockingInv, BuffersPast
  <2>3. \A i \in DOMAIN retryBuffer' : calls'[retryBuffer'[i]] \in Past
      BY <1>3, <2>1 DEF BlockingInv, BlockingTypes, BuffersPast
  <2> QED BY <2>2, <2>3, Zenon DEF BuffersPast
<1>9. HandClosed'
    BY <1>3, <1>5 DEF BlockingInv, BlockingTypes, HandClosed, Past
<1>10. CurrentIsLast'
  <2> SUFFICES ASSUME writing \in Listening, link = "up", sharedBuffer' # <<>>
               PROVE  CurrentIsLast'
      BY <1>3, Zenon DEF CurrentIsLast
  <2>1. PICK d \in BlockingCommands :
            /\ current = {d} /\ calls[d] = "written" /\ sharedBuffer[Len(sharedBuffer)] = d
            /\ \A i \in DOMAIN sharedBuffer : sharedBuffer[i] = d => i = Len(sharedBuffer)
      BY <1>3, Zenon DEF BlockingInv, CurrentIsLast
  <2>2. Len(sharedBuffer') > 0
      BY <1>4
  <2>3. d # c
      BY <1>4, <2>1, <2>2
  <2>4. sharedBuffer'[Len(sharedBuffer')] = d
      BY <1>4, <2>1, <2>2
  <2>5. \A i \in DOMAIN sharedBuffer' : sharedBuffer'[i] = d => i = Len(sharedBuffer')
      BY <1>4, <2>1
  <2> QED BY <1>3, <1>5, <2>1, <2>3, <2>4, <2>5, Zenon DEF CurrentIsLast
<1>11. HeldIsSent'
    BY <1>3 DEF BlockingInv, HeldIsSent
<1>12. FlagStays'
  <2> SUFFICES ASSUME writing \in Flagged, \A d \in current : calls'[d] = "written"
               PROVE  blocked' \/ current \subseteq cleared'
      BY <1>3, Zenon DEF FlagStays
  <2>1. c \notin current /\ writing # "wrote"
      BY <1>5 DEF Flagged
  <2>2. CASE c \in Pops
      BY <1>3, <2>1, <2>2
  <2>3. CASE c \notin Pops
    <3>1. \A d \in current : calls[d] = "written"
        BY <1>5, <2>1 DEF BlockingInv, BlockingTypes
    <3> QED BY <1>3, <2>3, <3>1 DEF BlockingInv, FlagStays
  <2> QED BY Zenon, <2>2, <2>3
<1> QED
    BY <1>6, <1>7, <1>8, <1>9, <1>10, <1>11, <1>12, Zenon DEF BlockingInv

(* The reader task ends: what it leaves in the buffer was there, and the command it hands
   back was there once. *)
LEMMA DropKeeps ==
    ASSUME BlockingInv, BlockingDrop
    PROVE  BlockingInv'
<1>1. PICK front : front = IF sharedBuffer = <<>> THEN {} ELSE {c \in {Head(sharedBuffer)} : HasChannel(c)}
    BY Zenon
<1>2. PICK final : final = {c \in Range(sharedBuffer) \ front : HasChannel(c) /\ attempts[c] >= BlockingTries}
    BY Zenon
<1>3. /\ sharedBuffer' \in Without(sharedBuffer, front \union final)
      /\ calls' = [c \in BlockingCommands |->
            IF c \in front THEN (IF c \in current THEN "closed" ELSE "canceled")
            ELSE IF c \in final THEN "error" ELSE calls[c]]
    BY <1>1, <1>2, Zenon DEF BlockingDrop
<1>4. /\ link' = "lost" /\ serving' = "no" /\ commands' = Append(commands, "Reconnect")
      /\ link = "up" /\ UNCHANGED <<blocked, retryBuffer, writing, current, cleared>>
    BY Zenon DEF BlockingDrop
<1>5. sharedBuffer \in Seq(BlockingCommands) /\ \A i \in DOMAIN sharedBuffer : calls[sharedBuffer[i]] \in Past
    BY Zenon DEF BlockingInv, BlockingTypes, BuffersPast
<1>6. front \subseteq Range(sharedBuffer) /\ final \subseteq Range(sharedBuffer)
    BY <1>1, <1>2, <1>5 DEF Range
<1>7. \A d \in Range(sharedBuffer) : calls[d] \in Past
    BY <1>5 DEF Range
<1>8. /\ sharedBuffer' \in Seq(BlockingCommands)
      /\ \A i \in DOMAIN sharedBuffer' : /\ sharedBuffer'[i] \notin front
                                        /\ \E j \in DOMAIN sharedBuffer : sharedBuffer'[i] = sharedBuffer[j]
    BY <1>3, <1>5, WithoutKeeps
<1>9. /\ \A d \in BlockingCommands : calls[d] \notin Past => calls'[d] = calls[d]
      /\ \A d \in BlockingCommands : calls'[d] = "written" => calls[d] = "written"
      /\ \A d \in BlockingCommands : calls[d] \in Past /\ ~(d \in front /\ d \in current) => calls'[d] \in Past
    BY <1>3, <1>6, <1>7 DEF Past
<1>10. BlockingTypes'
    BY <1>3, <1>4, <1>8 DEF BlockingInv, BlockingTypes, CallStates
<1>11. ChannelQueued'
  <2>1. /\ DOMAIN commands' = 1 .. (Len(commands) + 1)
        /\ commands'[Len(commands) + 1] = "Reconnect"
        /\ \A i \in DOMAIN commands' : i # Len(commands) + 1 =>
               i \in DOMAIN commands /\ commands'[i] = commands[i]
      BY <1>4 DEF BlockingInv, BlockingTypes
  <2>2. "Reconnect" \notin BlockingCommands
      BY CommandsAreNotMessages, Zenon DEF BlockingCommands
  <2>3. \A i \in DOMAIN commands : commands[i] \in BlockingCommands => calls'[commands[i]] = "queued"
      BY <1>9 DEF BlockingInv, ChannelQueued, Past
  <2>4. \A i \in DOMAIN commands' : commands'[i] \in BlockingCommands =>
            i \in DOMAIN commands /\ commands'[i] = commands[i]
      BY <2>1, <2>2, Zenon
  <2> QED BY <2>3, <2>4 DEF BlockingInv, ChannelQueued
<1>12. BuffersPast'
  <2>1. \A i \in DOMAIN sharedBuffer' : calls'[sharedBuffer'[i]] \in Past
    <3> SUFFICES ASSUME NEW i \in DOMAIN sharedBuffer' PROVE calls'[sharedBuffer'[i]] \in Past
        BY Zenon
    <3>1. PICK d : d = sharedBuffer'[i]
        BY Zenon
    <3>2. d \in BlockingCommands /\ d \notin front /\ calls[d] \in Past
        BY <1>5, <1>8, <3>1
    <3> QED BY <1>9, <3>1, <3>2, Zenon
  <2>2. \A i \in DOMAIN retryBuffer : ~(retryBuffer[i] \in front /\ retryBuffer[i] \in current)
      BY <1>4 DEF BlockingInv, HeldIsSent
  <2>3. \A i \in DOMAIN retryBuffer' : calls'[retryBuffer'[i]] \in Past
      BY <1>4, <1>9, <2>2 DEF BlockingInv, BlockingTypes, BuffersPast
  <2> QED BY <2>1, <2>3, Zenon DEF BuffersPast
<1>13. HandClosed'
    BY <1>4, <1>9 DEF BlockingInv, BlockingTypes, HandClosed, Past
<1>14. FlagStays'
    BY <1>4, <1>9 DEF BlockingInv, BlockingTypes, FlagStays
<1>15. HeldIsSent' /\ CurrentIsLast'
    BY <1>4 DEF BlockingInv, HeldIsSent, CurrentIsLast
<1> QED
    BY <1>10, <1>11, <1>12, <1>13, <1>14, <1>15, Zenon DEF BlockingInv

LEMMA BlockingInit_Inv == BlockingInit => BlockingInv
<1> SUFFICES ASSUME NEW p \in {"Block", "Error", "Interrupt"}, BlockingStart(p) PROVE BlockingInv
    BY Zenon DEF BlockingInit
<1> QED
    BY DEF BlockingStart, BlockingInv, BlockingTypes, ChannelQueued, BuffersPast, HandClosed,
           CurrentIsLast, HeldIsSent, FlagStays, CallStates, Listening, Flagged

(* One step per action. *)
LEMMA BlockingNext_Inv ==
    ASSUME BlockingInv, [BlockingNext]_blockingVars
    PROVE  BlockingInv'
<1>1. ASSUME NEW c \in BlockingCommands, check_blocking_policy(c)
      PROVE  BlockingInv'
  <2>1. \E v \in {"checked", "refused", "interrupting"} : calls' = [calls EXCEPT ![c] = v]
      BY <1>1, Zenon DEF check_blocking_policy
  <2>2. /\ calls[c] = "new"
        /\ UNCHANGED <<blocked, commands, retryBuffer, writing, current, sharedBuffer, link, cleared, serving>>
      BY <1>1, Zenon DEF check_blocking_policy
  <2> QED BY <2>1, <2>2, CallerKeeps, Zenon
<1>2. ASSUME NEW c \in BlockingCommands, interrupt_blocked_connection(c)
      PROVE  BlockingInv'
  <2>1. /\ calls[c] = "interrupting" /\ calls' = [calls EXCEPT ![c] = "checked"]
        /\ serving' # "no" => serving # "no"
        /\ UNCHANGED <<blocked, commands, retryBuffer, writing, current, sharedBuffer, link, cleared>>
      BY <1>2, Zenon DEF interrupt_blocked_connection, Unblock
  <2> QED BY <2>1, CallerKeeps, Zenon
<1>3. ASSUME NEW c \in BlockingCommands, send_command(c)
      PROVE  BlockingInv'
    BY Zenon, <1>3, SendKeeps
<1>4. ASSUME NEW c \in BlockingCommands, WriteBlocking(c)
      PROVE  BlockingInv'
    BY <1>4, SentKeeps, DisconnectsKeeps, EndsKeeps, Zenon DEF WriteBlocking
<1>5. CASE set_blocked
    BY <1>5, RouterKeeps, Zenon DEF set_blocked, BlockingInv, HeldIsSent, FlagStays, Listening, Flagged
<1>6. CASE should_interrupt
    BY <1>6, RouterKeeps, Zenon DEF should_interrupt, BlockingInv, HeldIsSent, FlagStays, Listening, Flagged
<1>7. CASE InterruptAfterWrite
    BY <1>7, RouterKeeps, Zenon DEF InterruptAfterWrite, Unblock, BlockingInv, HeldIsSent, FlagStays,
                                    Listening, Flagged
<1>8. CASE BlockingRouterResumes
    BY Zenon, <1>8, ResumesKeeps
<1>9. CASE BlockingTakeReconnect
    BY Zenon, <1>9, TakeReconnectKeeps
<1>10. CASE BlockingReconnect
    BY Zenon, <1>10, ReconnectKeeps
<1>11. CASE ServerBlocks
    BY <1>11, RouterKeeps, Zenon DEF ServerBlocks, BlockingInv, HeldIsSent, FlagStays
<1>12. CASE BlockingReply
    BY Zenon, <1>12, ReplyKeeps
<1>13. CASE BlockingDrop
    BY Zenon, <1>13, DropKeeps
<1>14. CASE unblock_self
    BY <1>14, RouterKeeps, Zenon DEF unblock_self, Unblock, BlockingInv, HeldIsSent, FlagStays
<1>15. CASE set_unblocked
  <2>1. /\ writing # "wrote" => current \subseteq cleared'
        /\ UNCHANGED <<calls, commands, retryBuffer, writing, current, sharedBuffer, serving, link>>
      BY <1>15, Zenon DEF set_unblocked
  <2>2. FlagStays'
      BY <2>1, Zenon DEF FlagStays, Flagged
  <2> QED BY <2>1, <2>2, RouterKeeps, Zenon DEF BlockingInv, HeldIsSent
<1>16. CASE UNCHANGED blockingVars
    BY <1>16, RouterKeeps, Zenon DEF blockingVars, BlockingInv, HeldIsSent, FlagStays
<1> QED
    BY Zenon, <1>1, <1>2, <1>3, <1>4, <1>5, <1>6, <1>7, <1>8, <1>9, <1>10, <1>11, <1>12, <1>13, <1>14, <1>15, <1>16
       DEF BlockingNext, BlockingCaller, BlockingRouter

(* While the router waits for a blocking command that the server holds, the flag that
   check_blocking_policy reads is set, unless unblock_self or the reply of a blocking
   command that retry_buffer replayed took it away after the router had set it: for every
   set of commands, any number of broken connections and of failed writes. *)
THEOREM FlagHolds == BlockingSpec => []BlockedFlagHolds
<1>1. BlockingInv => BlockedFlagHolds
  <2> SUFFICES ASSUME BlockingInv, writing = "waiting", serving = "blocked"
               PROVE  blocked \/ current \subseteq cleared
      BY Zenon DEF BlockedFlagHolds
  <2>1. writing \in Listening /\ writing \in Flagged /\ link = "up" /\ sharedBuffer # <<>>
      BY DEF BlockingInv, HeldIsSent, Listening, Flagged
  <2>2. \A c \in current : calls[c] = "written"
      BY <2>1, Zenon DEF BlockingInv, CurrentIsLast
  <2> QED BY <2>1, <2>2, Zenon DEF BlockingInv, FlagStays
<1> QED
    BY <1>1, BlockingInit_Inv, BlockingNext_Inv, PTL DEF BlockingSpec

-----------------------------------------------------------------------------
(***************************************************************************)
(* A policy with a maximum bounds the loops of the router, for any widths  *)
(* of the integers, any set of policies and any number of loops.           *)
(***************************************************************************)

PolicyType ==
    [kind : PolicyKinds, attempts : 0..MaxU32, max_attempts : 0..MaxU32, delay : 0..MaxU32,
     max_delay : 0..MaxU32, mult : 0..MaxU32, jitter : 0..MaxU32]

(* The try the loop is about to make, while it sleeps. *)
Upcoming == IF rung = "sleep" THEN 1 ELSE 0

(* Every try of a loop was paid for with an attempt, but for the first one of the loops
   that begin at once.  The bound alone is not inductive: nothing in it says that a loop
   that goes on has counted an attempt. *)
Paid ==
    policy.max_attempts # 0 =>
        /\ policy.attempts <= policy.max_attempts
        /\ mode \in {"reconnect", "replicas"} => tries + Upcoming <= policy.attempts
        /\ mode \in {"cluster", "redirect"} => tries + Upcoming <= policy.attempts + 1

PolicyInv == policy \in PolicyType /\ tries \in Nat /\ Paid

(* An attempt is counted without overflow, and never beyond the maximum. *)
LEMMA Counted ==
    ASSUME NEW p \in PolicyType, ~Exhausted(p)
    PROVE  /\ Incremented(p) \in PolicyType
           /\ Incremented(p).max_attempts = p.max_attempts
           /\ p.max_attempts # 0 => /\ Incremented(p).attempts = p.attempts + 1
                                    /\ p.attempts + 1 <= p.max_attempts
<1>1. p.attempts \in 0..MaxU32 /\ p.max_attempts \in 0..MaxU32
  BY Zenon DEF PolicyType
<1>2. Incremented(p) \in PolicyType
  BY <1>1, WidthsAssumption DEF PolicyType, Incremented
<1>3. Incremented(p).max_attempts = p.max_attempts
  BY Zenon DEF PolicyType, Incremented
<1>4. ASSUME p.max_attempts # 0
      PROVE  Incremented(p).attempts = p.attempts + 1 /\ p.attempts + 1 <= p.max_attempts
  BY <1>1, <1>4, WidthsAssumption DEF PolicyType, Incremented, Exhausted
<1> QED BY Zenon, <1>2, <1>3, <1>4

(* reset_attempts leaves the rest of the policy as it is. *)
LEMMA Reset ==
    ASSUME policy \in PolicyType, reset_attempts
    PROVE  policy' \in PolicyType /\ policy'.attempts = 0 /\ policy'.max_attempts = policy.max_attempts
BY WidthsAssumption DEF PolicyType, reset_attempts

(* A delay pays for the next try of a loop that has at most as many tries as attempts,
   one more where it began at once. *)
LEMMA DelayedPays ==
    ASSUME PolicyInv, NEW way, Delayed(way), tries' \in Nat,
           policy.max_attempts # 0 /\ way \in {"reconnect", "replicas"} => tries' <= policy.attempts,
           policy.max_attempts # 0 /\ way \in {"cluster", "redirect"} => tries' <= policy.attempts + 1
    PROVE  PolicyInv'
<1>1. policy' = Incremented(policy) /\ policy' \in PolicyType /\ policy'.max_attempts = policy.max_attempts
  BY Counted, Zenon DEF PolicyInv, Delayed
<1>2. policy.attempts \in Nat /\ policy.max_attempts \in Nat
  BY WidthsAssumption DEF PolicyInv, PolicyType
<1>3. policy.max_attempts # 0 => policy'.attempts = policy.attempts + 1 /\ policy'.attempts <= policy.max_attempts
  BY Counted, <1>1, Zenon DEF PolicyInv, Delayed
<1>4. mode' = "panicked" \/ mode' = way
  BY Zenon DEF Delayed
<1>5. Upcoming' \in {0, 1}
  BY Zenon DEF Upcoming
<1> QED BY <1>1, <1>2, <1>3, <1>4, <1>5 DEF PolicyInv, Paid

(* Every step of the loops keeps the account. *)
LEMMA StepKeepsPaid ==
    ASSUME PolicyInv, PolicyNext
    PROVE  PolicyInv'
<1> USE DEF EndLoop
<1>0. policy.attempts \in Nat /\ policy.max_attempts \in Nat /\ tries \in Nat
  BY WidthsAssumption DEF PolicyInv, PolicyType
<1>a. ASSUME reset_attempts
      PROVE  policy' \in PolicyType /\ policy'.attempts = 0 /\ policy'.max_attempts \in Nat
  BY <1>0, <1>a, Reset, Zenon DEF PolicyInv
<1>1. ASSUME NEW way \in {"reconnect", "replicas"}, BeginDelayed(way)
      PROVE  PolicyInv'
  <2>1. CASE Delayed(way)
    BY <1>0, <1>1, <2>1, DelayedPays DEF BeginDelayed, Begins
  <2>2. CASE OutOfAttempts
    BY <1>0, <1>1, <2>2, Zenon DEF BeginDelayed, Begins, OutOfAttempts, PolicyInv, Paid
  <2> QED BY <1>1, <2>1, <2>2, Zenon DEF BeginDelayed
<1>2. ASSUME NEW way \in {"cluster", "redirect", "asking"}, BeginAtOnce(way)
      PROVE  PolicyInv'
  BY <1>0, <1>2 DEF BeginAtOnce, Begins, PolicyInv, Paid, Upcoming
<1>3. CASE Slept
  BY <1>0, <1>3 DEF Slept, PolicyInv, Paid, Upcoming
<1>4. CASE SleepInterrupted
  BY <1>0, <1>4, Zenon DEF SleepInterrupted, PolicyInv, Paid, Upcoming
<1>5. CASE TrySucceeds
  <2>1. CASE mode \in {"reconnect", "asking"}
    BY <1>0, <1>5, <2>1, <1>a DEF TrySucceeds, PolicyInv, Paid, Upcoming
  <2>2. CASE mode \notin {"reconnect", "asking"}
    BY <1>0, <1>5, <2>2, Zenon DEF TrySucceeds, PolicyInv, Paid, Upcoming
  <2> QED BY Zenon, <2>1, <2>2
<1>6. CASE TryFails
  <2>1. CASE Delayed(mode)
    BY <1>0, <1>6, <2>1, DelayedPays DEF TryFails, PolicyInv, Paid, Upcoming
  <2>2. CASE OutOfAttempts
    BY <1>0, <1>6, <2>2, Zenon DEF TryFails, OutOfAttempts, PolicyInv, Paid, Upcoming
  <2> QED BY <1>6, <2>1, <2>2, Zenon DEF TryFails
<1>7. CASE TryFailsForGood
  <2>1. CASE mode = "asking"
    BY <1>0, <1>7, <2>1, <1>a DEF TryFailsForGood, PolicyInv, Paid, Upcoming
  <2>2. CASE mode # "asking"
    BY <1>0, <1>7, <2>2, Zenon DEF TryFailsForGood, PolicyInv, Paid, Upcoming
  <2> QED BY Zenon, <2>1, <2>2
<1>8. CASE AskAgain
  BY <1>0, <1>8, <1>a DEF AskAgain, PolicyInv, Paid, Upcoming
<1>9. CASE StartTask
  BY <1>0, <1>9, <1>a DEF StartTask, PolicyInv, Paid, Upcoming
<1> QED BY <1>1, <1>2, <1>3, <1>4, <1>5, <1>6, <1>7, <1>8, <1>9, Zenon DEF PolicyNext

(* What the account says about a loop that runs. *)
LEMMA PaidBounds ==
    ASSUME PolicyInv
    PROVE  TriesBounded
<1>1. policy.attempts \in Nat /\ policy.max_attempts \in Nat /\ tries \in Nat /\ Upcoming \in {0, 1}
  BY WidthsAssumption DEF PolicyInv, PolicyType, Upcoming
<1> QED BY <1>1 DEF PolicyInv, Paid, TriesBounded, PolicyLoops

(* reconnect_with_policy, sync_replicas_with_policy, sync_cluster_with_policy and
   cluster_redirect_with_policy try no more often than the policy allows, although they
   share the counter and only some of them reset it. *)
THEOREM RetriesEnd == PolicySpec => []TriesBounded
<1>1. PolicyInit => PolicyInv
  <2> SUFFICES ASSUME NEW p \in Policies, PolicyStart(p) PROVE PolicyInv
    BY Zenon DEF PolicyInit
  <2>1. policy \in PolicyType /\ policy.attempts = 0
    BY PoliciesAssumption, WidthsAssumption DEF PolicyStart, PolicyType
  <2>2. policy.max_attempts \in Nat
    BY <2>1, WidthsAssumption DEF PolicyType
  <2> QED BY <2>1, <2>2 DEF PolicyStart, PolicyInv, Paid
<1>2. PolicyInv /\ [PolicyNext]_policyVars => PolicyInv'
  <2>1. CASE PolicyNext
    BY Zenon, <2>1, StepKeepsPaid
  <2>2. CASE UNCHANGED policyVars
    BY <2>2, Zenon DEF policyVars, PolicyInv, Paid, Upcoming
  <2> QED BY Zenon, <2>1, <2>2
<1> QED BY <1>1, <1>2, PaidBounds, PTL DEF PolicySpec

-----------------------------------------------------------------------------
(***************************************************************************)
(* Delays back off, for any widths of the integers and any set of          *)
(* policies.  The powers of an exponential policy are a recursive          *)
(* function; the induction over them is that of the well-founded order of  *)
(* the natural numbers, on the set of the numbers for which a fact holds.  *)
(***************************************************************************)

(* The order of the natural numbers, as a relation. *)
LEMMA NatOrder ==
    \E less : IsWellFoundedOn(less, Nat) /\ \A x, y \in Nat : x < y => <<x, y>> \in less
<1>1. ASSUME NEW x \in Nat, NEW y \in Nat, x < y
      PROVE  <<x, y>> \in OpToRel(<, Nat)
    BY <1>1, Zenon DEF OpToRel
<1> QED
    BY <1>1, NatLessThanWellFounded, Zenon

(* A set that holds 0 and the successor of each of its numbers holds them all. *)
LEMMA SetInduction ==
    ASSUME NEW S, 0 \in S, \A n \in Nat : n \in S => n + 1 \in S
    PROVE  Nat \subseteq S
<1>1. PICK less : IsWellFoundedOn(less, Nat) /\ \A x, y \in Nat : x < y => <<x, y>> \in less
    BY NatOrder, Zenon
<1>2. ASSUME NEW T, T = Nat \ S, T # {}
      PROVE  FALSE
  <2>1. T \subseteq Nat
      BY <1>2, Zenon
  <2>2. PICK x \in T : \A y \in T : ~(<<y, x>> \in less)
    <3>1. IsWellFoundedOn(less, Nat) /\ T # {}
        BY <1>1, <1>2, Zenon
    <3> QED
        BY Zenon, <2>1, <3>1, WFMin
  <2>3. x \in Nat /\ x \notin S
      BY <1>2, Zenon
  <2>4. x - 1 \in Nat /\ x - 1 < x /\ x = (x - 1) + 1
      BY <2>3
  <2>5. x - 1 \in T
      BY Zenon, <1>2, <2>3, <2>4
  <2> QED
      BY <1>1, <2>2, <2>3, <2>4, <2>5, Zenon
<1> QED
    BY <1>2, Zenon

(* The table of the saturating powers of x, up to the n-th. *)
IsPowers(f, x, n) == f = [k \in 0..n |-> IF k = 0 THEN 1 ELSE SaturatingMul(f[k - 1], x)]

(* A saturating product fits its type. *)
LEMMA SatMulNat ==
    ASSUME NEW x \in Nat, NEW y \in Nat
    PROVE  SaturatingMul(x, y) \in Nat /\ SaturatingMul(x, y) <= MaxU64
<1>1. x * y \in Nat
    OBVIOUS
<1> DEFINE m == x * y
<1> HIDE DEF m
<1>2. m \in Nat
    BY <1>1, Zenon DEF m
<1>3. SaturatingMul(x, y) = IF m > MaxU64 THEN MaxU64 ELSE m
    BY Zenon DEF SaturatingMul, m
<1> QED
    BY <1>2, <1>3, WidthsAssumption

(* The definition of saturating_pow by recursion has a solution, *)
LEMMA PowersExist ==
    ASSUME NEW x
    PROVE  \A n \in Nat : \E f : IsPowers(f, x, n)
<1> DEFINE S == {n \in Nat : \E f : IsPowers(f, x, n)}
<1>1. 0 \in S
  <2>1. IsPowers([k \in 0..0 |-> 1], x, 0)
      BY DEF IsPowers
  <2> QED
      BY Zenon, <2>1
<1>2. ASSUME NEW n \in Nat, n \in S
      PROVE  n + 1 \in S
  <2>1. PICK f : IsPowers(f, x, n)
      BY Zenon, <1>2
  <2> DEFINE g == [k \in 0..(n + 1) |-> IF k <= n THEN f[k] ELSE SaturatingMul(f[n], x)]
  <2>2. \A k \in 0..n : f[k] = IF k = 0 THEN 1 ELSE SaturatingMul(f[k - 1], x)
      BY <2>1, Zenon DEF IsPowers
  <2>3. \A k \in 0..(n + 1) : g[k] = IF k <= n THEN f[k] ELSE SaturatingMul(f[n], x)
      BY Zenon
  <2>4. ASSUME NEW k \in 0..(n + 1)
        PROVE  g[k] = IF k = 0 THEN 1 ELSE SaturatingMul(g[k - 1], x)
    <3> HIDE DEF g
    <3>1. CASE k = 0
        BY <2>2, <2>3, <3>1
    <3>2. CASE k # 0 /\ k <= n
      <4>1. k - 1 \in 0..(n + 1) /\ k - 1 <= n /\ k \in 0..n
          BY <3>2
      <4>2. g[k - 1] = f[k - 1] /\ g[k] = f[k]
          BY <2>3, <3>2, <4>1, Zenon
      <4> QED
          BY <2>2, <3>2, <4>1, <4>2, Zenon
    <3>3. CASE k = n + 1
      <4>1. k - 1 = n /\ n \in 0..(n + 1) /\ n <= n /\ ~(k <= n) /\ k # 0
          BY <3>3
      <4>2. g[k - 1] = f[n] /\ g[k] = SaturatingMul(f[n], x)
          BY <2>3, <4>1, Zenon
      <4> QED
          BY <4>1, <4>2, Zenon
    <3> QED
        BY <3>1, <3>2, <3>3
  <2>5. g = [k \in 0..(n + 1) |-> g[k]]
      BY Zenon
  <2>6. IsPowers(g, x, n + 1)
    <3> HIDE DEF g
    <3> QED
        BY <2>4, <2>5, Zenon DEF IsPowers
  <2>7. n + 1 \in Nat
      OBVIOUS
  <2> QED
      BY <2>6, <2>7, Zenon
<1> HIDE DEF S
<1>3. Nat \subseteq S
    BY <1>1, <1>2, SetInduction, Zenon
<1> QED
    BY <1>3, Zenon DEF S

(* only one, whatever its length, *)
LEMMA PowersAgree ==
    ASSUME NEW x, NEW n \in Nat, NEW f, IsPowers(f, x, n), NEW m \in Nat, NEW g, IsPowers(g, x, m), n <= m
    PROVE  \A k \in 0..n : f[k] = g[k]
<1> DEFINE S == {k \in Nat : k <= n => f[k] = g[k]}
<1>1. \A k \in 0..n : f[k] = IF k = 0 THEN 1 ELSE SaturatingMul(f[k - 1], x)
    BY Zenon DEF IsPowers
<1>2. \A k \in 0..m : g[k] = IF k = 0 THEN 1 ELSE SaturatingMul(g[k - 1], x)
    BY Zenon DEF IsPowers
<1>3. 0 \in S
    BY <1>1, <1>2
<1>4. ASSUME NEW k \in Nat, k \in S
      PROVE  k + 1 \in S
  <2>1. SUFFICES ASSUME k + 1 <= n PROVE f[k + 1] = g[k + 1]
      OBVIOUS
  <2>2. k + 1 \in 0..n /\ k + 1 \in 0..m /\ (k + 1) - 1 = k /\ k + 1 # 0 /\ k <= n
      BY <2>1
  <2>3. f[k] = g[k]
      BY Zenon, <1>4, <2>2
  <2> QED
      BY <1>1, <1>2, <2>2, <2>3, Zenon
<1> HIDE DEF S
<1>5. Nat \subseteq S
    BY <1>3, <1>4, SetInduction, Zenon
<1> QED
    BY <1>5 DEF S

(* and it is made of numbers. *)
LEMMA PowersNat ==
    ASSUME NEW x \in Nat, NEW n \in Nat, NEW f, IsPowers(f, x, n)
    PROVE  \A k \in 0..n : f[k] \in Nat
<1> DEFINE S == {k \in Nat : k <= n => f[k] \in Nat}
<1>1. \A k \in 0..n : f[k] = IF k = 0 THEN 1 ELSE SaturatingMul(f[k - 1], x)
    BY Zenon DEF IsPowers
<1>2. 0 \in S
    BY <1>1
<1>3. ASSUME NEW k \in Nat, k \in S
      PROVE  k + 1 \in S
  <2>1. SUFFICES ASSUME k + 1 <= n PROVE f[k + 1] \in Nat
      OBVIOUS
  <2>2. k + 1 \in 0..n /\ (k + 1) - 1 = k /\ k + 1 # 0 /\ k <= n
      BY <2>1
  <2>3. f[k] \in Nat
      BY Zenon, <1>3, <2>2
  <2> QED
      BY <1>1, <2>2, <2>3, SatMulNat, Zenon
<1> HIDE DEF S
<1>4. Nat \subseteq S
    BY <1>2, <1>3, SetInduction, Zenon
<1> QED
    BY <1>4 DEF S

(* saturating_pow: the next power is the product of the last one. *)
LEMMA PowerStep ==
    ASSUME NEW x \in Nat, NEW n \in Nat
    PROVE  /\ SaturatingPow(x, n) \in Nat
           /\ SaturatingPow(x, n + 1) = SaturatingMul(SaturatingPow(x, n), x)
<1> DEFINE power(m) == CHOOSE f : IsPowers(f, x, m)
<1>1. \A m \in Nat : IsPowers(power(m), x, m)
    BY PowersExist, Zenon
<1>2. \A m : SaturatingPow(x, m) = power(m)[m]
    BY Zenon DEF SaturatingPow, IsPowers
<1> HIDE DEF power
<1>3. n + 1 \in Nat /\ n + 1 \in 0..(n + 1) /\ n \in 0..n /\ n <= n + 1 /\ n + 1 # 0 /\ (n + 1) - 1 = n
    OBVIOUS
<1>4. power(n)[n] = power(n + 1)[n]
  <2>1. PICK f, g : f = power(n) /\ g = power(n + 1)
      BY Zenon
  <2>2. IsPowers(f, x, n) /\ IsPowers(g, x, n + 1)
      BY <1>1, <1>3, <2>1, Zenon
  <2>3. \A k \in 0..n : f[k] = g[k]
      BY <1>3, <2>2, PowersAgree
  <2> QED
      BY <1>3, <2>1, <2>3, Zenon
<1>5. power(n + 1)[n + 1] = SaturatingMul(power(n + 1)[n], x)
  <2> DEFINE f == power(n + 1)
  <2>1. f = [k \in 0..(n + 1) |-> IF k = 0 THEN 1 ELSE SaturatingMul(f[k - 1], x)]
      BY <1>1, <1>3, Zenon DEF IsPowers
  <2> HIDE DEF f
  <2>2. \A k \in 0..(n + 1) : f[k] = IF k = 0 THEN 1 ELSE SaturatingMul(f[k - 1], x)
      BY <2>1, Zenon
  <2>3. f[n + 1] = SaturatingMul(f[n], x)
      BY <1>3, <2>2, Zenon
  <2> QED
      BY <2>3, Zenon DEF f
<1>6. power(n)[n] \in Nat
    BY <1>1, <1>3, PowersNat, Zenon
<1> QED
    BY <1>2, <1>3, <1>4, <1>5, <1>6, Zenon

(* A saturating product grows with its first factor. *)
LEMMA SatMulGrows ==
    ASSUME NEW d \in Nat, NEW x \in Nat, NEW y \in Nat, x <= y \/ MaxU64 <= y
    PROVE  SaturatingMul(x, d) <= SaturatingMul(y, d)
<1>1. ASSUME NEW u \in Nat, NEW v \in Nat, u <= v
      PROVE  u * d <= v * d
  <2>1. PICK w \in Nat : v = u + w
    <3>1. v - u \in Nat /\ v = u + (v - u)
        BY <1>1
    <3> QED
        BY Zenon, <3>1
  <2>2. (u + w) * d = u * d + w * d /\ u * d \in Nat /\ w * d \in Nat
      OBVIOUS
  <2> QED
      BY <2>1, <2>2
<1>2. PICK p \in Nat, q \in Nat : p = x * d /\ q = y * d
    OBVIOUS
<1>3. /\ SaturatingMul(x, d) = (IF p > MaxU64 THEN MaxU64 ELSE p)
      /\ SaturatingMul(y, d) = (IF q > MaxU64 THEN MaxU64 ELSE q)
    BY <1>2, Zenon DEF SaturatingMul
<1>4. CASE x <= y
  <2>1. p <= q
      BY Zenon, <1>1, <1>2, <1>4
  <2> QED
      BY <1>3, <2>1, WidthsAssumption
<1>5. CASE d = 0
  <2>1. p = 0
      BY <1>2, <1>5
  <2> QED
      BY <1>3, <2>1, WidthsAssumption
<1>6. CASE MaxU64 <= y /\ d # 0
  <2>1. PICK e \in Nat : d = e + 1
    <3>1. d - 1 \in Nat /\ d = (d - 1) + 1
        BY <1>6
    <3> QED
        BY Zenon, <3>1
  <2>2. y * (e + 1) = y * e + y /\ y * e \in Nat
      OBVIOUS
  <2>3. q >= MaxU64
      BY <1>2, <1>6, <2>1, <2>2, WidthsAssumption
  <2> QED
      BY <1>3, <2>3, WidthsAssumption
<1> QED
    BY Zenon, <1>4, <1>5, <1>6

(* The delay of a policy before the jitter: it does not shrink with the attempts. *)
Base(p) ==
    CASE p.kind = "Constant" -> p.delay
      [] p.kind = "Linear" -> SaturatingMul(p.delay, p.attempts)
      [] p.kind = "Exponential" -> SaturatingMul(SaturatingPow(p.mult, p.attempts - 1), p.delay)

LEMMA BaseGrows ==
    ASSUME NEW p \in PolicyType, p.attempts # 0, p.kind = "Exponential" => p.mult # 0
    PROVE  Base(p) \in Nat /\ Base(Incremented(p)) \in Nat /\ Base(p) <= Base(Incremented(p))
<1>1. /\ p.attempts \in Nat /\ p.delay \in Nat /\ p.mult \in Nat
      /\ p.kind \in PolicyKinds
    BY WidthsAssumption DEF PolicyType
<1>2. /\ Incremented(p).kind = p.kind /\ Incremented(p).delay = p.delay
      /\ Incremented(p).mult = p.mult
      /\ Incremented(p).attempts \in {p.attempts, p.attempts + 1}
    BY WidthsAssumption DEF PolicyType, Incremented
<1>3. PICK a \in Nat : p.attempts = a + 1
  <2>1. p.attempts - 1 \in Nat /\ p.attempts = (p.attempts - 1) + 1
      BY <1>1
  <2> QED
      BY Zenon, <2>1
<1>4. CASE p.kind = "Constant"
    BY <1>1, <1>2, <1>4 DEF Base
<1>5. CASE p.kind = "Linear"
  <2>1. Base(p) = SaturatingMul(p.delay, p.attempts)
      BY <1>5, Zenon DEF Base
  <2>2. Base(Incremented(p)) = SaturatingMul(p.delay, Incremented(p).attempts)
      BY <1>2, <1>5, Zenon DEF Base
  <2>3. \A x, y \in Nat : SaturatingMul(x, y) = SaturatingMul(y, x)
    <3>1. \A x, y \in Nat : x * y = y * x
        OBVIOUS
    <3> QED
        BY <3>1, Zenon DEF SaturatingMul
  <2>4. Incremented(p).attempts \in Nat /\ p.attempts <= Incremented(p).attempts
      BY <1>1, <1>2
  <2>5. SaturatingMul(p.attempts, p.delay) <= SaturatingMul(Incremented(p).attempts, p.delay)
      BY <1>1, <2>4, SatMulGrows, Zenon
  <2>6. /\ SaturatingMul(p.attempts, p.delay) = SaturatingMul(p.delay, p.attempts)
        /\ SaturatingMul(Incremented(p).attempts, p.delay) = SaturatingMul(p.delay, Incremented(p).attempts)
      BY <1>1, <2>3, <2>4, Zenon
  <2> QED
      BY <1>1, <2>1, <2>2, <2>4, <2>5, <2>6, SatMulNat, Zenon
<1>6. CASE p.kind = "Exponential"
  <2> DEFINE pow(k) == SaturatingPow(p.mult, k)
  <2>1. Base(p) = SaturatingMul(pow(a), p.delay)
    <3>1. p.attempts - 1 = a
        BY <1>3
    <3> QED
        BY <1>6, <3>1, Zenon DEF Base
  <2>2. \/ Base(Incremented(p)) = SaturatingMul(pow(a), p.delay)
        \/ Base(Incremented(p)) = SaturatingMul(pow(a + 1), p.delay)
    <3>1. Incremented(p).attempts - 1 \in {a, a + 1}
        BY <1>2, <1>3
    <3>2. Base(Incremented(p)) = SaturatingMul(SaturatingPow(p.mult, Incremented(p).attempts - 1), p.delay)
        BY <1>2, <1>6, Zenon DEF Base
    <3> QED
        BY <3>1, <3>2, Zenon
  <2>3. pow(a) \in Nat /\ pow(a + 1) = SaturatingMul(pow(a), p.mult)
      BY <1>1, PowerStep, Zenon
  <2> HIDE DEF pow
  <2>4. pow(a + 1) \in Nat /\ (pow(a) <= pow(a + 1) \/ MaxU64 <= pow(a + 1))
    <3>1. PICK x \in Nat : x = pow(a)
        BY Zenon, <2>3
    <3>2. PICK e \in Nat : p.mult = e + 1
      <4>1. p.mult - 1 \in Nat /\ p.mult = (p.mult - 1) + 1
          BY <1>1, <1>6
      <4> QED
          BY Zenon, <4>1
    <3>3. x * (e + 1) = x * e + x /\ x * e \in Nat
        OBVIOUS
    <3>4. x <= x * p.mult /\ x * p.mult \in Nat
        BY <3>2, <3>3
    <3>5. SaturatingMul(x, p.mult) \in Nat /\ (x <= SaturatingMul(x, p.mult) \/ MaxU64 <= SaturatingMul(x, p.mult))
        BY <3>4, WidthsAssumption DEF SaturatingMul
    <3> QED
        BY <2>3, <3>1, <3>5, Zenon
  <2>5. SaturatingMul(pow(a), p.delay) <= SaturatingMul(pow(a + 1), p.delay)
      BY <1>1, <2>3, <2>4, SatMulGrows, Zenon
  <2>6. SaturatingMul(pow(a), p.delay) \in Nat /\ SaturatingMul(pow(a + 1), p.delay) \in Nat
      BY <1>1, <2>3, <2>4, SatMulNat, Zenon
  <2>7. SaturatingMul(pow(a), p.delay) <= SaturatingMul(pow(a), p.delay)
      BY <2>6
  <2> QED
      BY <2>1, <2>2, <2>5, <2>6, <2>7, Zenon
<1> QED
    BY <1>1, <1>4, <1>5, <1>6, Zenon DEF PolicyKinds

(* A delay is the base, the jitter and the cap. *)
DelayOf(p, j) ==
    IF p.kind = "Constant" THEN SaturatingAdd(Base(p), j) ELSE Capped(p, SaturatingAdd(Base(p), j))

LEMMA DelayForm ==
    ASSUME NEW p \in PolicyType, NEW d \in next_delay(p)
    PROVE  \E j \in Nat : j < p.jitter /\ d = DelayOf(p, j)
<1>1. p.kind \in PolicyKinds /\ p.jitter \in Nat
    BY WidthsAssumption DEF PolicyType
<1>2. ASSUME NEW b, NEW e \in add_jitter(b, p.jitter)
      PROVE  \E j \in Nat : j < p.jitter /\ e = SaturatingAdd(b, j)
  <2>1. PICK j \in 0..p.jitter : j < p.jitter /\ e = SaturatingAdd(b, j)
      BY Zenon DEF add_jitter
  <2> QED
      BY <1>1, <2>1
<1>3. CASE p.kind = "Constant"
  <2>1. next_delay(p) = add_jitter(p.delay, p.jitter) /\ Base(p) = p.delay
      BY <1>3, Zenon DEF next_delay, Base
  <2> QED
      BY <1>2, <1>3, <2>1, Zenon DEF DelayOf
<1>4. CASE p.kind = "Linear"
  <2>1. /\ next_delay(p) = {Capped(p, e) : e \in add_jitter(SaturatingMul(p.delay, p.attempts), p.jitter)}
        /\ Base(p) = SaturatingMul(p.delay, p.attempts)
      BY <1>4, Zenon DEF next_delay, Base
  <2>2. PICK e \in add_jitter(Base(p), p.jitter) : d = Capped(p, e)
      BY <2>1, Zenon
  <2>3. p.kind # "Constant"
      BY Zenon, <1>4
  <2> QED
      BY <1>2, <2>2, <2>3, Zenon DEF DelayOf
<1>5. CASE p.kind = "Exponential"
  <2> DEFINE b == SaturatingMul(SaturatingPow(p.mult, p.attempts - 1), p.delay)
  <2>1. /\ next_delay(p) = {Capped(p, e) : e \in add_jitter(b, p.jitter)}
        /\ Base(p) = b
      BY <1>5, Zenon DEF next_delay, Base
  <2> HIDE DEF b
  <2>2. PICK e \in add_jitter(Base(p), p.jitter) : d = Capped(p, e)
      BY <2>1, Zenon
  <2>3. p.kind # "Constant"
      BY Zenon, <1>5
  <2> QED
      BY <1>2, <2>2, <2>3, Zenon DEF DelayOf
<1> QED
    BY <1>1, <1>3, <1>4, <1>5, Zenon DEF PolicyKinds

(* One more attempt shortens the delay by less than the jitter. *)
LEMMA DelaysBackOff ==
    ASSUME NEW p \in PolicyType, p.attempts # 0, p.kind = "Exponential" => p.mult # 0,
           NEW d \in next_delay(p), NEW e \in next_delay(Incremented(p))
    PROVE  d \in Nat /\ d <= MaxU64 /\ e \in Nat /\ e <= MaxU64 /\ e + p.jitter >= d
<1>1. /\ Incremented(p) \in PolicyType
      /\ Incremented(p).jitter = p.jitter /\ Incremented(p).max_delay = p.max_delay
      /\ Incremented(p).kind = p.kind
    BY WidthsAssumption DEF PolicyType, Incremented
<1>2. PICK i \in Nat : i < p.jitter /\ d = DelayOf(p, i)
    BY DelayForm, Zenon
<1>3. PICK j \in Nat : j < p.jitter /\ e = DelayOf(Incremented(p), j)
    BY <1>1, DelayForm, Zenon
<1>4. p.jitter \in Nat /\ p.max_delay \in Nat
    BY WidthsAssumption DEF PolicyType
<1>5. PICK a \in Nat, b \in Nat : a = Base(p) /\ b = Base(Incremented(p)) /\ a <= b
    BY BaseGrows, Zenon
<1>6. PICK x \in Nat, y \in Nat :
         /\ x = SaturatingAdd(a, i) /\ y = SaturatingAdd(b, j)
         /\ x <= MaxU64 /\ y <= MaxU64 /\ y + p.jitter >= x
    BY <1>2, <1>3, <1>4, <1>5, WidthsAssumption DEF SaturatingAdd
<1>7. /\ d = (IF p.kind = "Constant" THEN x ELSE IF x > p.max_delay THEN p.max_delay ELSE x)
      /\ e = (IF p.kind = "Constant" THEN y ELSE IF y > p.max_delay THEN p.max_delay ELSE y)
    BY <1>1, <1>2, <1>3, <1>5, <1>6, Zenon DEF DelayOf, Capped
<1> QED
    BY <1>4, <1>6, <1>7, WidthsAssumption

LEMMA DelayNat ==
    ASSUME NEW p \in PolicyType, p.attempts # 0, p.kind = "Exponential" => p.mult # 0,
           NEW d \in next_delay(p)
    PROVE  d \in Nat
<1>1. PICK i \in Nat : d = DelayOf(p, i)
    BY DelayForm, Zenon
<1>2. PICK a \in Nat : a = Base(p)
    BY BaseGrows, Zenon
<1>3. SaturatingAdd(a, i) \in Nat
    BY WidthsAssumption DEF SaturatingAdd
<1>4. p.max_delay \in Nat
    BY WidthsAssumption DEF PolicyType
<1> QED
    BY <1>1, <1>2, <1>3, <1>4, Zenon DEF DelayOf, Capped

(* The last delay was computed from the attempts counted so far. *)
LastGiven ==
    /\ policy \in PolicyType
    /\ last # NoDelay => policy.attempts # 0 /\ last \in next_delay(policy)

(* next_reconnection_delay counts the attempt and gives the delay of that count. *)
LEMMA DelayedGiven ==
    ASSUME LastGiven, NEW way, Delayed(way)
    PROVE  /\ LastGiven'
           /\ last' = last \/ last' \in next_delay(Incremented(policy))
           /\ policy'.kind = policy.kind /\ policy'.mult = policy.mult /\ policy'.jitter = policy.jitter
<1>1. policy' = Incremented(policy) /\ policy \in PolicyType
    BY Zenon DEF Delayed, LastGiven
<1>2. /\ policy' \in PolicyType
      /\ policy'.kind = policy.kind /\ policy'.mult = policy.mult /\ policy'.jitter = policy.jitter
      /\ policy.jitter # 0 => policy'.attempts # 0
    BY <1>1, WidthsAssumption DEF PolicyType, Incremented
<1>3. CASE policy.jitter = 0
  <2>1. last' = last
      BY <1>3, Zenon DEF Delayed
  <2>2. last = NoDelay
    <3>1. \A j \in Nat : ~(j < 0)
        OBVIOUS
    <3> QED
        BY <1>1, <1>3, <3>1, DelayForm, Zenon DEF LastGiven
  <2>3. NoDelay' = NoDelay
      BY Zenon DEF NoDelay
  <2> QED
      BY <1>2, <2>1, <2>2, <2>3, Zenon DEF LastGiven
<1>4. CASE policy.jitter # 0
  <2>1. last' \in next_delay(policy')
      BY <1>1, <1>4, Zenon DEF Delayed
  <2> QED
      BY <1>1, <1>2, <1>4, <2>1, Zenon DEF LastGiven
<1> QED
    BY Zenon, <1>3, <1>4

(* reset_attempts forgets the last delay. *)
LEMMA ResetGiven ==
    ASSUME LastGiven, reset_attempts
    PROVE  LastGiven' /\ last' = NoDelay'
<1>1. policy' \in PolicyType
    BY WidthsAssumption DEF LastGiven, PolicyType, reset_attempts
<1>2. last' = NoDelay'
    BY Zenon DEF reset_attempts, NoDelay
<1> QED
    BY <1>1, <1>2, Zenon DEF LastGiven

(* What a step does to the last delay. *)
NotShorter ==
    /\ last # NoDelay /\ last' # NoDelay
    /\ policy.kind = "Exponential" => policy.mult # 0
    => last' + policy.jitter >= last

LEMMA StepBacksOff ==
    ASSUME LastGiven, [PolicyNext]_policyVars
    PROVE  LastGiven' /\ NotShorter
<1>0. NoDelay' = NoDelay
    BY Zenon DEF NoDelay
<1>1. CASE UNCHANGED <<policy, last>>
  <2>1. LastGiven'
      BY <1>0, <1>1, Zenon DEF LastGiven
  <2>2. ASSUME last # NoDelay, policy.kind = "Exponential" => policy.mult # 0
        PROVE  last' + policy.jitter >= last
    <3>1. last \in Nat
        BY <2>2, DelayNat, Zenon DEF LastGiven
    <3>2. policy.jitter \in Nat
        BY WidthsAssumption DEF LastGiven, PolicyType
    <3> QED
        BY <1>1, <3>1, <3>2
  <2> QED
      BY <2>1, <2>2, Zenon DEF NotShorter
<1>2. CASE reset_attempts
    BY <1>0, <1>2, ResetGiven, Zenon DEF NotShorter
<1>3. ASSUME NEW way, Delayed(way)
      PROVE  LastGiven' /\ NotShorter
  <2>1. /\ LastGiven'
        /\ last' = last \/ last' \in next_delay(Incremented(policy))
      BY Zenon, <1>3, DelayedGiven
  <2>2. ASSUME last # NoDelay, policy.kind = "Exponential" => policy.mult # 0
        PROVE  last' + policy.jitter >= last
    <3>1. policy \in PolicyType /\ policy.attempts # 0 /\ last \in next_delay(policy)
        BY <2>2, Zenon DEF LastGiven
    <3>2. CASE last' \in next_delay(Incremented(policy))
        BY <2>2, <3>1, <3>2, DelaysBackOff, Zenon
    <3>3. CASE last' = last
      <4>1. last \in Nat
          BY <2>2, <3>1, DelayNat, Zenon
      <4>2. policy.jitter \in Nat
          BY <3>1, WidthsAssumption DEF PolicyType
      <4> QED
          BY <3>3, <4>1, <4>2
    <3> QED
        BY <2>1, <3>2, <3>3, Zenon
  <2> QED
      BY <2>1, <2>2, Zenon DEF NotShorter
<1>4. CASE \E way \in {"reconnect", "replicas"} : BeginDelayed(way)
    BY <1>1, <1>3, <1>4, Zenon DEF BeginDelayed, OutOfAttempts
<1>5. CASE \E way \in {"cluster", "redirect", "asking"} : BeginAtOnce(way)
    BY <1>1, <1>5, Zenon DEF BeginAtOnce
<1>6. CASE Slept \/ SleepInterrupted
    BY <1>1, <1>6, Zenon DEF Slept, SleepInterrupted
<1>7. CASE TrySucceeds \/ TryFailsForGood
    BY <1>1, <1>2, <1>7, Zenon DEF TrySucceeds, TryFailsForGood
<1>8. CASE TryFails
    BY <1>1, <1>3, <1>8, Zenon DEF TryFails, OutOfAttempts
<1>9. CASE AskAgain \/ StartTask
    BY <1>2, <1>9, Zenon DEF AskAgain, StartTask
<1>10. CASE UNCHANGED policyVars
    BY <1>1, <1>10, Zenon DEF policyVars
<1> QED
    BY <1>4, <1>5, <1>6, <1>7, <1>8, <1>9, <1>10, Zenon DEF PolicyNext

(* next_delay after next_delay, through every loop of the router that shares the counter,
   is shorter by less than the jitter until the attempts are reset: for any widths of u32
   and u64, where saturating products and powers may overflow at every attempt, and for
   every policy but an exponential one with the factor 0. *)
THEOREM DelaysGrow == PolicySpec => BacksOff
<1>1. PolicyInit => LastGiven
  <2>1. ASSUME NEW p \in Policies, PolicyStart(p)
        PROVE  LastGiven
    <3>1. p \in PolicyType
        BY PoliciesAssumption, WidthsAssumption DEF PolicyType
    <3> QED
        BY <2>1, <3>1, Zenon DEF PolicyStart, LastGiven
  <2> QED
      BY <2>1, Zenon DEF PolicyInit
<1>2. LastGiven /\ [PolicyNext]_policyVars => LastGiven'
    BY Zenon, StepBacksOff
<1>3. LastGiven /\ [PolicyNext]_policyVars => [NotShorter]_policyVars
    BY Zenon, StepBacksOff
<1>4. PolicySpec => [][NotShorter]_policyVars
    BY <1>1, <1>2, <1>3, PTL DEF PolicySpec
<1> QED
    BY <1>4, Zenon DEF BacksOff, NotShorter

-----------------------------------------------------------------------------
(***************************************************************************)
(* The writer found through sentinels, for any deployment, any number of   *)
(* failovers and any number of failed requests.                            *)
(***************************************************************************)

Connected == phase \in {"setup", "role", "update"}

(* setup counts its requests, and the attempt moves on after the last one. *)
StepsCounted ==
    /\ phase \in {"idle", "sentinel", "lookup", "setup", "role", "update"}
    /\ phase \in {"sentinel", "lookup"} => step = 1
    /\ phase = "setup" => step \in 1 .. 5
    /\ phase \in {"role", "update"} => step = 6

(* Every request that may not fail and that the count has passed has succeeded on this
   connection. *)
PassedSucceeded ==
    Connected =>
        /\ step > 1 => "authenticate" \in done
        /\ step > 2 => "set_client_name" \in done
        /\ step > 3 /\ HasDatabase => "select_database" \in done

(* The primary is one of those seen during the attempt, and the server that passed the
   check of its role was one. *)
MasterSeen ==
    /\ phase # "idle" => master \in masters
    /\ phase = "update" => candidate \in masters

DiscoveryInv == StepsCounted /\ PassedSucceeded /\ MasterSeen /\ WriterReady
-----------------------------------------------------------------------------
(* The steps of the setup: only the optional requests may fail. *)
LEMMA SetupKeeps ==
    ASSUME DiscoveryInv, setup
    PROVE  DiscoveryInv'
<1>1. /\ phase = "setup" /\ step \in 1 .. 5 /\ step' = step + 1
      /\ phase' = IF step = 5 THEN "role" ELSE "setup"
    BY Zenon DEF setup, SetupSteps, DiscoveryInv, StepsCounted
<1>2. /\ done \subseteq done'
      /\ step = 1 => "authenticate" \in done'
      /\ step = 2 => "set_client_name" \in done'
      /\ step = 3 /\ HasDatabase => "select_database" \in done'
    BY <1>1 DEF setup, SetupSteps, Tolerant, Optional
<1>3. UNCHANGED <<deployment, master, masters, writer, setupOf, mastersOf>>
    BY Zenon DEF setup, worldVars, cacheVars
<1>4. StepsCounted'
    BY <1>1 DEF StepsCounted
<1>5. PassedSucceeded'
    BY <1>1, <1>2, <1>3 DEF DiscoveryInv, PassedSucceeded, Connected, HasDatabase
<1> QED
    BY <1>1, <1>3, <1>4, <1>5, Zenon DEF DiscoveryInv, MasterSeen, WriterReady, HasDatabase

(* An attempt that fails, and what happens outside of it, keep the writer's history. *)
LEMMA AttemptFailsKeeps ==
    ASSUME DiscoveryInv, AttemptFails
    PROVE  DiscoveryInv'
    BY Zenon DEF AttemptFails, DiscoveryInv, StepsCounted, PassedSucceeded, MasterSeen, WriterReady,
           Connected, HasDatabase, worldVars, cacheVars

LEMMA WorldKeeps ==
    ASSUME DiscoveryInv,
           UNCHANGED <<deployment, phase, candidate, step, done, setupOf, mastersOf>>,
           writer' = writer \/ writer' = NoServer,
           masters \subseteq masters', master' \in masters' \/ UNCHANGED <<master, masters>>
    PROVE  DiscoveryInv'
    BY Zenon DEF DiscoveryInv, StepsCounted, PassedSucceeded, MasterSeen, WriterReady, Connected, HasDatabase

LEMMA DiscoveryInit_Inv == DiscoveryInit => DiscoveryInv
    BY Zenon DEF DiscoveryInit, DiscoveryStart, DiscoveryInv, StepsCounted, PassedSucceeded, MasterSeen,
           WriterReady, Connected

(* One step per action. *)
LEMMA DiscoveryNext_Inv ==
    ASSUME DiscoveryInv, [DiscoveryNext]_discoveryVars
    PROVE  DiscoveryInv'
<1> USE DEF worldVars, cacheVars, attemptVars
<1>1. CASE BeginDiscovery
    BY <1>1, Zenon DEF BeginDiscovery, DiscoveryInv, StepsCounted, PassedSucceeded, MasterSeen, WriterReady,
                Connected, HasDatabase
<1>2. CASE connect_to_sentinel
    BY <1>2, Zenon DEF connect_to_sentinel, DiscoveryInv, StepsCounted, PassedSucceeded, MasterSeen,
                WriterReady, Connected, HasDatabase
<1>3. CASE NoSentinelLeft
    BY <1>3, AttemptFailsKeeps, Zenon DEF NoSentinelLeft
<1>4. CASE discover_primary_node
    BY <1>4 DEF discover_primary_node, DiscoveryInv, StepsCounted, PassedSucceeded, MasterSeen,
                WriterReady, Connected, HasDatabase
<1>5. CASE setup
    BY Zenon, <1>5, SetupKeeps
<1>6. CASE check_primary_node_role
  <2>1. CASE IsMaster
      BY <1>6, <2>1 DEF check_primary_node_role, IsMaster, DiscoveryInv, StepsCounted,
                        PassedSucceeded, MasterSeen, WriterReady, Connected, HasDatabase
  <2>2. CASE ~IsMaster
      BY <1>6, <2>2, AttemptFailsKeeps, Zenon DEF check_primary_node_role
  <2> QED
      BY Zenon, <2>1, <2>2
<1>7. CASE update_cached_client_state
  <2>1. CASE Readable(Others(informant))
    <3>1. /\ candidate \in masters /\ {"authenticate", "set_client_name"} \subseteq done
          /\ HasDatabase => "select_database" \in done
        BY <1>7 DEF update_cached_client_state, DiscoveryInv, StepsCounted, PassedSucceeded,
                    MasterSeen, Connected
    <3> QED
        BY <1>7, <2>1, <3>1 DEF update_cached_client_state, DiscoveryInv, StepsCounted,
                                PassedSucceeded, MasterSeen, WriterReady, Connected, HasDatabase
  <2>2. CASE ~Readable(Others(informant))
      BY <1>7, <2>2, AttemptFailsKeeps, Zenon DEF update_cached_client_state
  <2> QED
      BY Zenon, <2>1, <2>2
<1>8. CASE RequestFails
    BY <1>8, AttemptFailsKeeps, Zenon DEF RequestFails
<1>9. CASE LoseWriter
    BY <1>9, WorldKeeps, Zenon DEF LoseWriter
<1>10. ASSUME NEW n \in RedisNodes, Failover(n)
       PROVE  DiscoveryInv'
  <2>1. master' \in masters' /\ masters \subseteq masters'
      BY <1>10, Zenon DEF Failover
  <2> QED
      BY <1>10, <2>1, WorldKeeps, Zenon DEF Failover
<1>11. ASSUME NEW s \in AllSentinels, ViewCatchesUp(s) \/ SentinelDown(s) \/ SentinelBack(s)
       PROVE  DiscoveryInv'
    BY <1>11, WorldKeeps, Zenon DEF ViewCatchesUp, SentinelDown, SentinelBack
<1>12. CASE UNCHANGED discoveryVars
    BY <1>12, WorldKeeps, Zenon DEF discoveryVars
<1> QED
    BY Zenon, <1>1, <1>2, <1>3, <1>4, <1>5, <1>6, <1>7, <1>8, <1>9, <1>10, <1>11, <1>12
       DEF DiscoveryNext, Attempt

(* The writer is connected to a server that was the primary during the attempt that made
   it, after every setup request that may not fail: for every list of sentinels, any
   number of failovers and of failed requests. *)
THEOREM WriterIsReady == DiscoverySpec => []WriterReady
<1>1. DiscoveryInv => WriterReady
    BY Zenon DEF DiscoveryInv
<1> QED
    BY <1>1, DiscoveryInit_Inv, DiscoveryNext_Inv, PTL DEF DiscoverySpec

-----------------------------------------------------------------------------
(***************************************************************************)
(* What a subscriber tracks is what the server sends it, for any number of *)
(* callers, names, attempts and broken connections.                        *)
(***************************************************************************)

Orders == [op : {"subscribe", "unsubscribe"}, kind : Range(Kinds), topics : SUBSET Topics]
Plan == Seq(Orders)

SubscriberTypes ==
    /\ tracked \in SUBSET Topics /\ subscribed \in SUBSET Topics
    /\ overlapped \in SUBSET Topics
    /\ todo \in [Parties -> Plan]
    /\ stage \in [Parties -> {"idle", "sent", "executed", "answered", "failed"}]
    /\ notes \in Nat /\ subOnline \in BOOLEAN
    /\ asked \in [Subscribers -> SUBSET Topics]

(* A command that is under way is the first of a plan. *)
CommandsPlanned == \A p \in Parties : stage[p] # "idle" => todo[p] # <<>>

(* A plan is about the topics of its call, and the manager only subscribes. *)
OnlySubscribes(plan) == \A i \in DOMAIN plan : plan[i].op = "subscribe"
PlansKept ==
    /\ \A p \in Subscribers : Touched(todo[p]) \subseteq asked[p]
    /\ OnlySubscribes(todo[Manager])
    /\ stage[Manager] = "failed" => notes > 0

(* Nothing about a reconnection is left to do. *)
Calm == subOnline /\ notes = 0 /\ todo[Manager] = <<>>
(* A call about a topic is in progress. *)
About(p, t) == todo[p] # <<>> /\ t \in asked[p]
(* A topic that never overlapped has one call at a time, between reconnections. *)
Alone(t) ==
    \A p \in Subscribers : About(p, t) =>
        /\ Calm /\ stage[p] # "failed"
        /\ \A q \in Subscribers : About(q, t) => q = p
(* The server did what the command under way asks. *)
Executed(p) == stage[p] \in {"executed", "answered"}
Obeyed(t) ==
    \A p \in Subscribers :
        Executed(p) /\ t \in Meant(Head(todo[p])) =>
            (t \in subscribed <=> Head(todo[p]).op = "subscribe")
(* In calm, and with no command about it, the topic is in sync. *)
CalmSync(t) ==
    Calm /\ (\A p \in Subscribers : t \notin Touched(todo[p])) =>
        (t \in tracked <=> t \in subscribed)
(* While the manager catches up it asks for what is tracked, all of it in the round
   that follows the last reconnection, and the server sends nothing else. *)
Pending(p) == IF Executed(p) THEN Touched(Tail(todo[p])) ELSE Touched(todo[p])
CatchesUp(t) ==
    /\ t \in Touched(todo[Manager]) => t \in tracked
    /\ ~Calm => (t \in subscribed => t \in tracked)
    /\ subOnline /\ notes = 0 /\ todo[Manager] # <<>> /\ t \in tracked =>
           t \in subscribed \cup Pending(Manager)

Follows(t) == Alone(t) /\ Obeyed(t) /\ CalmSync(t) /\ CatchesUp(t)

SubscriberInv ==
    /\ SubscriberTypes /\ CommandsPlanned /\ PlansKept
    /\ \A t \in Topics \ overlapped : Follows(t)

(* The three tracked sets cover every topic. *)
LEMMA KindsCover ==
    /\ DOMAIN Kinds = 1..3
    /\ \A i \in 1..3 : Kinds[i] \in Range(Kinds)
    /\ \A t \in Topics : t[1] \in Range(Kinds)
    /\ \A t \in Topics : \E i \in 1..3 : t[1] = Kinds[i]
<1>1. DOMAIN Kinds = 1..3
    BY DEF Kinds
<1> QED
    BY <1>1, Zenon DEF Topics, Range

(* What a command of a plan is about: topics of its kind, those it names if it
   subscribes. *)
LEMMA MeantTopics ==
    ASSUME NEW plan \in Plan, NEW i \in DOMAIN plan
    PROVE  /\ Meant(plan[i]) \subseteq Topics
           /\ plan[i].op = "subscribe" => Meant(plan[i]) = plan[i].topics
           /\ plan[i].op \in {"subscribe", "unsubscribe"} /\ plan[i].topics \subseteq Topics
<1>1. plan[i] \in Orders
    BY DEF Plan
<1> QED
    BY <1>1, Zenon DEF Orders, Meant, OfKind

(* A plan is its first command and the rest. *)
LEMMA TouchedTail ==
    ASSUME NEW plan \in Plan, plan # <<>>
    PROVE  /\ Tail(plan) \in Plan
           /\ Touched(plan) = Meant(Head(plan)) \cup Touched(Tail(plan))
           /\ OnlySubscribes(plan) => OnlySubscribes(Tail(plan)) /\ Head(plan).op = "subscribe"
           /\ Meant(Head(plan)) \subseteq Topics
           /\ Head(plan).op = "subscribe" => Meant(Head(plan)) = Head(plan).topics
           /\ Head(plan).op \in {"subscribe", "unsubscribe"}
           /\ Head(plan).topics \subseteq Topics
<1>1. Tail(plan) \in Plan /\ 1 \in DOMAIN plan /\ Head(plan) = plan[1]
    BY DEF Plan
<1>2. \A i \in DOMAIN Tail(plan) : i + 1 \in DOMAIN plan /\ Tail(plan)[i] = plan[i + 1]
    BY DEF Plan
<1>3. \A i \in DOMAIN plan : i = 1 \/ (i - 1 \in DOMAIN Tail(plan) /\ Tail(plan)[i - 1] = plan[i])
    BY DEF Plan
<1>4. Touched(plan) = Meant(Head(plan)) \cup Touched(Tail(plan))
    BY <1>1, <1>2, <1>3, Zenon DEF Touched
<1>5. OnlySubscribes(plan) => OnlySubscribes(Tail(plan)) /\ Head(plan).op = "subscribe"
    BY <1>1, <1>2, Zenon DEF OnlySubscribes
<1> QED
    BY Zenon, <1>1, <1>4, <1>5, MeantTopics

LEMMA TouchedEmpty == <<>> \in Plan /\ Touched(<<>>) = {} /\ OnlySubscribes(<<>>)
BY DEF Plan, Touched, OnlySubscribes

(* A command for each kind: together they are about every topic they are given. *)
LEMMA PlanForAllKinds ==
    ASSUME NEW op \in {"subscribe", "unsubscribe"}, NEW topics \in SUBSET Topics
    PROVE  /\ ForAllKinds(op, topics) \in Plan /\ ForAllKinds(op, topics) # <<>>
           /\ topics \subseteq Touched(ForAllKinds(op, topics))
           /\ op = "subscribe" => /\ OnlySubscribes(ForAllKinds(op, topics))
                                  /\ Touched(ForAllKinds(op, topics)) \subseteq topics
<1> DEFINE plan == ForAllKinds(op, topics)
<1>1. /\ DOMAIN plan = 1..3
      /\ \A i \in 1..3 : plan[i] = Step(op, Kinds[i], topics)
    BY KindsCover, Zenon DEF ForAllKinds
<1>2. \A i \in 1..3 : plan[i] \in Orders
    BY <1>1, KindsCover DEF Step, OfKind, Orders
<1>3. plan \in Plan /\ plan # <<>>
    BY <1>1, <1>2, KindsCover DEF Plan, ForAllKinds
<1>4. \A i \in 1..3 : /\ plan[i].op = op /\ plan[i].topics = OfKind(topics, Kinds[i])
                      /\ plan[i].kind = Kinds[i]
    BY <1>1 DEF Step
<1>5. \A i \in 1..3 : OfKind(topics, Kinds[i]) \subseteq Meant(plan[i])
    BY <1>4, Zenon DEF Meant, OfKind
<1>6. topics \subseteq Touched(plan)
    BY <1>1, <1>5, KindsCover, Zenon DEF Touched, OfKind
<1>7. op = "subscribe" => OnlySubscribes(plan) /\ Touched(plan) \subseteq topics
    BY <1>1, <1>4 DEF OnlySubscribes, Touched, Meant, OfKind
<1> QED
    BY Zenon, <1>3, <1>6, <1>7

(* A single command. *)
LEMMA PlanOfOne ==
    ASSUME NEW op \in {"subscribe", "unsubscribe"}, NEW topic \in Topics
    PROVE  /\ <<Step(op, topic[1], {topic})>> \in Plan
           /\ <<Step(op, topic[1], {topic})>> # <<>>
<1>1. topic[1] \in Range(Kinds)
    BY Zenon, KindsCover
<1>2. Step(op, topic[1], {topic}) \in Orders
    BY <1>1, Zenon DEF Step, OfKind, Orders
<1> QED
    BY <1>2 DEF Plan

LEMMA PartyKinds ==
    /\ Manager \in Parties /\ Manager \notin Subscribers /\ Subscribers \subseteq Parties
    /\ \A p \in Parties : p # Manager => p \in Subscribers
BY SubscriberAssumption, Zenon DEF Parties

(* No call has begun. *)
LEMMA SubscriberStarts ==
    ASSUME SubscriberInit
    PROVE  SubscriberInv
<1>1. SubscriberTypes /\ CommandsPlanned
    BY TouchedEmpty, Zenon DEF SubscriberInit, SubscriberTypes, CommandsPlanned
<1>2. \A p \in Parties : todo[p] = <<>> /\ stage[p] = "idle"
    BY Zenon DEF SubscriberInit
<1>3. PlansKept
    BY <1>2, TouchedEmpty, PartyKinds, Zenon DEF PlansKept
<1>4. \A t \in Topics : Follows(t)
    BY Zenon, <1>2, TouchedEmpty, PartyKinds
    DEF SubscriberInit, Follows, Alone, About, Obeyed, Executed, CalmSync, CatchesUp, Calm
<1> QED
    BY <1>1, <1>3, <1>4, Zenon DEF SubscriberInv

(* A call begins: topics that others are busy with, or all of its topics while a
   reconnection is served, overlap from here on.  unsubscribe_all forgets what is
   tracked, all of which its own commands are about. *)
LEMMA CallBegins ==
    ASSUME SubscriberInv, NEW p \in Subscribers, NEW plan \in Plan, plan # <<>>, BeginCall(p, plan),
           tracked' = tracked \/ (tracked' = {} /\ tracked \subseteq Touched(plan))
    PROVE  SubscriberInv'
<1>1. /\ todo[p] = <<>> /\ asked[p] = {}
      /\ todo' = [todo EXCEPT ![p] = plan]
      /\ asked' = [asked EXCEPT ![p] = Touched(plan)]
      /\ UNCHANGED <<subscribed, stage, notes, subOnline>>
    BY Zenon DEF BeginCall
<1>2. SubscriberTypes /\ CommandsPlanned /\ PlansKept
    BY Zenon DEF SubscriberInv
<1>3. /\ p \in Parties /\ Manager \in Parties /\ p # Manager /\ Subscribers \subseteq Parties
      /\ stage[p] = "idle" /\ todo[Manager]' = todo[Manager] /\ todo[p]' = plan
      /\ asked'[p] = Touched(plan) /\ Touched(plan) \subseteq Topics
      /\ \A q \in Parties : q # p => todo'[q] = todo[q]
      /\ \A q \in Subscribers : q # p => asked'[q] = asked[q]
  <2>1. Touched(plan) \subseteq Topics
      BY MeantTopics, Zenon DEF Touched
  <2> QED
      BY <1>1, <1>2, <2>1, PartyKinds, SubscriberAssumption, Zenon DEF SubscriberTypes, CommandsPlanned
<1>4. /\ overlapped \subseteq overlapped' /\ overlapped' \subseteq Topics
      /\ \A t \in Touched(plan) \ overlapped' :
            Calm /\ \A q \in Subscribers : ~About(q, t)
    BY <1>2, <1>3 DEF BeginCall, Calm, About, SubscriberTypes
<1>5. SubscriberTypes' /\ CommandsPlanned' /\ PlansKept'
    BY <1>1, <1>2, <1>3, <1>4, Zenon DEF SubscriberTypes, CommandsPlanned, PlansKept
<1>6. ASSUME NEW t \in Topics \ overlapped'
      PROVE  Follows(t)'
  <2>1. Follows(t)
      BY <1>4, Zenon DEF SubscriberInv
  <2>2. Calm' = Calm
      BY <1>1, <1>3, Zenon DEF Calm
  <2>3. t \notin Touched(plan) => (t \in tracked' <=> t \in tracked)
      OBVIOUS
  <2>4. Alone(t)'
      BY <1>1, <1>3, <1>4, <2>1, <2>2 DEF Follows, Alone, About
  <2>5. Obeyed(t)'
      BY <1>1, <1>3, <2>1, Zenon DEF Follows, Obeyed, Executed
  <2>6. CalmSync(t)'
      BY <1>1, <1>3, <2>1, <2>2, <2>3, TouchedEmpty, Zenon DEF Follows, CalmSync
  <2>7. CatchesUp(t)'
      BY <1>1, <1>3, <1>4, <2>1, <2>2, <2>3, TouchedEmpty, Zenon DEF Follows, CatchesUp, Pending, Executed, Calm
  <2> QED
      BY <2>4, <2>5, <2>6, <2>7, Zenon DEF Follows
<1> QED
    BY <1>5, <1>6, Zenon DEF SubscriberInv

(* The manager reads the tracked sets and plans a round. *)
LEMMA RoundBegins ==
    ASSUME SubscriberInv, manage_subscriptions
    PROVE  SubscriberInv'
<1> DEFINE plan == resubscribe_all
<1>1. /\ notes > 0 /\ todo[Manager] = <<>> /\ notes' = notes - 1
      /\ todo' = [todo EXCEPT ![Manager] = plan]
      /\ UNCHANGED <<tracked, subscribed, stage, subOnline, asked, overlapped>>
    BY Zenon DEF manage_subscriptions
<1>2. SubscriberTypes /\ CommandsPlanned /\ PlansKept
    BY Zenon DEF SubscriberInv
<1>3. plan \in Plan /\ plan # <<>> /\ OnlySubscribes(plan) /\ Touched(plan) = tracked
  <2>1. tracked \in SUBSET Topics /\ "subscribe" \in {"subscribe", "unsubscribe"}
      BY <1>2, Zenon DEF SubscriberTypes
  <2>2. plan = ForAllKinds("subscribe", tracked)
      BY Zenon DEF resubscribe_all
  <2>3. /\ plan \in Plan /\ plan # <<>> /\ OnlySubscribes(plan)
        /\ tracked \subseteq Touched(plan) /\ Touched(plan) \subseteq tracked
      BY Zenon, <2>1, <2>2, PlanForAllKinds
  <2> QED
      BY Zenon, <2>3
<1> HIDE DEF plan
<1>4. /\ Manager \in Parties /\ Manager \notin Subscribers /\ Subscribers \subseteq Parties
      /\ stage[Manager] = "idle" /\ todo'[Manager] = plan
      /\ \A q \in Parties : q # Manager => todo'[q] = todo[q]
    BY <1>1, <1>2, PartyKinds, SubscriberAssumption, Zenon DEF SubscriberTypes, CommandsPlanned
<1>5. SubscriberTypes' /\ CommandsPlanned' /\ PlansKept'
    BY <1>1, <1>2, <1>3, <1>4 DEF SubscriberTypes, CommandsPlanned, PlansKept
<1>6. ~Calm /\ ~Calm'
    BY <1>1, <1>3, <1>4 DEF Calm
<1>7. ASSUME NEW t \in Topics \ overlapped'
      PROVE  Follows(t)'
  <2>1. Follows(t)
      BY <1>1, Zenon DEF SubscriberInv
  <2>2. Alone(t)' /\ Obeyed(t)' /\ CalmSync(t)'
      BY <1>1, <1>4, <1>6, <2>1, Zenon DEF Follows, Alone, About, Obeyed, Executed, CalmSync
  <2>3. CatchesUp(t)'
      BY <1>1, <1>3, <1>4, <1>6, <2>1, Zenon DEF Follows, CatchesUp, Pending, Executed
  <2> QED
      BY <2>2, <2>3, Zenon DEF Follows
<1> QED
    BY <1>5, <1>7, Zenon DEF SubscriberInv

(* What every step of a command of party p leaves alone. *)
LEMMA PartyFacts ==
    ASSUME SubscriberInv, NEW p \in Parties
    PROVE  /\ SubscriberTypes /\ CommandsPlanned /\ PlansKept
           /\ Manager \in Parties /\ Manager \notin Subscribers /\ Subscribers \subseteq Parties
           /\ todo[p] \in Plan /\ (stage[p] # "idle" => todo[p] # <<>>)
           /\ p # Manager => p \in Subscribers
BY PartyKinds, SubscriberAssumption, Zenon DEF SubscriberInv, SubscriberTypes, CommandsPlanned

(* A SUBSCRIBE of nothing is skipped. *)
LEMMA NothingSkipped ==
    ASSUME SubscriberInv, NEW p \in Parties, SendSubscription(p),
           Head(todo[p]).op = "subscribe", Head(todo[p]).topics = {}
    PROVE  SubscriberInv'
<1>1. /\ todo[p] # <<>> /\ stage[p] = "idle"
      /\ todo' = [todo EXCEPT ![p] = Tail(@)]
      /\ UNCHANGED <<tracked, subscribed, notes, subOnline, asked, overlapped, stage>>
    BY Zenon DEF SendSubscription
<1>2. /\ SubscriberTypes /\ CommandsPlanned /\ PlansKept
      /\ Manager \in Parties /\ Manager \notin Subscribers /\ Subscribers \subseteq Parties
      /\ todo[p] \in Plan
    BY Zenon, PartyFacts
<1>3. /\ Tail(todo[p]) \in Plan /\ Touched(todo[p]) = Touched(Tail(todo[p]))
      /\ OnlySubscribes(todo[p]) => OnlySubscribes(Tail(todo[p]))
  <2>1. Meant(Head(todo[p])) = {}
      BY Zenon, <1>1, <1>2, TouchedTail
  <2> QED
      BY Zenon, <1>1, <1>2, <2>1, TouchedTail
<1>4. /\ todo'[p] = Tail(todo[p]) /\ \A q \in Parties : q # p => todo'[q] = todo[q]
      /\ \A q \in Parties : Touched(todo'[q]) = Touched(todo[q])
    BY <1>1, <1>2, <1>3, Zenon DEF SubscriberTypes
<1>5. SubscriberTypes' /\ CommandsPlanned' /\ PlansKept'
    BY <1>1, <1>2, <1>3, <1>4, Zenon DEF SubscriberTypes, CommandsPlanned, PlansKept
<1>6. Calm => Calm'
    BY <1>1, <1>2, <1>4, Zenon DEF Calm
<1>7. ASSUME NEW t \in Topics \ overlapped'
      PROVE  Follows(t)'
  <2>1. Follows(t)
      BY <1>1, Zenon DEF SubscriberInv
  <2>2. Alone(t)' /\ Obeyed(t)'
      BY <1>1, <1>2, <1>4, <1>6, <2>1, Zenon DEF Follows, Alone, About, Obeyed, Executed
  <2>3. \A q \in Parties : q = p => ~Executed(q)
      BY <1>1, Zenon DEF Executed
  <2>4. CatchesUp(t)'
      BY <1>1, <1>2, <1>3, <1>4, <1>6, <2>1, <2>3, Zenon DEF Follows, CatchesUp, Pending, Executed
  <2>5. ~Calm /\ Calm' => (t \in tracked <=> t \in subscribed)
      BY <1>1, <1>2, <1>4, <2>1, <2>3, TouchedEmpty, Zenon DEF Follows, CatchesUp, Pending, Calm
  <2>6. CalmSync(t)'
      BY <1>1, <1>2, <1>4, <2>1, <2>5, Zenon DEF Follows, CalmSync
  <2> QED
      BY <2>2, <2>4, <2>6, Zenon DEF Follows
<1> QED
    BY <1>5, <1>7, Zenon DEF SubscriberInv

(* The command is sent, executed, or its reply is read: the plans and the tracked sets
   do not change. *)
LEMMA CommandUnderWay ==
    ASSUME SubscriberInv, NEW p \in Parties,
           UNCHANGED <<tracked, todo, notes, subOnline, asked, overlapped>>,
           stage' = [stage EXCEPT ![p] = stage'[p]],
           SubscriberTypes', CommandsPlanned', stage[p] # "failed", stage'[p] # "failed",
           \/ ~Executed(p)' /\ ~Executed(p) /\ subscribed' = subscribed
           \/ Executed(p)' /\ Executed(p) /\ subscribed' = subscribed
           \/ /\ Executed(p)' /\ todo[p] # <<>>
              /\ subscribed' = IF Head(todo[p]).op = "subscribe"
                               THEN subscribed \cup Meant(Head(todo[p]))
                               ELSE subscribed \ Meant(Head(todo[p]))
    PROVE  SubscriberInv'
<1>1. /\ SubscriberTypes /\ CommandsPlanned /\ PlansKept
      /\ Manager \in Parties /\ Manager \notin Subscribers /\ Subscribers \subseteq Parties
      /\ todo[p] \in Plan /\ (p # Manager => p \in Subscribers)
    BY Zenon, PartyFacts
<1>2. /\ \A q \in Parties : q # p => stage'[q] = stage[q]
      /\ \A q \in Parties : stage'[q] = "failed" => stage[q] = "failed"
    BY <1>1, Zenon DEF SubscriberTypes
<1>3. PlansKept'
    BY <1>1, <1>2, Zenon DEF PlansKept
<1>4. Calm' = Calm
    BY Zenon DEF Calm
<1>5. todo[p] # <<>> =>
        /\ Touched(todo[p]) = Meant(Head(todo[p])) \cup Touched(Tail(todo[p]))
        /\ OnlySubscribes(todo[p]) => Head(todo[p]).op = "subscribe"
    BY Zenon, <1>1, TouchedTail
<1>6. ASSUME NEW t \in Topics \ overlapped'
      PROVE  Follows(t)'
  <2>1. Follows(t)
      BY Zenon DEF SubscriberInv
  <2>2. Alone(t)'
      BY <1>1, <1>2, <1>4, <2>1, Zenon DEF Follows, Alone, About
  <2>3. CASE (Executed(p)' <=> Executed(p)) /\ subscribed' = subscribed
    <3>1. \A q \in Parties : Executed(q)' <=> Executed(q)
        BY <1>2, <2>3, Zenon DEF Executed
    <3>2. Obeyed(t)' /\ CalmSync(t)' /\ CatchesUp(t)'
        BY <1>1, <1>4, <2>1, <2>3, <3>1, Zenon DEF Follows, Obeyed, CalmSync, CatchesUp, Pending
    <3> QED
        BY <2>2, <3>2, Zenon DEF Follows
  <2>4. CASE /\ Executed(p)' /\ todo[p] # <<>>
             /\ subscribed' = IF Head(todo[p]).op = "subscribe"
                              THEN subscribed \cup Meant(Head(todo[p]))
                              ELSE subscribed \ Meant(Head(todo[p]))
    <3>1. \A q \in Parties : q # p => (Executed(q)' <=> Executed(q))
        BY <1>2, Zenon DEF Executed
    <3>2. CASE t \notin Meant(Head(todo[p]))
      <4>1. t \in subscribed' <=> t \in subscribed
          BY Zenon, <2>4, <3>2
      <4>2. Obeyed(t)' /\ CalmSync(t)'
          BY <1>1, <1>4, <2>1, <3>1, <3>2, <4>1, Zenon DEF Follows, Obeyed, CalmSync
      <4>3. t \in Pending(Manager) => t \in Pending(Manager)'
          BY <1>1, <1>5, <2>4, <3>1, <3>2, Zenon DEF Pending
      <4>4. CatchesUp(t)'
          BY <1>1, <1>4, <2>1, <4>1, <4>3, Zenon DEF Follows, CatchesUp
      <4> QED
          BY <2>2, <4>2, <4>4, Zenon DEF Follows
    <3>3. CASE t \in Meant(Head(todo[p])) /\ p # Manager
      <4>1. About(p, t) /\ p \in Subscribers /\ Calm /\ t \in Touched(todo[p])
            /\ \A q \in Subscribers : About(q, t) => q = p
          BY <1>1, <1>5, <2>1, <2>4, <3>3, Zenon DEF PlansKept, About, Follows, Alone
      <4>2. \A q \in Subscribers : Executed(q) => todo[q] # <<>>
          BY <1>1, Zenon DEF Executed, CommandsPlanned
      <4>3. \A q \in Subscribers : Executed(q) /\ t \in Meant(Head(todo[q])) => q = p
        <5>1. \A q \in Subscribers : todo[q] \in Plan
            BY <1>1, Zenon DEF SubscriberTypes, Parties
        <5>2. \A q \in Subscribers :
                 todo[q] # <<>> => Touched(todo[q]) = Meant(Head(todo[q])) \cup Touched(Tail(todo[q]))
            BY <5>1, TouchedTail, Zenon
        <5> QED
            BY <1>1, <4>1, <4>2, <5>2, Zenon DEF PlansKept, About
      <4>4. Obeyed(t)'
          BY <1>1, <2>4, <3>1, <3>3, <4>3, Zenon DEF Obeyed
      <4>5. CalmSync(t)'
          BY <1>4, <4>1, Zenon DEF CalmSync
      <4>6. CatchesUp(t)'
          BY <1>4, <2>1, <4>1, Zenon DEF Follows, CatchesUp, Calm
      <4> QED
          BY <2>2, <4>4, <4>5, <4>6, Zenon DEF Follows
    <3>4. CASE t \in Meant(Head(todo[p])) /\ p = Manager
      <4>1. ~Calm /\ t \in tracked /\ t \in subscribed'
          BY <1>1, <1>5, <2>1, <2>4, <3>4, Zenon DEF PlansKept, Follows, CatchesUp, Calm
      <4>2. \A q \in Subscribers : ~About(q, t)
          BY <2>1, <4>1, Zenon DEF Follows, Alone
      <4>3. \A q \in Subscribers : Executed(q) => todo[q] # <<>>
          BY <1>1, Zenon DEF Executed, CommandsPlanned
      <4>4. ASSUME NEW q \in Subscribers, Executed(q)
            PROVE  t \notin Meant(Head(todo[q]))
        <5>1. todo[q] # <<>> /\ t \notin asked[q] /\ Touched(todo[q]) \subseteq asked[q]
            BY <1>1, <4>2, <4>3, <4>4, Zenon DEF PlansKept, About
        <5>2. todo[q] \in Plan
            BY <1>1, PartyFacts, Zenon DEF SubscriberTypes
        <5> QED BY <5>1, <5>2, TouchedTail, Zenon
      <4>5. Obeyed(t)'
          BY <1>1, <3>1, <3>4, <4>4, Zenon DEF Obeyed
      <4>6. CalmSync(t)' /\ CatchesUp(t)'
          BY <1>4, <2>1, <4>1, Zenon DEF Follows, CalmSync, CatchesUp
      <4> QED
          BY <2>2, <4>5, <4>6, Zenon DEF Follows
    <3> QED
        BY Zenon, <3>2, <3>3, <3>4
  <2> QED
      BY Zenon, <2>3, <2>4
<1> QED
    BY <1>3, <1>6, Zenon DEF SubscriberInv

(* SendSubscription, ServerExecutes and ReadReply are such steps. *)
LEMMA CommandSent ==
    ASSUME SubscriberInv, NEW p \in Parties, SendSubscription(p)
    PROVE  SubscriberInv'
<1>1. /\ SubscriberTypes /\ CommandsPlanned
      /\ todo[p] # <<>> /\ stage[p] = "idle"
      /\ UNCHANGED <<tracked, subscribed, notes, subOnline, asked, overlapped>>
    BY Zenon DEF SubscriberInv, SendSubscription
<1>2. CASE Head(todo[p]).op = "subscribe" /\ Head(todo[p]).topics = {}
    BY Zenon, <1>2, NothingSkipped
<1>3. CASE ~(Head(todo[p]).op = "subscribe" /\ Head(todo[p]).topics = {})
  <2>1. /\ stage' = [stage EXCEPT ![p] = "sent"] /\ todo' = todo
      BY <1>3, Zenon DEF SendSubscription
  <2>2. SubscriberTypes' /\ CommandsPlanned'
      BY <1>1, <2>1, Zenon DEF SubscriberTypes, CommandsPlanned
  <2>3. ~Executed(p) /\ ~Executed(p)' /\ stage'[p] = "sent"
      BY <1>1, <2>1, Zenon DEF Executed, SubscriberTypes
  <2> QED
      BY Zenon, <1>1, <2>1, <2>2, <2>3, CommandUnderWay
<1> QED
    BY Zenon, <1>2, <1>3

LEMMA CommandExecuted ==
    ASSUME SubscriberInv, NEW p \in Parties, ServerExecutes(p)
    PROVE  SubscriberInv'
<1>1. /\ SubscriberTypes /\ CommandsPlanned /\ stage[p] = "sent"
      /\ todo[p] # <<>> /\ todo[p] \in Plan
      /\ stage' = [stage EXCEPT ![p] = "executed"]
      /\ UNCHANGED <<tracked, todo, notes, subOnline, asked, overlapped>>
      /\ subscribed' = IF Head(todo[p]).op = "subscribe"
                       THEN subscribed \cup Meant(Head(todo[p]))
                       ELSE subscribed \ Meant(Head(todo[p]))
    BY PartyFacts, Zenon DEF SubscriberInv, ServerExecutes
<1>2. Meant(Head(todo[p])) \subseteq Topics
    BY Zenon, <1>1, TouchedTail
<1>3. SubscriberTypes' /\ CommandsPlanned'
    BY <1>1, <1>2, Zenon DEF SubscriberTypes, CommandsPlanned
<1>4. Executed(p)' /\ stage'[p] = "executed"
    BY <1>1, Zenon DEF Executed, SubscriberTypes
<1> QED
    BY Zenon, <1>1, <1>3, <1>4, CommandUnderWay

LEMMA ReplyRead ==
    ASSUME SubscriberInv, NEW p \in Parties, ReadReply(p)
    PROVE  SubscriberInv'
<1>1. /\ SubscriberTypes /\ CommandsPlanned /\ stage[p] = "executed"
      /\ stage' = [stage EXCEPT ![p] = "answered"]
      /\ UNCHANGED <<tracked, subscribed, todo, notes, subOnline, asked, overlapped>>
    BY Zenon DEF SubscriberInv, ReadReply
<1>2. SubscriberTypes' /\ CommandsPlanned'
    BY <1>1, Zenon DEF SubscriberTypes, CommandsPlanned
<1>3. Executed(p) /\ Executed(p)' /\ stage'[p] = "answered"
    BY <1>1, Zenon DEF Executed, SubscriberTypes
<1> QED
    BY Zenon, <1>1, <1>2, <1>3, CommandUnderWay

(* The reply is in and the tracked set follows it. *)
LEMMA TrackedUpdated ==
    ASSUME SubscriberInv, NEW p \in Parties, UpdateTracked(p)
    PROVE  SubscriberInv'
<1> DEFINE head == Head(todo[p])
           rest == Tail(todo[p])
<1>1. /\ stage[p] = "answered" /\ tracked' = Track(head)
      /\ todo' = [todo EXCEPT ![p] = rest] /\ stage' = [stage EXCEPT ![p] = "idle"]
      /\ UNCHANGED <<subscribed, notes, subOnline, asked, overlapped>>
    BY Zenon DEF UpdateTracked
<1>2. /\ SubscriberTypes /\ CommandsPlanned /\ PlansKept
      /\ Manager \in Parties /\ Manager \notin Subscribers /\ Subscribers \subseteq Parties
      /\ todo[p] \in Plan /\ todo[p] # <<>> /\ (p # Manager => p \in Subscribers)
    BY Zenon, <1>1, PartyFacts
<1>3. /\ rest \in Plan /\ Touched(todo[p]) = Meant(head) \cup Touched(rest)
      /\ OnlySubscribes(todo[p]) => OnlySubscribes(rest) /\ head.op = "subscribe"
      /\ Meant(head) \subseteq Topics
      /\ head.op = "subscribe" => Meant(head) = head.topics
    BY Zenon, <1>2, TouchedTail
<1>4. tracked' = IF head.op = "subscribe" THEN tracked \cup Meant(head) ELSE tracked \ Meant(head)
    BY <1>1, <1>3, Zenon DEF Track
<1> HIDE DEF head, rest
<1>5. /\ todo'[p] = rest /\ stage'[p] = "idle" /\ ~Executed(p)'
      /\ \A q \in Parties : q # p => todo'[q] = todo[q] /\ stage'[q] = stage[q]
                                     /\ (Executed(q)' <=> Executed(q))
    BY <1>1, <1>2, Zenon DEF SubscriberTypes, Executed
<1>6. SubscriberTypes' /\ CommandsPlanned'
    BY <1>1, <1>2, <1>3, <1>4, <1>5, Zenon DEF SubscriberTypes, CommandsPlanned
<1>7. PlansKept'
    BY <1>1, <1>2, <1>3, <1>5, Zenon DEF PlansKept
<1>8. Calm => Calm'
    BY <1>1, <1>2, <1>5, Zenon DEF Calm
<1>9. Executed(p) /\ Pending(p) = Touched(rest)
    BY <1>1, Zenon DEF Executed, Pending, rest
<1>10. Pending(Manager)' = Pending(Manager)
  <2>1. CASE p = Manager
      BY <1>5, <1>9, <2>1, Zenon DEF Pending
  <2>2. CASE p # Manager
      BY <1>2, <1>5, <2>2, Zenon DEF Pending
  <2> QED
      BY Zenon, <2>1, <2>2
<1>11. ASSUME NEW t \in Topics \ overlapped'
       PROVE  Follows(t)'
  <2>1. Follows(t)
      BY <1>1, Zenon DEF SubscriberInv
  <2>2. Alone(t)'
      BY <1>1, <1>2, <1>5, <1>8, <2>1, Zenon DEF Follows, Alone, About
  <2>3. Obeyed(t)'
      BY <1>1, <1>2, <1>5, <2>1, Zenon DEF Follows, Obeyed
  <2>4. CASE t \in Meant(head) /\ p # Manager
    <3>1. Calm /\ Calm'
        BY <1>2, <1>3, <1>8, <2>1, <2>4, Zenon DEF PlansKept, Follows, Alone, About
    <3>2. t \in tracked' <=> t \in subscribed
        BY <1>2, <1>4, <1>9, <2>1, <2>4, Zenon DEF Follows, Obeyed, head
    <3>3. CalmSync(t)' /\ CatchesUp(t)'
        BY <1>1, <3>1, <3>2, TouchedEmpty, Zenon DEF CalmSync, CatchesUp, Calm
    <3> QED
        BY <2>2, <2>3, <3>3, Zenon DEF Follows
  <2>5. CASE t \notin Meant(head) \/ p = Manager
    <3>1. t \in tracked' <=> t \in tracked
        BY <1>2, <1>3, <1>4, <2>1, <2>5, Zenon DEF PlansKept, Follows, CatchesUp
    <3>2. CatchesUp(t)'
        BY <1>1, <1>2, <1>3, <1>5, <1>8, <1>10, <2>1, <3>1, Zenon DEF Follows, CatchesUp
    <3>3. CASE Calm
      <4>1. p # Manager
          BY <1>2, <3>3, Zenon DEF Calm
      <4>2. \A q \in Subscribers : t \in Touched(todo[q]) => t \in Touched(todo'[q])
          BY Zenon, <1>2, <1>3, <1>5, <2>5, <4>1
      <4> QED
          BY <1>1, <2>1, <2>2, <2>3, <3>1, <3>2, <3>3, <4>2, Zenon DEF Follows, CalmSync
    <3>4. CASE ~Calm
      <4>1. Calm' => p = Manager /\ rest = <<>>
          BY <1>1, <1>2, <1>5, <3>4, Zenon DEF Calm
      <4>2. Calm' => (t \in tracked <=> t \in subscribed)
          BY <1>1, <1>2, <1>9, <2>1, <3>4, <4>1, TouchedEmpty, Zenon DEF Follows, CatchesUp, Calm
      <4> QED
          BY <1>1, <2>2, <2>3, <3>1, <3>2, <4>2, Zenon DEF Follows, CalmSync
    <3> QED
        BY Zenon, <3>3, <3>4
  <2> QED
      BY Zenon, <2>4, <2>5
<1> QED
    BY <1>6, <1>7, <1>11, Zenon DEF SubscriberInv

(* A call that ran out of attempts: the manager has another event to serve, and the
   topics of a caller overlapped. *)
LEMMA CallGivenUp ==
    ASSUME SubscriberInv, NEW p \in Parties, CallFails(p)
    PROVE  SubscriberInv'
<1>1. /\ stage[p] = "failed" /\ todo' = [todo EXCEPT ![p] = <<>>]
      /\ stage' = [stage EXCEPT ![p] = "idle"]
      /\ UNCHANGED <<tracked, subscribed, notes, subOnline, asked, overlapped>>
    BY Zenon DEF CallFails
<1>2. /\ SubscriberTypes /\ CommandsPlanned /\ PlansKept
      /\ Manager \in Parties /\ Manager \notin Subscribers /\ Subscribers \subseteq Parties
      /\ todo[p] # <<>> /\ (p # Manager => p \in Subscribers)
    BY Zenon, <1>1, PartyFacts
<1>3. /\ todo'[p] = <<>> /\ stage'[p] = "idle" /\ ~Executed(p)'
      /\ \A q \in Parties : q # p => todo'[q] = todo[q] /\ stage'[q] = stage[q]
                                     /\ (Executed(q)' <=> Executed(q))
    BY <1>1, <1>2, Zenon DEF SubscriberTypes, Executed
<1>4. SubscriberTypes' /\ CommandsPlanned' /\ PlansKept'
    BY <1>1, <1>2, <1>3, TouchedEmpty, Zenon DEF SubscriberTypes, CommandsPlanned, PlansKept
<1>5. (Calm' <=> Calm) /\ (p = Manager => ~Calm)
  <2>1. stage[Manager] = "failed" => notes # 0
      BY <1>2 DEF PlansKept, SubscriberTypes
  <2>2. p = Manager => ~Calm /\ ~Calm'
      BY <1>1, <2>1, Zenon DEF Calm
  <2>3. p # Manager => (Calm' <=> Calm)
      BY <1>1, <1>2, <1>3, Zenon DEF Calm
  <2> QED BY Zenon, <2>2, <2>3
<1>6. ASSUME NEW t \in Topics \ overlapped'
      PROVE  Follows(t)'
  <2>1. Follows(t)
      BY <1>1, Zenon DEF SubscriberInv
  <2>2. Alone(t)'
      BY <1>1, <1>2, <1>3, <1>5, <2>1, Zenon DEF Follows, Alone, About
  <2>3. Obeyed(t)'
      BY <1>1, <1>2, <1>3, <2>1, Zenon DEF Follows, Obeyed
  <2>4. p # Manager => t \notin Touched(todo[p])
      BY <1>1, <1>2, <2>1, Zenon DEF PlansKept, Follows, Alone, About
  <2>5. CalmSync(t)'
      BY <1>1, <1>2, <1>3, <1>5, <2>1, <2>4, Zenon DEF Follows, CalmSync
  <2>6. CatchesUp(t)'
    <3>1. CASE p = Manager
        BY <1>1, <1>2, <1>3, <1>5, <2>1, <3>1, TouchedEmpty, Zenon DEF Follows, CatchesUp
    <3>2. CASE p # Manager
        BY <1>1, <1>2, <1>3, <1>5, <2>1, <3>2, Zenon DEF Follows, CatchesUp, Pending
    <3> QED
        BY Zenon, <3>1, <3>2
  <2> QED
      BY <2>2, <2>3, <2>5, <2>6, Zenon DEF Follows
<1> QED
    BY <1>4, <1>6, Zenon DEF SubscriberInv

(* Calls in progress overlap a broken connection. *)
LEMMA ConnectionBroken ==
    ASSUME SubscriberInv, SubscriberBreak
    PROVE  SubscriberInv'
<1>1. /\ subOnline' = FALSE /\ subscribed' = {}
      /\ overlapped' = overlapped \cup UNION {asked[q] : q \in {q \in Subscribers : todo[q] # <<>>}}
      /\ UNCHANGED <<tracked, todo, stage, notes, asked>>
    BY Zenon DEF SubscriberBreak
<1>2. SubscriberTypes /\ CommandsPlanned /\ PlansKept
    BY Zenon DEF SubscriberInv
<1>3. /\ overlapped \subseteq overlapped' /\ overlapped' \subseteq Topics
      /\ \A t \in Topics \ overlapped' : \A q \in Subscribers : ~About(q, t)
    BY <1>1, <1>2, Zenon DEF About, SubscriberTypes
<1>4. SubscriberTypes' /\ CommandsPlanned' /\ PlansKept'
    BY <1>1, <1>2, <1>3, Zenon DEF SubscriberTypes, CommandsPlanned, PlansKept
<1>5. ASSUME NEW t \in Topics \ overlapped'
      PROVE  Follows(t)'
  <2>1. Follows(t)
      BY <1>3, Zenon DEF SubscriberInv
  <2>2. \A q \in Subscribers : ~About(q, t) /\ ~About(q, t)'
      BY <1>1, <1>3, Zenon DEF About
  <2>3. \A q \in Subscribers : Executed(q)' => t \notin Meant(Head(todo'[q]))
    <3>1. \A q \in Subscribers : Executed(q)' => todo[q] # <<>> /\ todo[q] \in Plan
        BY <1>1, <1>2, PartyKinds, Zenon DEF Executed, CommandsPlanned, SubscriberTypes
    <3> QED
        BY <1>1, <1>2, <2>2, <3>1, TouchedTail, Zenon DEF PlansKept, About
  <2>4. Alone(t)' /\ Obeyed(t)' /\ CalmSync(t)'
      BY <1>1, <2>2, <2>3, Zenon DEF Alone, Obeyed, CalmSync, Calm
  <2>5. CatchesUp(t)'
      BY <1>1, <2>1, Zenon DEF Follows, CatchesUp
  <2> QED
      BY <2>4, <2>5, Zenon DEF Follows
<1> QED
    BY <1>4, <1>5, Zenon DEF SubscriberInv

(* The replay finds no call about a topic that never overlapped. *)
LEMMA ConnectionReplaced ==
    ASSUME SubscriberInv, SubscriberReconnect
    PROVE  SubscriberInv'
<1>1. /\ subOnline = FALSE /\ subOnline' = TRUE /\ notes' = notes + 1
      /\ UNCHANGED <<tracked, subscribed, todo, asked, overlapped>>
    BY Zenon DEF SubscriberReconnect, SubscriberInv, SubscriberTypes
<1>2. SubscriberTypes /\ CommandsPlanned /\ PlansKept
    BY Zenon DEF SubscriberInv
<1>3. stage' \in [Parties -> {"idle", "sent", "executed", "answered", "failed"}]
      /\ \A p \in Parties : stage'[p] # "idle" => stage[p] # "idle"
    BY <1>2, Zenon DEF SubscriberReconnect, SubscriberTypes, InFlight
<1>4. SubscriberTypes' /\ CommandsPlanned' /\ PlansKept'
    BY <1>1, <1>2, <1>3 DEF SubscriberTypes, CommandsPlanned, PlansKept
<1>5. ~Calm /\ ~Calm' /\ notes' > 0
    BY <1>1, <1>2 DEF Calm, SubscriberTypes
<1>6. ASSUME NEW t \in Topics \ overlapped'
      PROVE  Follows(t)'
  <2>1. Follows(t)
      BY <1>1, Zenon DEF SubscriberInv
  <2>2. \A q \in Subscribers : ~About(q, t) /\ ~About(q, t)'
      BY <1>1, <1>5, <2>1, Zenon DEF Follows, Alone, About
  <2>3. \A q \in Subscribers : Executed(q)' => t \notin Meant(Head(todo'[q]))
    <3>1. \A q \in Subscribers : Executed(q)' => todo[q] # <<>> /\ todo[q] \in Plan
        BY <1>1, <1>2, <1>4, PartyKinds, Zenon DEF Executed, CommandsPlanned, SubscriberTypes
    <3> QED
        BY <1>1, <1>2, <2>2, <3>1, TouchedTail, Zenon DEF PlansKept, About
  <2>4. Alone(t)' /\ Obeyed(t)' /\ CalmSync(t)'
      BY <1>5, <2>2, <2>3, Zenon DEF Alone, Obeyed, CalmSync
  <2>5. CatchesUp(t)'
      BY <1>1, <1>5, <2>1 DEF Follows, CatchesUp
  <2> QED
      BY <2>4, <2>5, Zenon DEF Follows
<1> QED
    BY <1>4, <1>6, Zenon DEF SubscriberInv

LEMMA SubscriberStep ==
    ASSUME SubscriberInv, [SubscriberNext]_subscriberVars
    PROVE  SubscriberInv'
<1>1. CASE UNCHANGED subscriberVars
  <2>1. UNCHANGED <<tracked, subscribed, todo, stage, notes, subOnline, asked, overlapped>>
      BY <1>1, Zenon DEF subscriberVars
  <2>2. Calm' = Calm /\ \A p \in Parties : Executed(p)' = Executed(p) /\ Pending(p)' = Pending(p)
      BY <2>1, Zenon DEF Calm, Executed, Pending
  <2> QED
      BY Zenon, <2>1, <2>2, PartyKinds
      DEF SubscriberInv, SubscriberTypes, CommandsPlanned, PlansKept, Follows, Alone, About, Obeyed,
          CalmSync, CatchesUp
<1>2. ASSUME NEW p \in Subscribers, NEW topic \in Topics, subscribe(p, topic) \/ unsubscribe(p, topic)
      PROVE  SubscriberInv'
    BY <1>2, PlanOfOne, CallBegins, Zenon DEF subscribe, unsubscribe
<1>3. ASSUME NEW p \in Subscribers, unsubscribe_all(p)
      PROVE  SubscriberInv'
  <2>1. tracked \in SUBSET Topics /\ "unsubscribe" \in {"subscribe", "unsubscribe"}
      BY Zenon DEF SubscriberInv, SubscriberTypes
  <2> QED
      BY <1>3, <2>1, PlanForAllKinds, CallBegins, Zenon DEF unsubscribe_all
<1>4. ASSUME NEW p \in Parties, SubscriberTasks(p)
      PROVE  SubscriberInv'
    BY Zenon, <1>4, CommandSent, CommandExecuted, ReplyRead, TrackedUpdated, CallGivenUp
    DEF SubscriberTasks
<1> QED
    BY Zenon, <1>1, <1>2, <1>3, <1>4, RoundBegins, ConnectionBroken, ConnectionReplaced
    DEF SubscriberNext

(* After any number of calls, broken connections and rounds cut short, once every call
   has returned and every reconnection is served the server sends exactly what is
   tracked, for each topic whose calls overlapped neither each other nor a
   reconnection (SubscriberClient: subscribe, unsubscribe, unsubscribe_all,
   manage_subscriptions). *)
THEOREM SubscriptionsKept == SubscriberSpec => []SubscriptionsInSync
<1>1. SubscriberInv => SubscriptionsInSync
  <2> SUFFICES ASSUME SubscriberInv, subOnline, notes = 0, \A p \in Parties : todo[p] = <<>>
               PROVE  tracked \ overlapped = subscribed \ overlapped
      BY Zenon DEF SubscriptionsInSync
  <2>1. tracked \subseteq Topics /\ subscribed \subseteq Topics
      BY Zenon DEF SubscriberInv, SubscriberTypes
  <2>2. Calm /\ \A p \in Subscribers : Touched(todo[p]) = {}
      BY PartyKinds, TouchedEmpty, Zenon DEF Calm
  <2>3. \A t \in Topics \ overlapped : t \in tracked <=> t \in subscribed
      BY <2>2, Zenon DEF SubscriberInv, Follows, CalmSync
  <2> QED
      BY Zenon, <2>1, <2>3
<1> QED
    BY <1>1, SubscriberStarts, SubscriberStep, PTL DEF SubscriberSpec
=============================================================================
