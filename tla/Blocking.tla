------------------------------ MODULE Blocking -------------------------------
(***************************************************************************)
(* Blocking commands and the three Blocking policies.  The backchannel     *)
(* keeps one flag, `blocked`, naming the server on which a command blocks. *)
(* The router sets it after it wrote such a command, the reader task       *)
(* clears it when the reply arrives, and every caller reads it before it   *)
(* queues a command: three tasks, each behind the backchannel's lock but   *)
(* in no order of their own.  A CLIENT UNBLOCK travels on a connection of  *)
(* its own, so it also races with the command it is meant to interrupt.    *)
(***************************************************************************)
EXTENDS Naturals, Sequences, Functions

CONSTANTS
    Pops,            \* commands that block the connection, for instance BLPOP
    Plains,          \* commands that do not; the router pipelines them
    BlockingTries,   \* max_command_attempts, at least 1
    BlockingDrops,   \* bound: broken connections
    BlockingUnblocks \* bound: calls of unblock_self

ASSUME CommandsAreNotMessages == "Reconnect" \notin Pops \union Plains

VARIABLES
    onBlocked, \* config.blocking
    blocked,   \* backchannel.blocked.is_some()
    calls,     \* where each call is: new to queued, written or buffered, closed (handed back), answered
    commands,  \* the command channel: commands, and "Reconnect" messages
    retryBuffer, \* Router.buffer: commands to replay after a reconnection
    writing,   \* the router: idle, wrote, flagged, interrupting, waiting, reconnecting, again, ended
    current,   \* the commands whose router channel the router waits on (at most one)
    sharedBuffer,  \* the commands written and not answered
    serving,   \* the server and the front of the buffer: no, blocked, released
    link,      \* the connection: up, lost (its reader task has ended), or none (no writer)
    attempts,  \* the write attempts of each command
    unblocker, \* the task that calls unblock_self: idle or clearing
    cleared,   \* the commands whose flag another task or command removed
    drops,
    unblocks

blockingVars == <<onBlocked, blocked, calls, commands, retryBuffer, writing, current,
                  sharedBuffer, serving, link, attempts, unblocker, cleared, drops, unblocks>>

BlockingCommands == Pops \union Plains

BlockingStart(p) ==
    /\ onBlocked = p /\ blocked = FALSE
    /\ calls = [c \in BlockingCommands |-> "new"]
    /\ commands = <<>> /\ retryBuffer = <<>>
    /\ writing = "idle" /\ current = {}
    /\ sharedBuffer = <<>> /\ serving = "no" /\ link = "up"
    /\ attempts = [c \in BlockingCommands |-> 0]
    /\ unblocker = "idle" /\ cleared = {} /\ drops = 0 /\ unblocks = 0

BlockingInit == \E p \in {"Block", "Error", "Interrupt"} : BlockingStart(p)

(* check_blocking_policy reads the flag before the command is queued. *)
check_blocking_policy(c) ==
    /\ calls[c] = "new"
    /\ calls' = [calls EXCEPT ![c] = IF onBlocked = "Block" \/ ~blocked THEN "checked"
                                     ELSE IF onBlocked = "Error" THEN "refused"
                                     ELSE "interrupting"]
    /\ UNCHANGED <<onBlocked, blocked, commands, retryBuffer, writing, current, sharedBuffer,
                   serving, link, attempts, unblocker, cleared, drops, unblocks>>

(* CLIENT UNBLOCK ends the blocked command if the server has reached it; otherwise, or
   without a backchannel connection, it does nothing.  find_server refuses it when the
   flag is gone. *)
Unblock ==
    \/ serving' = serving
    \/ blocked /\ serving = "blocked" /\ serving' = "released"

interrupt_blocked_connection(c) ==
    /\ calls[c] = "interrupting"
    /\ Unblock
    /\ calls' = [calls EXCEPT ![c] = "checked"]
    /\ UNCHANGED <<onBlocked, blocked, commands, retryBuffer, writing, current, sharedBuffer,
                   link, attempts, unblocker, cleared, drops, unblocks>>

send_command(c) ==
    /\ calls[c] = "checked"
    /\ calls' = [calls EXCEPT ![c] = "queued"]
    /\ commands' = Append(commands, c)
    /\ UNCHANGED <<onBlocked, blocked, retryBuffer, writing, current, sharedBuffer, serving,
                   link, attempts, unblocker, cleared, drops, unblocks>>

(* The buffer s without some commands: the others, in their order.  No command is in a
   buffer twice. *)
Ahead(s, c, d) == \E k, l \in DOMAIN s : k < l /\ s[k] = c /\ s[l] = d

Without(s, gone) ==
    {t \in UNION {[1 .. n -> Range(s) \ gone] : n \in 0 .. Len(s)} :
        /\ Range(t) = Range(s) \ gone
        /\ \A i, j \in DOMAIN t : i < j => Ahead(s, t[i], t[j])}

(* Every blocking command has a router channel, which it keeps in the buffers; only the
   write loop listens to it, and only for the command it has just written. *)
HasChannel(c) == c \in Pops

(* write_with_backpressure: the router goes on at once after a command it may pipeline,
   and waits for the reply of a blocking one.  A broken connection may swallow the
   command. *)
WriteSent(c) ==
    /\ link # "none"
    /\ calls' = [calls EXCEPT ![c] = "written"]
    /\ sharedBuffer' = Append(sharedBuffer, c)
    /\ IF c \in Pops THEN writing' = "wrote" /\ current' = {c}
       ELSE writing' = "idle" /\ current' = {}
    /\ UNCHANGED <<retryBuffer, link>>

(* Written::Disconnect: the connection is dropped, the commands it carried and this one
   wait in the retry buffer, and the router goes on. *)
WriteDisconnects(c) ==
    /\ link = "lost"
    /\ LET final == attempts[c] + 1 >= BlockingTries IN
       /\ calls' = [calls EXCEPT ![c] = IF final THEN "error" ELSE "buffered"]
       /\ retryBuffer' = retryBuffer \o sharedBuffer \o (IF final THEN <<>> ELSE <<c>>)
    /\ sharedBuffer' = <<>> /\ link' = "none"
    /\ writing' = "idle" /\ current' = {}

(* There is no connection: the error ends the router task, which drops its commands. *)
WriteEnds(c) ==
    /\ link = "none"
    /\ calls' = [d \in BlockingCommands |->
          IF d \in {c} \union Range(retryBuffer) THEN "canceled" ELSE calls[d]]
    /\ retryBuffer' = <<>>
    /\ writing' = "ended" /\ current' = {}
    /\ UNCHANGED <<sharedBuffer, link>>

(* The next command of the channel, or the one that the reader task handed back.  Neither
   has used up its attempts. *)
Taken(c) ==
    \/ writing = "again" /\ c \in current /\ UNCHANGED commands
    \/ /\ writing = "idle" /\ commands # <<>>
       /\ c = Head(commands) /\ commands' = Tail(commands)

WriteBlocking(c) ==
    /\ Taken(c)
    /\ attempts' = [attempts EXCEPT ![c] = @ + 1]
    /\ WriteSent(c) \/ WriteDisconnects(c) \/ WriteEnds(c)
    /\ UNCHANGED <<onBlocked, blocked, serving, unblocker, cleared, drops, unblocks>>

(* The flag is set after the write, whatever the reader has seen by then. *)
set_blocked ==
    /\ writing = "wrote"
    /\ blocked' = TRUE /\ cleared' = cleared \ current
    /\ writing' = "flagged"
    /\ UNCHANGED <<onBlocked, calls, commands, retryBuffer, current, sharedBuffer, serving,
                   link, attempts, unblocker, drops, unblocks>>

(* should_interrupt: other commands wait, and the policy is to interrupt. *)
should_interrupt ==
    /\ writing = "flagged"
    /\ writing' = IF onBlocked = "Interrupt" /\ commands # <<>> THEN "interrupting" ELSE "waiting"
    /\ UNCHANGED <<onBlocked, blocked, calls, commands, retryBuffer, current, sharedBuffer,
                   serving, link, attempts, unblocker, cleared, drops, unblocks>>

InterruptAfterWrite ==
    /\ writing = "interrupting"
    /\ Unblock
    /\ writing' = "waiting"
    /\ UNCHANGED <<onBlocked, blocked, calls, commands, retryBuffer, current, sharedBuffer,
                   link, attempts, unblocker, cleared, drops, unblocks>>

(* handle_router_response: Continue, or a channel that was dropped, ends the wait.  A
   command handed back is written again after a reconnection, unless it was tried often
   enough. *)
BlockingRouterResumes ==
    /\ writing = "waiting" /\ \A c \in current : calls[c] # "written"
    /\ LET closed == {c \in current : calls[c] = "closed"}
           final == {c \in closed : attempts[c] >= BlockingTries}
       IN /\ writing' = IF closed = {} THEN "idle" ELSE "reconnecting"
          /\ calls' = [c \in BlockingCommands |-> IF c \in final THEN "error" ELSE calls[c]]
          /\ current' = closed \ final
    /\ UNCHANGED <<onBlocked, blocked, commands, retryBuffer, sharedBuffer, serving, link,
                   attempts, unblocker, cleared, drops, unblocks>>

(* process_reconnect: skipped when the connection works. *)
BlockingTakeReconnect ==
    /\ writing = "idle" /\ commands # <<>> /\ Head(commands) = "Reconnect"
    /\ commands' = Tail(commands)
    /\ writing' = IF link = "up" THEN "idle" ELSE "reconnecting"
    /\ UNCHANGED <<onBlocked, blocked, calls, retryBuffer, current, sharedBuffer, serving,
                   link, attempts, unblocker, cleared, drops, unblocks>>

(* reconnect_with_policy succeeds in the end.  retry_buffer replays what the lost
   connection and the retry buffer held: it sets no flag and waits for no reply. *)
BlockingReconnect ==
    /\ writing = "reconnecting"
    /\ LET held == retryBuffer \o sharedBuffer
           final == {c \in Range(held) : attempts[c] >= BlockingTries}
       IN /\ sharedBuffer' \in Without(held, final)
          /\ calls' = [c \in BlockingCommands |->
                IF c \in final THEN "error" ELSE IF c \in Range(held) THEN "written" ELSE calls[c]]
          /\ attempts' = [c \in BlockingCommands |->
                IF c \in Range(held) THEN attempts[c] + 1 ELSE attempts[c]]
    /\ link' = "up" /\ serving' = "no" /\ retryBuffer' = <<>>
    /\ writing' = IF current = {} THEN "idle" ELSE "again"
    /\ UNCHANGED <<onBlocked, blocked, commands, current, unblocker, cleared, drops, unblocks>>

(* The server reaches a blocking command. *)
ServerBlocks ==
    /\ link = "up" /\ sharedBuffer # <<>> /\ Head(sharedBuffer) \in Pops /\ serving = "no"
    /\ serving' = "blocked"
    /\ UNCHANGED <<onBlocked, blocked, calls, commands, retryBuffer, writing, current,
                   sharedBuffer, link, attempts, unblocker, cleared, drops, unblocks>>

(* A slip: any reply removes the flag. *)
check_and_set_unblocked_always(c) == FALSE

(* check_and_set_unblocked_flag: the reply of a blocking command removes the flag. *)
check_and_set_unblocked_flag(c) == IF c \in Pops THEN FALSE ELSE blocked

(* A slip: the reader drops the router's channel without an answer. *)
ReaderRespondsLate(c, how) ==
    /\ calls' = IF c \in Pops /\ blocked THEN calls ELSE [calls EXCEPT ![c] = how]
    /\ blocked' = check_and_set_unblocked_flag(c)

ReaderResponds(c, how) ==
    /\ calls' = [calls EXCEPT ![c] = how]
    /\ blocked' = check_and_set_unblocked_flag(c)

(* A reply removes the flag of the command the router waits for, which is another one. *)
TakesFlag(c) == IF c \in Pops \ current /\ writing # "wrote" THEN cleared \union current ELSE cleared

(* The reader takes the reply of the front command: data, or the error that CLIENT
   UNBLOCK leaves behind. *)
BlockingReply ==
    /\ link = "up" /\ sharedBuffer # <<>>
    /\ LET c == Head(sharedBuffer) IN
       /\ c \in Pops => serving # "no"
       /\ ReaderResponds(c, IF serving = "released" THEN "error" ELSE "ok")
       /\ cleared' = TakesFlag(c)
    /\ sharedBuffer' = Tail(sharedBuffer) /\ serving' = "no"
    /\ UNCHANGED <<onBlocked, commands, retryBuffer, writing, current, link, attempts,
                   unblocker, drops, unblocks>>

(* The connection closes and the reader task ends.  check_blocked_router takes a blocking
   command off the front and hands it back to the router if the router waits for it; its
   caller is told otherwise.  check_final_write_attempt answers the others that were
   tried often enough; nobody answers the rest.  The last step asks for a reconnection. *)
BlockingDrop ==
    /\ drops < BlockingDrops /\ link = "up"
    /\ drops' = drops + 1
    /\ link' = "lost" /\ serving' = "no"
    /\ LET front == IF sharedBuffer = <<>> THEN {} ELSE {c \in {Head(sharedBuffer)} : HasChannel(c)}
           final == {c \in Range(sharedBuffer) \ front :
                        HasChannel(c) /\ attempts[c] >= BlockingTries}
       IN /\ sharedBuffer' \in Without(sharedBuffer, front \union final)
          /\ calls' = [c \in BlockingCommands |->
                IF c \in front THEN (IF c \in current THEN "closed" ELSE "canceled")
                ELSE IF c \in final THEN "error" ELSE calls[c]]
    /\ commands' = Append(commands, "Reconnect")
    /\ UNCHANGED <<onBlocked, blocked, retryBuffer, writing, current, attempts, unblocker,
                   cleared, unblocks>>

(* unblock_self interrupts the blocked connection and then removes the flag, whatever
   the interrupt did. *)
unblock_self ==
    /\ unblocker = "idle" /\ unblocks < BlockingUnblocks
    /\ unblocks' = unblocks + 1
    /\ Unblock
    /\ unblocker' = "clearing"
    /\ UNCHANGED <<onBlocked, blocked, calls, commands, retryBuffer, writing, current,
                   sharedBuffer, link, attempts, cleared, drops>>

set_unblocked ==
    /\ unblocker = "clearing"
    /\ unblocker' = "idle"
    /\ blocked' = FALSE
    /\ cleared' = IF writing = "wrote" THEN cleared ELSE cleared \union current
    /\ UNCHANGED <<onBlocked, calls, commands, retryBuffer, writing, current, sharedBuffer,
                   serving, link, attempts, drops, unblocks>>

BlockingCaller(c) == interrupt_blocked_connection(c) \/ send_command(c)

BlockingRouter ==
    \/ \E c \in BlockingCommands : WriteBlocking(c)
    \/ set_blocked \/ should_interrupt \/ InterruptAfterWrite
    \/ BlockingRouterResumes \/ BlockingTakeReconnect \/ BlockingReconnect

BlockingNext ==
    \/ \E c \in BlockingCommands : check_blocking_policy(c) \/ BlockingCaller(c)
    \/ BlockingRouter
    \/ ServerBlocks \/ BlockingReply \/ BlockingDrop
    \/ unblock_self \/ set_unblocked

BlockingSpec == BlockingInit /\ [][BlockingNext]_blockingVars

(* The tasks of the client run, the network delivers, the server executes what is not
   blocked.  Nothing makes data arrive for a blocked command, nor the user call. *)
BlockingFairness ==
    /\ \A c \in BlockingCommands : WF_blockingVars(BlockingCaller(c))
    /\ WF_blockingVars(BlockingRouter)
    /\ WF_blockingVars(ServerBlocks \/ (serving # "blocked" /\ BlockingReply))
    /\ WF_blockingVars(set_unblocked)

BlockingFairSpec == BlockingSpec /\ BlockingFairness
-----------------------------------------------------------------------------
(* While the router waits for a blocking command that the server holds, the flag is
   set, so the policy applies to every caller: replies of pipelined commands, broken
   connections and reconnections never remove it.  There are two exceptions, each the
   step of another task after the router set the flag: unblock_self, which clears it even
   when its interrupt came too early, and the reply of a blocking command that
   retry_buffer wrote before this one, for which nobody waited. *)
BlockedFlagHolds ==
    (writing = "waiting" /\ serving = "blocked") => (blocked \/ current \subseteq cleared)

(* The router waits for a reply on a connection that nobody reads any more. *)
Orphaned == writing = "waiting" /\ link # "up" /\ \E c \in current : calls[c] = "written"

(* A queued command is answered, replayed if need be, unless the server holds a blocking
   command before it, the router waits for a reply that the broken connection took with
   it, or a command that came before the Reconnect message found no connection and ended
   the router task. *)
QueueMovesOn ==
    \A c \in BlockingCommands :
        calls[c] = "queued" ~>
            \/ calls[c] \in {"ok", "error", "canceled"}
            \/ serving = "blocked" \/ Orphaned \/ writing = "ended"

=============================================================================
