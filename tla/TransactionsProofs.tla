------------------------- MODULE TransactionsProofs -------------------------
(***************************************************************************)
(* Theorems about Transactions, for any nodes, slots, configurations and   *)
(* bounds: what EXEC runs, what the caller of exec is told about it, and   *)
(* what the watched keys and the connections are left with.                *)
(*                                                                         *)
(* The inductive invariant follows the one command that is outstanding: a  *)
(* session in MULTI that nothing has spoiled is the session of the current *)
(* attempt, and it holds exactly the commands that were acknowledged.      *)
(***************************************************************************)
EXTENDS Transactions, TLAPS

SlotOrNone == Slots \cup {None}
NodeOrNone == Nodes \cup {None}
Watches == {"no", "intact", "touched"}
Session == [multi : BOOLEAN, dirty : BOOLEAN, asking : BOOLEAN, watch : Watches,
            queue : Seq(SlotOrNone)]
Redirection == [kind : {"MOVED", "ASK"}, slot : Slots, server : Nodes]
Block == [queue : Seq(SlotOrNone), watch : Watches]
Frame == [dir : {"none", "request", "response"},
          reply : {"none", "ok", "error", "result", "nil", "discarded", "MOVED", "ASK"}]

ClientTypes ==
    /\ config \in Config
    /\ commands \in Seq(SlotOrNone) /\ commands # <<>>
    /\ hashSlot \in SlotOrNone

RunTypes ==
    /\ hasher \in SlotOrNone
    /\ answer \in {"none", "waiting", "timeout", "result", "nil", "error", "io", "cluster",
                   "canceled", "discarded"}
    /\ pc \in {"queue", "start", "sync", "write", "await", "redirect", "reconnect", "done", "ended"}
    /\ step \in {"WATCH", "CMD", "EXEC", "DISCARD", "ASKING"}
    /\ target \in NodeOrNone /\ server \in NodeOrNone
    /\ idx \in Nat /\ attempted \in Nat /\ reconnects \in Nat
    /\ after \in {"none", "restart", "retry", "redirect", "cluster", "error"}
    /\ redirect \in Redirection \cup {NoRedirect}
    /\ rx \in {"none", "Retry", "Redirection", "Error", "Finished", "Continue"}

ConnTypes ==
    /\ cache \in [Slots -> Nodes]
    /\ conn \in [Nodes -> {"none", "up", "closing", "broken"}]
    /\ session \in [Nodes -> Session]
    /\ frame \in Frame

NodeTypes ==
    /\ owner \in [Slots -> Nodes]
    /\ importer \in [Slots -> NodeOrNone]
    /\ executed \in Seq(Block)
    /\ lost \in Nat /\ faults \in Nat

TypeOK == ClientTypes /\ RunTypes /\ ConnTypes /\ NodeTypes

(* write_command works on a command. *)
Busy == pc \in {"write", "await"}
(* Its response has been sent and not been acted upon. *)
Answered == pc = "await" /\ (frame.dir = "response" \/ rx \notin {"none", "Retry"})
(* A redirection is being followed. *)
Redirecting ==
    \/ Answered /\ frame.reply \in {"MOVED", "ASK"}
    \/ Busy /\ (step = "ASKING" \/ (step = "DISCARD" /\ after = "redirect"))
    \/ pc = "redirect"

(* Which command goes where. *)
Position ==
    /\ Busy => target \in Nodes
    /\ Busy /\ step # "ASKING" => server \in Nodes
    /\ Busy /\ step \in {"WATCH", "CMD", "EXEC"} => target = server
    /\ Busy /\ step = "DISCARD" => after \in {"retry", "redirect", "cluster", "error"}
    /\ Busy /\ step = "DISCARD" /\ after # "redirect" => target = server
    /\ Busy /\ step = "CMD" => idx < Len(commands)
    /\ Busy /\ step = "EXEC" => idx = Len(commands)
    /\ Redirecting => redirect \in Redirection

(* Nothing has happened before exec is called. *)
Queued ==
    pc = "queue" => /\ executed = <<>> /\ answer = "none" /\ hasher = None
                    /\ \A n \in Nodes : session[n] = NoSession

(* The frame on the wire and the router channel. *)
Wire ==
    /\ frame.dir # "none" => pc = "await" /\ rx = "none" /\ conn[target] = "up"
    /\ frame.dir = "request" => frame.reply = "none"
    /\ frame.dir = "response" => frame.reply # "none"
    /\ frame.reply \in {"MOVED", "ASK"} => config.clustered
    /\ pc = "await" => /\ rx = "Retry" => conn[target] # "up"
                       /\ rx = "Continue" => frame.reply = "ok"
                       /\ rx = "Error" => frame.reply = "error"
                       /\ rx = "Finished" => frame.reply \in {"result", "nil", "discarded"}
                       /\ rx = "Redirection" => frame.reply \in {"MOVED", "ASK"}

(* A connection that is not up has no session, and only MULTI queues commands. *)
Sessions ==
    \A n \in Nodes :
        /\ conn[n] # "up" => session[n] = NoSession
        /\ ~session[n].multi => session[n].queue = <<>> /\ ~session[n].dirty

(* A block that EXEC would run, and the commands of the attempt it should hold. *)
Clean(n) == session[n].multi /\ ~session[n].dirty
Acked == IF Answered /\ step = "CMD" THEN idx + 1 ELSE idx
OpenBlock ==
    \A n \in Nodes : Clean(n) =>
        /\ Busy /\ n = server /\ step \in {"CMD", "EXEC"}
        /\ Acked > 0
        /\ session[n].queue = SubSeq(commands, 2, Acked)
        /\ Answered => step = "CMD" /\ frame.reply = "ok"

(* EXEC and DISCARD end the transaction of the session. *)
Settled == Answered /\ step \in {"EXEC", "DISCARD"} => ~session[target].multi

(* The keys are watched on the connection of the attempt, or the block is spoiled. *)
Watched ==
    /\ Busy /\ conn[server] = "up"
    /\ \/ step \in {"CMD", "EXEC"}
       \/ step = "WATCH" /\ Answered /\ frame.reply \in {"ok", "error"}
    => \/ Answered /\ step = "EXEC"
       \/ session[server].dirty
       \/ session[server].watch # "no"
WatchInv == config.watched /\ "WATCH" \notin Rejects => Watched

(* Every block that ran has its response lost, on its way, or with the caller. *)
Results ==
    /\ frame.reply = "result" => Len(executed) = lost + 1
    /\ frame.reply # "result" => Len(executed) = lost
    /\ frame.reply = "result" => step = "EXEC" /\ (Answered \/ pc = "done")
    /\ answer = "none" => pc = "queue"
    /\ answer = "result" => pc = "done" /\ frame.reply = "result"
    /\ answer \in {"nil", "error", "io", "cluster", "canceled"} =>
           pc \in {"done", "ended"} /\ frame.reply # "result"

(* The blocks that ran. *)
Ran ==
    \A i \in DOMAIN executed :
        /\ executed[i].queue = Tail(commands)
        /\ config.watched /\ "WATCH" \notin Rejects => executed[i].watch = "intact"

(* In a cluster a block on one slot stays with the cached owner of the slot. *)
AtHome(s) ==
    /\ hashSlot \in {s, None} /\ hasher \in {s, None}
    /\ hasher = None => \A n \in Nodes : session[n] = NoSession
    /\ Busy /\ step # "ASKING" => server = cache[s] /\ hasher = s
    /\ Redirecting => /\ redirect.slot = s /\ server = cache[s] /\ hasher = s
                      /\ redirect.kind = "MOVED" => redirect.server # server
    /\ pc = "sync" => hasher = None
    /\ \A n \in Nodes : session[n].multi => n = cache[s]
ClusterHome == config.clustered => \A s \in Slots : OneSlot(s) => AtHome(s)

(* A centralized client has one server. *)
PlainHome ==
    ~config.clustered =>
        /\ Busy => server = Primary /\ step # "ASKING"
        /\ pc \notin {"redirect", "sync"} /\ after # "redirect"
        /\ \A n \in Nodes : session[n].multi => n = Primary

(* ConnectionRestored, for every connection. *)
Restored ==
    pc = "done" /\ (~config.clustered \/ \E s \in Slots : OneSlot(s)) =>
        \A n \in Nodes : ~session[n].multi

IInv ==
    /\ TypeOK /\ Position /\ Queued /\ Wire /\ Sessions /\ OpenBlock /\ Settled
    /\ WatchInv /\ Results /\ Ran /\ ClusterHome /\ PlainHome /\ Restored

-----------------------------------------------------------------------------
(* Facts about the operators of the model.                                 *)

(* A connection that was just made knows nothing. *)
LEMMA NoSessionFacts ==
    /\ NoSession \in Session
    /\ ~NoSession.multi /\ ~NoSession.dirty /\ ~NoSession.asking
    /\ NoSession.watch = "no" /\ NoSession.queue = <<>>
    BY DEF NoSession, Session, Watches

(* An idle connection. *)
LEMMA NoFrameFacts ==
    NoFrame \in Frame /\ NoFrame.dir = "none" /\ NoFrame.reply = "none"
    BY Zenon DEF NoFrame, Frame

(* One session changes. *)
LEMMA SessionUpdate ==
    ASSUME ConnTypes, NEW n \in Nodes, NEW x \in Session,
           session' = [session EXCEPT ![n] = x]
    PROVE  /\ session' \in [Nodes -> Session]
           /\ session'[n] = x
           /\ \A m \in Nodes : m # n => session'[m] = session[m]
    BY Zenon DEF ConnTypes

(* The server of a centralized deployment is a node. *)
LEMMA PrimaryIsNode == Primary \in Nodes
    BY TransactionsAssumption, Zenon DEF Primary

(* One more command of the block is queued. *)
LEMMA NextQueued ==
    ASSUME NEW c \in Seq(SlotOrNone), NEW i \in 1..Len(c) - 1
    PROVE  Append(SubSeq(c, 2, i), c[i + 1]) = SubSeq(c, 2, i + 1)
    OBVIOUS

(* The whole block but MULTI. *)
LEMMA TailIsSubSeq ==
    ASSUME NEW c \in Seq(SlotOrNone), c # <<>>
    PROVE  SubSeq(c, 2, Len(c)) = Tail(c)
    OBVIOUS

(* clustered::sync keeps the sessions of the connections it keeps. *)
LEMMA SyncedStateFacts ==
    ASSUME ConnTypes, NodeTypes, SyncedState
    PROVE  /\ cache' \in [Slots -> Nodes]
           /\ conn' \in [Nodes -> {"none", "up", "closing", "broken"}]
           /\ session' \in [Nodes -> Session]
           /\ \A n \in Nodes : \/ session'[n] = NoSession
                               \/ session'[n] = session[n] /\ conn'[n] = conn[n]
<1> DEFINE owners == {owner[s] : s \in Slots}
           kept == {n \in owners : conn[n] # "none"}
<1>1. /\ cache' = owner
      /\ conn' = [n \in Nodes |-> IF n \in kept THEN conn[n]
                                  ELSE IF n \in owners THEN "up" ELSE "none"]
      /\ session' = [n \in Nodes |-> IF n \in kept THEN session[n] ELSE NoSession]
    BY Zenon DEF SyncedState
<1> HIDE DEF kept, owners
<1> QED
    BY <1>1, NoSessionFacts, Zenon DEF ConnTypes, NodeTypes

(* process_response_frame: what the router learns of a response. *)
LEMMA RouterMessageFacts ==
    ASSUME ClientTypes,
           NEW r \in {"ok", "error", "result", "nil", "discarded", "MOVED", "ASK"},
           r \in {"MOVED", "ASK"} => config.clustered
    PROVE  /\ RouterMessage(r) \in {"Redirection", "Error", "Finished", "Continue"}
           /\ RouterMessage(r) = "Continue" => r = "ok"
           /\ RouterMessage(r) = "Error" => r = "error"
           /\ RouterMessage(r) = "Finished" => r \in {"result", "nil", "discarded"}
           /\ RouterMessage(r) = "Redirection" => r \in {"MOVED", "ASK"}
<1>1. CASE r \in {"MOVED", "ASK"}
  <2>1. config.clustered = TRUE
      BY <1>1, Zenon DEF ClientTypes, Config
  <2> QED
      BY <1>1, <2>1, Zenon DEF RouterMessage
<1>2. CASE r = "error"
    BY <1>2, Zenon DEF RouterMessage
<1>3. CASE r \in {"result", "nil", "discarded"}
    BY <1>3, Zenon DEF RouterMessage
<1>4. CASE r = "ok"
    BY <1>4, Zenon DEF RouterMessage
<1> QED
    BY Zenon, <1>1, <1>2, <1>3, <1>4

(* ASKING lasts for one command, or for the block it opens. *)
LEMMA AskingCleared ==
    ASSUME NEW y \in Session, NEW x, x = [y EXCEPT !.asking = y.asking /\ y.multi]
    PROVE  /\ x \in Session /\ x.multi = y.multi /\ x.dirty = y.dirty
           /\ x.watch = y.watch /\ x.queue = y.queue
    BY Zenon DEF Session

(* A command after MULTI is queued, unless the block is spoiled. *)
LEMMA ServedCommand ==
    ASSUME NEW n, NEW ses, NEW s, step = "CMD", idx \in Nat, idx > 0
    PROVE  Served(n, ses, s) =
               <<"ok", IF ses.multi /\ ~ses.dirty THEN [ses EXCEPT !.queue = Append(@, s)]
                       ELSE ses>>
    BY DEF Served

(* A command that a session queues changes its queue and nothing else. *)
LEMMA QueueAppended ==
    ASSUME NEW ses \in Session, NEW s \in SlotOrNone, NEW y,
           y = [ses EXCEPT !.queue = Append(ses.queue, s)]
    PROVE  /\ y \in Session /\ y.multi = ses.multi /\ y.dirty = ses.dirty
           /\ y.watch = ses.watch /\ y.queue = Append(ses.queue, s)
    BY DEF Session

-----------------------------------------------------------------------------
(* Writing a command and its response.                                     *)

(* The frame is on the socket. *)
LEMMA WriteOnceStep ==
    ASSUME IInv, WriteOnce
    PROVE  IInv'
<1> USE NoFrameFacts DEF clientVars, runVars, connVars, nodeVars
<1>1. /\ ClientTypes /\ RunTypes /\ ConnTypes /\ NodeTypes /\ Position /\ Queued
      /\ Wire /\ Sessions /\ OpenBlock /\ Settled /\ WatchInv /\ Results /\ Ran
      /\ ClusterHome /\ PlainHome /\ Restored
    BY Zenon DEF IInv, TypeOK
<1>2. pc = "write" /\ frame.dir = "none"
    BY <1>1, Zenon DEF WriteOnce, Wire
<1>3. ClientTypes' /\ NodeTypes' /\ Sessions' /\ Ran'
    BY <1>1, Zenon DEF WriteOnce, ClientTypes, NodeTypes, Sessions, Ran
<1>4. RunTypes'
    BY <1>1, <1>2, Zenon DEF WriteOnce, Frame, RunTypes
<1>5. ConnTypes'
    BY <1>1, <1>2, Zenon DEF WriteOnce, Frame, ConnTypes
<1>6. Position'
    BY <1>1, <1>2, Zenon DEF WriteOnce, Frame, Position, Busy, Answered, Redirecting
<1>7. Queued'
    BY <1>1, <1>2, Zenon DEF WriteOnce, Frame, Queued
<1>8. Wire'
    BY <1>1, <1>2, Zenon DEF WriteOnce, Frame, Wire
<1>9. OpenBlock'
    BY <1>1, <1>2, Zenon DEF WriteOnce, Frame, OpenBlock, Clean, Acked, Answered, Busy
<1>10. Settled'
    BY <1>1, <1>2, Zenon DEF WriteOnce, Frame, Settled, Answered
<1>11. WatchInv'
    BY <1>1, <1>2, Zenon DEF WriteOnce, Frame, WatchInv, Watched, Busy, Answered
<1>12. Results'
    BY <1>1, <1>2, Zenon DEF WriteOnce, Frame, Results, Answered
<1>13. ClusterHome'
    BY <1>1, <1>2, Zenon DEF WriteOnce, Frame, ClusterHome, AtHome, OneSlot, Busy, Redirecting,
       Answered
<1>14. PlainHome'
    BY <1>1, <1>2, Zenon DEF WriteOnce, Frame, PlainHome, Busy
<1>15. Restored'
    BY <1>1, <1>2, Zenon DEF WriteOnce, Frame, Restored, OneSlot
<1> QED
    BY Zenon, <1>3, <1>4, <1>5, <1>6, <1>7, <1>8, <1>9, <1>10, <1>11, <1>12, <1>13, <1>14,
       <1>15 DEF IInv, TypeOK

(* The frame cannot be written: the connection and its session are gone. *)
LEMMA WriteOnceFailsStep ==
    ASSUME IInv, WriteOnceFails
    PROVE  IInv'
<1> USE NoSessionFacts DEF clientVars, runVars, connVars, nodeVars
<1>1. /\ ClientTypes /\ RunTypes /\ ConnTypes /\ NodeTypes /\ Position /\ Queued
      /\ Wire /\ Sessions /\ OpenBlock /\ Settled /\ WatchInv /\ Results /\ Ran
      /\ ClusterHome /\ PlainHome /\ Restored
    BY Zenon DEF IInv, TypeOK
<1>2. pc = "write" /\ frame.dir = "none" /\ frame' = frame /\ rx' = "Retry"
    BY <1>1, Zenon DEF WriteOnceFails, Wire
<1>3. /\ target \in Nodes /\ session' \in [Nodes -> Session]
      /\ session'[target] = NoSession
      /\ \A m \in Nodes : m # target => session'[m] = session[m]
    BY <1>1, SessionUpdate, Zenon DEF WriteOnceFails, Position, Busy
<1>4. ClientTypes' /\ NodeTypes' /\ Ran'
    BY <1>1, Zenon DEF WriteOnceFails, ClientTypes, NodeTypes, Ran
<1>5. RunTypes'
    BY <1>1, <1>2, <1>3, Zenon DEF WriteOnceFails, RunTypes
<1>6. ConnTypes'
    BY <1>1, <1>2, <1>3, Zenon DEF WriteOnceFails, ConnTypes
<1>7. Position'
    BY <1>1, <1>2, <1>3, Zenon DEF WriteOnceFails, Position, Busy, Answered, Redirecting
<1>8. Queued'
    BY <1>1, <1>2, <1>3, Zenon DEF WriteOnceFails, Queued
<1>9. Wire'
    BY <1>1, <1>2, <1>3 DEF WriteOnceFails, Wire
<1>10. Sessions'
    BY <1>1, <1>2, <1>3 DEF WriteOnceFails, Sessions
<1>11. OpenBlock'
    BY <1>1, <1>2, <1>3, Zenon DEF WriteOnceFails, OpenBlock, Clean, Acked, Answered, Busy
<1>12. Settled'
    BY <1>1, <1>2, <1>3, Zenon DEF WriteOnceFails, Settled, Answered
<1>13. WatchInv'
    BY <1>1, <1>2, <1>3 DEF WriteOnceFails, WatchInv, Watched, Busy, Answered
<1>14. Results'
    BY <1>1, <1>2, <1>3, Zenon DEF WriteOnceFails, Results, Answered
<1>15. ClusterHome'
    BY <1>1, <1>2, <1>3, Zenon DEF WriteOnceFails, ClusterHome, AtHome, OneSlot, Busy,
       Redirecting, Answered
<1>16. PlainHome'
    BY <1>1, <1>2, <1>3, Zenon DEF WriteOnceFails, PlainHome, Busy
<1>17. Restored'
    BY <1>1, <1>2, <1>3, Zenon DEF WriteOnceFails, Restored, OneSlot
<1> QED
    BY Zenon, <1>4, <1>5, <1>6, <1>7, <1>8, <1>9, <1>10, <1>11, <1>12, <1>13, <1>14, <1>15,
       <1>16, <1>17 DEF IInv, TypeOK

(* process_response_frame hands the response to the router. *)
LEMMA ReadResponseStep ==
    ASSUME IInv, ReadResponse
    PROVE  IInv'
<1> USE DEF clientVars, runVars, connVars, nodeVars
<1>1. /\ ClientTypes /\ RunTypes /\ ConnTypes /\ NodeTypes /\ Position /\ Queued
      /\ Wire /\ Sessions /\ OpenBlock /\ Settled /\ WatchInv /\ Results /\ Ran
      /\ ClusterHome /\ PlainHome /\ Restored
    BY Zenon DEF IInv, TypeOK
<1>2. /\ frame.reply \in {"ok", "error", "result", "nil", "discarded", "MOVED", "ASK"}
      /\ (frame.reply \in {"MOVED", "ASK"} => config.clustered)
    BY <1>1, Zenon DEF ReadResponse, Wire, ConnTypes, Frame
<1>3. /\ rx' = RouterMessage(frame.reply) /\ pc = "await"
      /\ frame' = [frame EXCEPT !.dir = "none"]
    BY <1>1, Zenon DEF ReadResponse, Wire
<1>4. frame'.reply = frame.reply /\ frame'.dir = "none"
    BY <1>1, <1>3, Zenon DEF ConnTypes, Frame
<1>5. /\ rx' \in {"Redirection", "Error", "Finished", "Continue"}
      /\ (rx' = "Continue" => frame.reply = "ok")
      /\ (rx' = "Error" => frame.reply = "error")
      /\ (rx' = "Finished" => frame.reply \in {"result", "nil", "discarded"})
      /\ (rx' = "Redirection" => frame.reply \in {"MOVED", "ASK"})
    BY Zenon, <1>1, <1>2, <1>3, RouterMessageFacts
<1>6. /\ ClientTypes' /\ NodeTypes' /\ Queued' /\ Sessions' /\ Ran' /\ PlainHome'
      /\ Restored'
    BY <1>1, Zenon DEF ReadResponse, ClientTypes, NodeTypes, Queued, Sessions, Ran, PlainHome,
       Busy, Restored, OneSlot
<1>7. RunTypes'
    BY <1>1, <1>2, <1>3, <1>4, <1>5 DEF ReadResponse, Frame, RunTypes
<1>8. ConnTypes'
    BY <1>1, <1>2, <1>3, <1>4, <1>5, Zenon DEF ReadResponse, Frame, ConnTypes
<1>9. Position'
    BY <1>1, <1>2, <1>3, <1>4, <1>5, Zenon DEF ReadResponse, Frame, Position, Busy, Answered,
       Redirecting
<1>10. Wire'
    BY <1>1, <1>2, <1>3, <1>4, <1>5, Zenon DEF ReadResponse, Frame, Wire
<1>11. OpenBlock'
    BY <1>1, <1>2, <1>3, <1>4, <1>5, Zenon DEF ReadResponse, Frame, OpenBlock, Clean, Acked,
       Answered, Busy
<1>12. Settled'
    BY <1>1, <1>2, <1>3, <1>4, <1>5, Zenon DEF ReadResponse, Frame, Settled, Answered
<1>13. WatchInv'
    BY <1>1, <1>2, <1>3, <1>4, <1>5, Zenon DEF ReadResponse, Frame, WatchInv, Watched, Busy,
       Answered
<1>14. Results'
    BY <1>1, <1>2, <1>3, <1>4, <1>5, Zenon DEF ReadResponse, Frame, Results, Answered
<1>15. ClusterHome'
    BY <1>1, <1>2, <1>3, <1>4, <1>5, Zenon DEF ReadResponse, Frame, ClusterHome, AtHome,
       OneSlot, Busy, Redirecting, Answered
<1> QED
    BY <1>6, <1>7, <1>8, <1>9, <1>10, <1>11, <1>12, <1>13, <1>14, <1>15, Zenon DEF IInv, TypeOK

(* A connection ends, and the response on it is lost. *)
LEMMA BreakStep ==
    ASSUME IInv, NEW n \in Nodes, Break(n)
    PROVE  IInv'
<1> USE NoSessionFacts, NoFrameFacts DEF clientVars, runVars, connVars, nodeVars
<1>1. /\ ClientTypes /\ RunTypes /\ ConnTypes /\ NodeTypes /\ Position /\ Queued
      /\ Wire /\ Sessions /\ OpenBlock /\ Settled /\ WatchInv /\ Results /\ Ran
      /\ ClusterHome /\ PlainHome /\ Restored
    BY Zenon DEF IInv, TypeOK
<1>2. /\ session' \in [Nodes -> Session] /\ session'[n] = NoSession
      /\ \A m \in Nodes : m # n => session'[m] = session[m]
    BY <1>1, SessionUpdate, Zenon DEF Break
<1>3. ClientTypes' /\ Ran'
    BY <1>1, Zenon DEF Break, ClientTypes, Ran
<1>4. RunTypes'
    BY <1>1, <1>2 DEF Break, RunTypes, ConnTypes
<1>5. ConnTypes'
    BY <1>1, <1>2, Zenon DEF Break, ConnTypes
<1>6. NodeTypes'
    BY <1>1, <1>2 DEF Break, NodeTypes, ConnTypes
<1>7. Position'
    BY <1>1, <1>2, Zenon DEF Break, Position, Busy, Answered, Redirecting, ConnTypes
<1>8. Queued'
    BY <1>1, <1>2, Zenon DEF Break, Queued, ConnTypes
<1>9. Wire'
    BY <1>1, <1>2 DEF Break, Wire, ConnTypes
<1>10. Sessions'
    BY <1>1, <1>2, Zenon DEF Break, Sessions, ConnTypes
<1>11. OpenBlock'
    BY <1>1, <1>2 DEF Break, OpenBlock, Clean, Acked, Answered, Busy, ConnTypes, Wire,
       Position
<1>12. Settled'
    BY <1>1, <1>2 DEF Break, Settled, Answered, ConnTypes
<1>13. WatchInv'
    BY <1>1, <1>2, Zenon DEF Break, WatchInv, Watched, Busy, Answered, ConnTypes, Wire, Position
<1>14. Results'
    BY <1>1, <1>2, Zenon DEF Break, Results, Answered, ConnTypes, Wire, Position, Busy
<1>15. ClusterHome'
    BY <1>1, <1>2 DEF Break, ClusterHome, AtHome, OneSlot, Busy, Redirecting, Answered,
       ConnTypes
<1>16. PlainHome'
    BY <1>1, <1>2, Zenon DEF Break, PlainHome, Busy, ConnTypes
<1>17. Restored'
    BY <1>1, <1>2, Zenon DEF Break, Restored, OneSlot, ConnTypes
<1> QED
    BY Zenon, <1>3, <1>4, <1>5, <1>6, <1>7, <1>8, <1>9, <1>10, <1>11, <1>12, <1>13, <1>14,
       <1>15, <1>16, <1>17 DEF IInv, TypeOK

-----------------------------------------------------------------------------
(* The nodes.                                                              *)

(* What a node that answers was asked. *)
LEMMA RequestFacts ==
    ASSUME IInv, frame.dir = "request"
    PROVE  /\ pc = "await" /\ rx = "none" /\ Busy /\ ~Answered
           /\ frame.reply = "none"
           /\ target \in Nodes /\ conn[target] = "up" /\ session[target] \in Session
           /\ step \in {"WATCH", "CMD", "EXEC"} => target = server
<1> QED
    BY Zenon DEF IInv, Wire, Position, Busy, Answered, TypeOK, ConnTypes

(* The redirections a node answers with name the slot of the command, and MOVED
   names another node. *)
LEMMA RedirectionFacts ==
    ASSUME IInv, frame.dir = "request", NEW r \in Redirections(target, SlotOnWire),
           r # NoRedirect
    PROVE  /\ r \in Redirection /\ config.clustered
           /\ step \in {"WATCH", "CMD"}
           /\ r.slot = SlotOnWire /\ r.slot # None
           /\ r.kind = "MOVED" => r.server # target
<1>1. SlotOnWire \in SlotOrNone
  <2>1. CASE step = "CMD"
      BY <2>1, RequestFacts DEF IInv, Position, TypeOK, ClientTypes, RunTypes, SlotOnWire
  <2>2. CASE step # "CMD"
      BY <2>2, Zenon DEF IInv, TypeOK, ClientTypes, SlotOnWire, SlotOrNone
  <2> QED
      BY Zenon, <2>1, <2>2
<1>2. SlotOnWire # None /\ config.clustered
    BY Zenon DEF Redirections
<1>3. SlotOnWire \in Slots
    BY <1>1, <1>2, Zenon DEF SlotOrNone
<1>4. step \in {"WATCH", "CMD"}
    BY <1>2, Zenon DEF SlotOnWire
<1>5. \/ r = [kind |-> "ASK", slot |-> SlotOnWire, server |-> importer[SlotOnWire]]
         /\ importer[SlotOnWire] # None
      \/ r = [kind |-> "MOVED", slot |-> SlotOnWire, server |-> owner[SlotOnWire]]
         /\ owner[SlotOnWire] # target
    BY <1>2, Zenon DEF Redirections
<1>6. /\ owner[SlotOnWire] \in Nodes
      /\ importer[SlotOnWire] \in Nodes \cup {None}
    BY <1>3, Zenon DEF IInv, TypeOK, NodeTypes, NodeOrNone
<1> QED
    BY <1>2, <1>3, <1>4, <1>5, <1>6, RequestFacts DEF Redirection

(* A node that refuses a command spoils the block it is queueing. *)
LEMMA SpoiledFacts ==
    ASSUME IInv, frame.dir = "request", NEW what,
           Reply(target, what, [session[target] EXCEPT !.dirty = session[target].multi])
    PROVE  /\ session' \in [Nodes -> Session]
           /\ \A m \in Nodes : m # target => session'[m] = session[m]
           /\ session'[target].multi = session[target].multi
           /\ session'[target].dirty = session[target].multi
           /\ session'[target].watch = session[target].watch
           /\ session'[target].queue = session[target].queue
           /\ frame' = [dir |-> "response", reply |-> what]
<1> DEFINE ses == session[target]
           x == [ses EXCEPT !.dirty = ses.multi, !.asking = ses.asking /\ ses.multi]
<1>1. target \in Nodes /\ ses \in Session /\ ConnTypes
    BY RequestFacts, Zenon DEF IInv, TypeOK
<1>2. /\ x \in Session /\ x.multi = ses.multi /\ x.dirty = ses.multi
      /\ x.watch = ses.watch /\ x.queue = ses.queue
    BY <1>1, Zenon DEF Session
<1>3. /\ session' = [session EXCEPT ![target] = x]
      /\ frame' = [dir |-> "response", reply |-> what]
    BY <1>1, Zenon DEF Reply, Session
<1> HIDE DEF x
<1> QED
    BY Zenon, <1>1, <1>2, <1>3, SessionUpdate

(* The node redirects the command and spoils the block. *)
LEMMA NodeRedirectsStep ==
    ASSUME IInv, frame.dir = "request", NEW r \in Redirections(target, SlotOnWire),
           r # NoRedirect, redirect' = r,
           Reply(target, r.kind, [session[target] EXCEPT !.dirty = session[target].multi]),
           UNCHANGED <<clientVars, hasher, answer, pc, step, target, server, idx,
                       attempted, after, rx, reconnects, cache, conn, nodeVars>>
    PROVE  IInv'
<1> USE DEF clientVars, nodeVars
<1>1. /\ ClientTypes /\ RunTypes /\ ConnTypes /\ NodeTypes /\ Position /\ Queued
      /\ Wire /\ Sessions /\ OpenBlock /\ Settled /\ WatchInv /\ Results /\ Ran
      /\ ClusterHome /\ PlainHome /\ Restored
    BY Zenon DEF IInv, TypeOK
<1>2. /\ pc = "await" /\ rx = "none" /\ frame.reply = "none" /\ ~Answered /\ Busy
      /\ target = server /\ target \in Nodes /\ conn[target] = "up"
    BY Zenon, RequestFacts, RedirectionFacts
<1>3. /\ r \in Redirection /\ config.clustered /\ step \in {"WATCH", "CMD"}
      /\ r.slot = SlotOnWire /\ r.slot # None
      /\ r.kind = "MOVED" => r.server # target
    BY Zenon, RedirectionFacts
<1>4. /\ session' \in [Nodes -> Session]
      /\ \A m \in Nodes : m # target => session'[m] = session[m]
      /\ session'[target].multi = session[target].multi
      /\ session'[target].dirty = session[target].multi
      /\ session'[target].watch = session[target].watch
      /\ session'[target].queue = session[target].queue
      /\ frame' = [dir |-> "response", reply |-> r.kind]
    BY Zenon, SpoiledFacts
<1>5. frame' \in Frame /\ frame'.dir = "response" /\ frame'.reply \in {"MOVED", "ASK"}
    BY <1>3, <1>4, Zenon DEF Frame, Redirection
<1>6. ClientTypes' /\ NodeTypes' /\ Ran'
    BY <1>1, Zenon DEF ClientTypes, NodeTypes, Ran
<1>7. RunTypes'
    BY <1>1, <1>2, <1>3, <1>4, <1>5, Zenon DEF RunTypes
<1>8. ConnTypes'
    BY <1>1, <1>2, <1>3, <1>4, <1>5, Zenon DEF ConnTypes
<1>9. Position'
    BY <1>1, <1>2, <1>3, <1>4, <1>5, Zenon DEF Position, Busy, Answered, Redirecting
<1>10. Queued'
    BY <1>1, <1>2, <1>3, <1>4, <1>5, Zenon DEF Queued
<1>11. Wire'
    BY <1>1, <1>2, <1>3, <1>4, <1>5, Zenon DEF Wire
<1>12. Sessions'
    BY <1>1, <1>2, <1>3, <1>4, <1>5 DEF Sessions
<1>13. OpenBlock'
    BY <1>1, <1>2, <1>3, <1>4, <1>5, Zenon DEF OpenBlock, Clean, Acked, Answered, Busy, Position
<1>14. Settled'
    BY <1>1, <1>2, <1>3, <1>4, <1>5, Zenon DEF Settled, Answered
<1>15. WatchInv'
    BY <1>1, <1>2, <1>3, <1>4, <1>5, Zenon DEF WatchInv, Watched, Busy, Answered, Sessions
<1>16. Results'
    BY <1>1, <1>2, <1>3, <1>4, <1>5, Zenon DEF Results, Answered
<1>17. ClusterHome'
    BY <1>1, <1>2, <1>3, <1>4, <1>5 DEF ClusterHome, AtHome, OneSlot, Busy, Redirecting,
       Answered, SlotOnWire, SlotOrNone, ClientTypes, RunTypes, Position
<1>18. PlainHome'
    BY <1>1, <1>2, <1>3, <1>4, <1>5, Zenon DEF PlainHome, Busy
<1>19. Restored'
    BY <1>1, <1>2, <1>3, <1>4, <1>5, Zenon DEF Restored, OneSlot
<1> QED
    BY Zenon, <1>6, <1>7, <1>8, <1>9, <1>10, <1>11, <1>12, <1>13, <1>14, <1>15, <1>16, <1>17,
       <1>18, <1>19 DEF IInv, TypeOK

(* ASKING marks the session. *)
LEMMA AskingServed ==
    ASSUME IInv, frame.dir = "request", step = "ASKING",
           NEW x \in Session, NEW what \in {"ok"},
           session' = [session EXCEPT ![target] = x],
           frame' = [dir |-> "response", reply |-> what],
           x = [session[target] EXCEPT !.asking = TRUE], executed' = executed,
           UNCHANGED <<clientVars, hasher, answer, pc, step, target, server, idx,
                       attempted, after, rx, reconnects, cache, conn, owner, importer,
                       lost, faults, redirect>>
    PROVE  IInv'
<1> USE DEF clientVars
<1>1. /\ ClientTypes /\ RunTypes /\ ConnTypes /\ NodeTypes /\ Position /\ Queued
      /\ Wire /\ Sessions /\ OpenBlock /\ Settled /\ WatchInv /\ Results /\ Ran
      /\ ClusterHome /\ PlainHome /\ Restored
    BY Zenon DEF IInv, TypeOK
<1>2. /\ pc = "await" /\ rx = "none" /\ frame.reply = "none" /\ ~Answered /\ Busy
      /\ target \in Nodes /\ conn[target] = "up" /\ session[target] \in Session
      /\ step \in {"WATCH", "CMD", "EXEC"} => target = server
    BY Zenon, RequestFacts
<1>3. /\ session' \in [Nodes -> Session] /\ session'[target] = x
      /\ \A m \in Nodes : m # target => session'[m] = session[m]
    BY Zenon, <1>1, <1>2, SessionUpdate
<1>4. frame' \in Frame /\ frame'.dir = "response" /\ frame'.reply = what
    BY Zenon DEF Frame
<1>5. /\ x.multi = session[target].multi /\ x.dirty = session[target].dirty
      /\ x.watch = session[target].watch /\ x.queue = session[target].queue
    BY <1>1, <1>2, Zenon DEF Session
<1>6. ClientTypes' /\ RunTypes' /\ NodeTypes' /\ Ran'
    BY <1>1 DEF ClientTypes, RunTypes, NodeTypes, Ran
<1>7. ConnTypes'
    BY TransactionsAssumption, <1>1, <1>2, <1>3, <1>4, <1>5, Zenon DEF ConnTypes
<1>8. Position'
    BY TransactionsAssumption, <1>1, <1>2, <1>3, <1>4, <1>5, Zenon DEF Position, Busy, Answered,
       Redirecting
<1>9. Queued'
    BY TransactionsAssumption, <1>1, <1>2, <1>3, <1>4, <1>5, Zenon DEF Queued
<1>10. Wire'
    BY TransactionsAssumption, <1>1, <1>2, <1>3, <1>4, <1>5, Zenon DEF Wire
<1>11. Sessions'
    BY TransactionsAssumption, <1>1, <1>2, <1>3, <1>4, <1>5, Zenon DEF Sessions
<1>12. OpenBlock'
    BY TransactionsAssumption, <1>1, <1>2, <1>3, <1>4, <1>5, Zenon DEF OpenBlock, Clean, Acked,
       Answered, Busy, Position
<1>13. Settled'
    BY TransactionsAssumption, <1>1, <1>2, <1>3, <1>4, <1>5, Zenon DEF Settled, Answered
<1>14. WatchInv'
    BY TransactionsAssumption, <1>1, <1>2, <1>3, <1>4, <1>5, Zenon DEF WatchInv, Watched, Busy,
       Answered
<1>15. Results'
    BY TransactionsAssumption, <1>1, <1>2, <1>3, <1>4, <1>5, Zenon DEF Results, Answered
<1>16. ClusterHome'
    BY TransactionsAssumption, <1>1, <1>2, <1>3, <1>4, <1>5 DEF ClusterHome, AtHome,
       OneSlot, Busy, Redirecting, Answered
<1>17. PlainHome'
    BY TransactionsAssumption, <1>1, <1>2, <1>3, <1>4, <1>5, Zenon DEF PlainHome, Busy
<1>18. Restored'
    BY TransactionsAssumption, <1>1, <1>2, <1>3, <1>4, <1>5, Zenon DEF Restored, OneSlot
<1> QED
    BY Zenon, <1>6, <1>7, <1>8, <1>9, <1>10, <1>11, <1>12, <1>13, <1>14, <1>15, <1>16, <1>17,
       <1>18 DEF IInv, TypeOK

(* WATCH outside MULTI watches the keys, inside it spoils the block. *)
LEMMA WatchServed ==
    ASSUME IInv, frame.dir = "request", step = "WATCH",
           NEW x \in Session, NEW what \in {"ok", "error"},
           session' = [session EXCEPT ![target] = x],
           frame' = [dir |-> "response", reply |-> what],
           x.multi = session[target].multi, x.queue = session[target].queue,
           session[target].multi => what = "error" /\ x.dirty,
           ~session[target].multi => what = "ok" /\ ~x.dirty /\ x.watch # "no",
           executed' = executed,
           UNCHANGED <<clientVars, hasher, answer, pc, step, target, server, idx,
                       attempted, after, rx, reconnects, cache, conn, owner, importer,
                       lost, faults, redirect>>
    PROVE  IInv'
<1> USE DEF clientVars
<1>1. /\ ClientTypes /\ RunTypes /\ ConnTypes /\ NodeTypes /\ Position /\ Queued
      /\ Wire /\ Sessions /\ OpenBlock /\ Settled /\ WatchInv /\ Results /\ Ran
      /\ ClusterHome /\ PlainHome /\ Restored
    BY Zenon DEF IInv, TypeOK
<1>2. /\ pc = "await" /\ rx = "none" /\ frame.reply = "none" /\ ~Answered /\ Busy
      /\ target \in Nodes /\ conn[target] = "up" /\ session[target] \in Session
      /\ step \in {"WATCH", "CMD", "EXEC"} => target = server
    BY Zenon, RequestFacts
<1>3. /\ session' \in [Nodes -> Session] /\ session'[target] = x
      /\ \A m \in Nodes : m # target => session'[m] = session[m]
    BY Zenon, <1>1, <1>2, SessionUpdate
<1>4. frame' \in Frame /\ frame'.dir = "response" /\ frame'.reply = what
    BY Zenon DEF Frame
<1>5. ClientTypes' /\ RunTypes' /\ NodeTypes' /\ Ran'
    BY <1>1 DEF ClientTypes, RunTypes, NodeTypes, Ran
<1>6. ConnTypes'
    BY TransactionsAssumption, <1>1, <1>2, <1>3, <1>4, Zenon DEF ConnTypes
<1>7. Position'
    BY TransactionsAssumption, <1>1, <1>2, <1>3, <1>4, Zenon DEF Position, Busy, Answered,
       Redirecting
<1>8. Queued'
    BY TransactionsAssumption, <1>1, <1>2, <1>3, <1>4, Zenon DEF Queued
<1>9. Wire'
    BY TransactionsAssumption, <1>1, <1>2, <1>3, <1>4, Zenon DEF Wire
<1>10. Sessions'
    BY TransactionsAssumption, <1>1, <1>2, <1>3, <1>4, Zenon DEF Sessions
<1>11. OpenBlock'
    BY TransactionsAssumption, <1>1, <1>2, <1>3, <1>4, Zenon DEF OpenBlock, Clean, Acked,
       Answered, Busy, Position
<1>12. Settled'
    BY TransactionsAssumption, <1>1, <1>2, <1>3, <1>4, Zenon DEF Settled, Answered
<1>13. WatchInv'
    BY TransactionsAssumption, <1>1, <1>2, <1>3, <1>4, Zenon DEF WatchInv, Watched, Busy,
       Answered
<1>14. Results'
    BY TransactionsAssumption, <1>1, <1>2, <1>3, <1>4, Zenon DEF Results, Answered
<1>15. ClusterHome'
    BY TransactionsAssumption, <1>1, <1>2, <1>3, <1>4 DEF ClusterHome, AtHome, OneSlot,
       Busy, Redirecting, Answered
<1>16. PlainHome'
    BY TransactionsAssumption, <1>1, <1>2, <1>3, <1>4, Zenon DEF PlainHome, Busy
<1>17. Restored'
    BY TransactionsAssumption, <1>1, <1>2, <1>3, <1>4, Zenon DEF Restored, OneSlot
<1> QED
    BY Zenon, <1>5, <1>6, <1>7, <1>8, <1>9, <1>10, <1>11, <1>12, <1>13, <1>14, <1>15, <1>16,
       <1>17 DEF IInv, TypeOK

(* MULTI opens a block unless one is open. *)
LEMMA MultiServed ==
    ASSUME IInv, frame.dir = "request", step = "CMD", idx = 0,
           NEW x \in Session, NEW what \in {"ok", "error"},
           session' = [session EXCEPT ![target] = x],
           frame' = [dir |-> "response", reply |-> what],
           x.dirty = session[target].dirty, x.watch = session[target].watch,
           x.queue = session[target].queue, x.multi,
           session[target].multi => what = "error",
           ~session[target].multi => what = "ok",
           executed' = executed,
           UNCHANGED <<clientVars, hasher, answer, pc, step, target, server, idx,
                       attempted, after, rx, reconnects, cache, conn, owner, importer,
                       lost, faults, redirect>>
    PROVE  IInv'
<1> USE DEF clientVars
<1>1. /\ ClientTypes /\ RunTypes /\ ConnTypes /\ NodeTypes /\ Position /\ Queued
      /\ Wire /\ Sessions /\ OpenBlock /\ Settled /\ WatchInv /\ Results /\ Ran
      /\ ClusterHome /\ PlainHome /\ Restored
    BY Zenon DEF IInv, TypeOK
<1>2. /\ pc = "await" /\ rx = "none" /\ frame.reply = "none" /\ ~Answered /\ Busy
      /\ target \in Nodes /\ conn[target] = "up" /\ session[target] \in Session
      /\ step \in {"WATCH", "CMD", "EXEC"} => target = server
    BY Zenon, RequestFacts
<1>3. /\ session' \in [Nodes -> Session] /\ session'[target] = x
      /\ \A m \in Nodes : m # target => session'[m] = session[m]
    BY Zenon, <1>1, <1>2, SessionUpdate
<1>4. frame' \in Frame /\ frame'.dir = "response" /\ frame'.reply = what
    BY Zenon DEF Frame
<1>5. session[target].multi => session[target].dirty
    BY <1>1, <1>2 DEF OpenBlock, Clean, Acked
<1>6. SubSeq(commands, 2, 1) = <<>>
    BY <1>1 DEF ClientTypes
<1>7. Acked' = 1
    BY <1>1, <1>2, <1>4 DEF Acked, Answered
<1>8. ClientTypes' /\ RunTypes' /\ NodeTypes' /\ Ran'
    BY <1>1 DEF ClientTypes, RunTypes, NodeTypes, Ran
<1>9. ConnTypes'
    BY TransactionsAssumption, <1>1, <1>2, <1>3, <1>4, <1>5, <1>6, <1>7, Zenon DEF ConnTypes
<1>10. Position'
    BY TransactionsAssumption, <1>1, <1>2, <1>3, <1>4, <1>5, <1>6, <1>7, Zenon DEF Position,
       Busy, Answered, Redirecting
<1>11. Queued'
    BY TransactionsAssumption, <1>1, <1>2, <1>3, <1>4, <1>5, <1>6, <1>7, Zenon DEF Queued
<1>12. Wire'
    BY TransactionsAssumption, <1>1, <1>2, <1>3, <1>4, <1>5, <1>6, <1>7, Zenon DEF Wire
<1>13. Sessions'
    BY TransactionsAssumption, <1>1, <1>2, <1>3, <1>4, <1>5, <1>6, <1>7, Zenon DEF Sessions
<1>14. OpenBlock'
  <2>1. \A m \in Nodes : m # target => ~Clean(m)'
      BY <1>1, <1>2, <1>3, Zenon DEF OpenBlock, Clean
  <2>2. \A m \in Nodes : m = target /\ Clean(m)' => session'[m].queue = <<>> /\ frame'.reply = "ok"
      BY <1>1, <1>2, <1>3, <1>4, <1>5, Zenon DEF Clean, Sessions
  <2>3. Busy' /\ target = server' /\ step' = "CMD"
      BY <1>1, <1>2, Zenon DEF Busy
  <2>4. SubSeq(commands', 2, Acked') = <<>>
      BY Zenon, <1>6, <1>7
  <2> SUFFICES ASSUME NEW m \in Nodes, Clean(m)'
               PROVE  /\ (Busy' /\ m = server' /\ step' \in {"CMD", "EXEC"}) /\ Acked' > 0
                      /\ session'[m].queue = SubSeq(commands', 2, Acked')
                      /\ Answered' => step' = "CMD" /\ frame'.reply = "ok"
      BY Zenon DEF OpenBlock
  <2>5. m = target
      BY Zenon, <2>1
  <2>6. session'[m].queue = SubSeq(commands', 2, Acked') /\ frame'.reply = "ok"
      BY Zenon, <2>2, <2>4, <2>5
  <2>7. Acked' > 0
      BY <1>7
  <2> QED
      BY Zenon, <2>3, <2>5, <2>6, <2>7
<1>15. Settled'
    BY TransactionsAssumption, <1>1, <1>2, <1>3, <1>4, <1>5, <1>6, <1>7, Zenon DEF Settled,
       Answered
<1>16. WatchInv'
    BY TransactionsAssumption, <1>1, <1>2, <1>3, <1>4, <1>5, <1>6, <1>7, Zenon DEF WatchInv,
       Watched, Busy, Answered, Sessions
<1>17. Results'
    BY TransactionsAssumption, <1>1, <1>2, <1>3, <1>4, <1>5, <1>6, <1>7, Zenon DEF Results,
       Answered
<1>18. ClusterHome'
    BY TransactionsAssumption, <1>1, <1>2, <1>3, <1>4, <1>5, <1>6, <1>7 DEF ClusterHome,
       AtHome, OneSlot, Busy, Redirecting, Answered
<1>19. PlainHome'
    BY TransactionsAssumption, <1>1, <1>2, <1>3, <1>4, <1>5, <1>6, <1>7, Zenon DEF PlainHome,
       Busy
<1>20. Restored'
    BY TransactionsAssumption, <1>1, <1>2, <1>3, <1>4, <1>5, <1>6, <1>7, Zenon DEF Restored,
       OneSlot
<1> QED
    BY Zenon, <1>8, <1>9, <1>10, <1>11, <1>12, <1>13, <1>14, <1>15, <1>16, <1>17, <1>18, <1>19,
       <1>20 DEF IInv, TypeOK

(* A command is queued in a block that nothing has spoiled. *)
LEMMA CommandServed ==
    ASSUME IInv, frame.dir = "request", step = "CMD", idx > 0,
           NEW x \in Session, NEW what \in {"ok"},
           session' = [session EXCEPT ![target] = x],
           frame' = [dir |-> "response", reply |-> what],
           x.dirty = session[target].dirty, x.watch = session[target].watch,
           x.multi = session[target].multi,
           x.multi /\ ~x.dirty => x.queue = Append(session[target].queue, commands[idx + 1]),
           ~(x.multi /\ ~x.dirty) => x.queue = session[target].queue,
           executed' = executed,
           UNCHANGED <<clientVars, hasher, answer, pc, step, target, server, idx,
                       attempted, after, rx, reconnects, cache, conn, owner, importer,
                       lost, faults, redirect>>
    PROVE  IInv'
<1> USE DEF clientVars
<1>1. /\ ClientTypes /\ RunTypes /\ ConnTypes /\ NodeTypes /\ Position /\ Queued
      /\ Wire /\ Sessions /\ OpenBlock /\ Settled /\ WatchInv /\ Results /\ Ran
      /\ ClusterHome /\ PlainHome /\ Restored
    BY Zenon DEF IInv, TypeOK
<1>2. /\ pc = "await" /\ rx = "none" /\ frame.reply = "none" /\ ~Answered /\ Busy
      /\ target \in Nodes /\ conn[target] = "up" /\ session[target] \in Session
      /\ step \in {"WATCH", "CMD", "EXEC"} => target = server
    BY Zenon, RequestFacts
<1>3. /\ session' \in [Nodes -> Session] /\ session'[target] = x
      /\ \A m \in Nodes : m # target => session'[m] = session[m]
    BY Zenon, <1>1, <1>2, SessionUpdate
<1>4. frame' \in Frame /\ frame'.dir = "response" /\ frame'.reply = what
    BY Zenon DEF Frame
<1>5. idx \in 1..Len(commands) - 1 /\ commands \in Seq(SlotOrNone)
    BY <1>1, <1>2 DEF Position, RunTypes, ClientTypes
<1>6. Append(SubSeq(commands, 2, idx), commands[idx + 1]) = SubSeq(commands, 2, idx + 1)
    BY Zenon, <1>5, NextQueued
<1>7. Acked = idx /\ Acked' = idx + 1
    BY <1>1, <1>2, <1>4, Zenon DEF Acked, Answered
<1>8. ClientTypes' /\ RunTypes' /\ NodeTypes' /\ Ran'
    BY <1>1 DEF ClientTypes, RunTypes, NodeTypes, Ran
<1>9. ConnTypes'
    BY TransactionsAssumption, <1>1, <1>2, <1>3, <1>4, <1>5, <1>6, <1>7, Zenon DEF ConnTypes
<1>10. Position'
    BY TransactionsAssumption, <1>1, <1>2, <1>3, <1>4, <1>5, <1>6, <1>7, Zenon DEF Position,
       Busy, Answered, Redirecting
<1>11. Queued'
    BY TransactionsAssumption, <1>1, <1>2, <1>3, <1>4, <1>5, <1>6, <1>7, Zenon DEF Queued
<1>12. Wire'
    BY TransactionsAssumption, <1>1, <1>2, <1>3, <1>4, <1>5, <1>6, <1>7, Zenon DEF Wire
<1>13. Sessions'
    BY TransactionsAssumption, <1>1, <1>2, <1>3, <1>4, <1>5, <1>6, <1>7, Zenon DEF Sessions
<1>14. OpenBlock'
  <2>1. \A m \in Nodes : m # target => ~Clean(m)'
      BY <1>1, <1>2, <1>3, Zenon DEF OpenBlock, Clean
  <2>2. \A m \in Nodes : m = target /\ Clean(m)' => session'[m].queue = SubSeq(commands, 2, idx + 1)
      BY <1>1, <1>2, <1>3, <1>6, <1>7, Zenon DEF OpenBlock, Clean
  <2> QED
      BY <1>1, <1>2, <1>4, <1>5, <1>7, <2>1, <2>2 DEF OpenBlock, Busy
<1>15. Settled'
    BY TransactionsAssumption, <1>1, <1>2, <1>3, <1>4, <1>5, <1>6, <1>7, Zenon DEF Settled,
       Answered
<1>16. WatchInv'
    BY TransactionsAssumption, <1>1, <1>2, <1>3, <1>4, <1>5, <1>6, <1>7, Zenon DEF WatchInv,
       Watched, Busy, Answered
<1>17. Results'
    BY TransactionsAssumption, <1>1, <1>2, <1>3, <1>4, <1>5, <1>6, <1>7, Zenon DEF Results,
       Answered
<1>18. ClusterHome'
    BY TransactionsAssumption, <1>1, <1>2, <1>3, <1>4, <1>5, <1>6, <1>7 DEF ClusterHome,
       AtHome, OneSlot, Busy, Redirecting, Answered
<1>19. PlainHome'
    BY TransactionsAssumption, <1>1, <1>2, <1>3, <1>4, <1>5, <1>6, <1>7, Zenon DEF PlainHome,
       Busy
<1>20. Restored'
    BY TransactionsAssumption, <1>1, <1>2, <1>3, <1>4, <1>5, <1>6, <1>7, Zenon DEF Restored,
       OneSlot
<1> QED
    BY Zenon, <1>8, <1>9, <1>10, <1>11, <1>12, <1>13, <1>14, <1>15, <1>16, <1>17, <1>18, <1>19,
       <1>20 DEF IInv, TypeOK

(* EXEC ends the block and runs it if nothing spoiled it and no watched key was touched. *)
LEMMA ExecServed ==
    ASSUME IInv, frame.dir = "request", step = "EXEC",
           NEW x \in Session, NEW what \in {"error", "nil", "result"},
           session' = [session EXCEPT ![target] = x],
           frame' = [dir |-> "response", reply |-> what],
           ~x.multi, ~x.dirty, x.queue = <<>>,
           what = "result" => /\ Clean(target) /\ session[target].watch # "touched"
                              /\ executed' = Append(executed, [queue |-> session[target].queue,
                                                               watch |-> session[target].watch]),
           what # "result" => executed' = executed,
           UNCHANGED <<clientVars, hasher, answer, pc, step, target, server, idx,
                       attempted, after, rx, reconnects, cache, conn, owner, importer,
                       lost, faults, redirect>>
    PROVE  IInv'
<1> USE DEF clientVars
<1>1. /\ ClientTypes /\ RunTypes /\ ConnTypes /\ NodeTypes /\ Position /\ Queued
      /\ Wire /\ Sessions /\ OpenBlock /\ Settled /\ WatchInv /\ Results /\ Ran
      /\ ClusterHome /\ PlainHome /\ Restored
    BY Zenon DEF IInv, TypeOK
<1>2. /\ pc = "await" /\ rx = "none" /\ frame.reply = "none" /\ ~Answered /\ Busy
      /\ target \in Nodes /\ conn[target] = "up" /\ session[target] \in Session
      /\ step \in {"WATCH", "CMD", "EXEC"} => target = server
    BY Zenon, RequestFacts
<1>3. /\ session' \in [Nodes -> Session] /\ session'[target] = x
      /\ \A m \in Nodes : m # target => session'[m] = session[m]
    BY Zenon, <1>1, <1>2, SessionUpdate
<1>4. frame' \in Frame /\ frame'.dir = "response" /\ frame'.reply = what
    BY Zenon DEF Frame
<1>5. idx = Len(commands) /\ commands \in Seq(SlotOrNone) /\ commands # <<>>
    BY <1>1, <1>2, Zenon DEF Position, ClientTypes
<1>6. what = "result" => session[target].queue = Tail(commands)
    BY <1>1, <1>2, <1>5, TailIsSubSeq, Zenon DEF OpenBlock, Acked
<1>7. what = "result" /\ config.watched /\ "WATCH" \notin Rejects =>
         session[target].watch = "intact"
    BY <1>1, <1>2, Zenon DEF WatchInv, Watched, Clean, Session, Watches
<1>8. [queue |-> session[target].queue, watch |-> session[target].watch] \in Block
    BY <1>1, <1>2, Zenon DEF Session, Block
<1>9. ClientTypes' /\ RunTypes'
    BY <1>1 DEF ClientTypes, RunTypes
<1>10. ConnTypes'
    BY Zenon, TransactionsAssumption, <1>1, <1>2, <1>3, <1>4, <1>5, <1>6, <1>7,
       <1>8 DEF ConnTypes
<1>11. NodeTypes'
  <2>1. executed' \in Seq(Block)
    <3>1. CASE what = "result"
        BY <1>1, <1>8, <3>1 DEF NodeTypes
    <3>2. CASE what # "result"
        BY <1>1, <3>2, Zenon DEF NodeTypes
    <3> QED
        BY Zenon, <3>1, <3>2
  <2> QED
      BY <1>1, <2>1, Zenon DEF NodeTypes
<1>12. Position'
    BY Zenon, TransactionsAssumption, <1>1, <1>2, <1>3, <1>4, <1>5, <1>6, <1>7,
       <1>8 DEF Position, Busy, Answered, Redirecting
<1>13. Queued'
    BY TransactionsAssumption, <1>1, <1>2, <1>3, <1>4, <1>5, <1>6, <1>7, <1>8, Zenon DEF Queued
<1>14. Wire'
    BY TransactionsAssumption, <1>1, <1>2, <1>3, <1>4, <1>5, <1>6, <1>7, <1>8, Zenon DEF Wire
<1>15. Sessions'
    BY TransactionsAssumption, <1>1, <1>2, <1>3, <1>4, <1>5, <1>6, <1>7, <1>8, Zenon DEF Sessions
<1>16. OpenBlock'
    BY Zenon, TransactionsAssumption, <1>1, <1>2, <1>3, <1>4, <1>5, <1>6, <1>7,
       <1>8 DEF OpenBlock, Clean, Acked, Answered, Busy, Position
<1>17. Settled'
    BY Zenon, TransactionsAssumption, <1>1, <1>2, <1>3, <1>4, <1>5, <1>6, <1>7,
       <1>8 DEF Settled, Answered
<1>18. WatchInv'
    BY Zenon, TransactionsAssumption, <1>1, <1>2, <1>3, <1>4, <1>5, <1>6, <1>7,
       <1>8 DEF WatchInv, Watched, Busy, Answered
<1>19. Results'
    BY TransactionsAssumption, <1>1, <1>2, <1>3, <1>4, <1>5, <1>6, <1>7,
       <1>8 DEF Results, Answered, NodeTypes
<1>20. Ran'
  <2>1. CASE what = "result"
    <3>1. \A i \in DOMAIN executed' : \/ i \in DOMAIN executed /\ executed'[i] = executed[i]
                                      \/ executed'[i] = [queue |-> session[target].queue,
                                                         watch |-> session[target].watch]
        BY <1>1, <2>1 DEF NodeTypes
    <3> QED
        BY <1>1, <1>6, <1>7, <2>1, <3>1 DEF Ran
  <2>2. CASE what # "result"
      BY <1>1, <2>2, Zenon DEF Ran
  <2> QED
      BY Zenon, <2>1, <2>2
<1>21. ClusterHome'
    BY TransactionsAssumption, <1>1, <1>2, <1>3, <1>4, <1>5, <1>6, <1>7,
       <1>8 DEF ClusterHome, AtHome, OneSlot, Busy, Redirecting, Answered
<1>22. PlainHome'
    BY Zenon, TransactionsAssumption, <1>1, <1>2, <1>3, <1>4, <1>5, <1>6, <1>7,
       <1>8 DEF PlainHome, Busy
<1>23. Restored'
    BY Zenon, TransactionsAssumption, <1>1, <1>2, <1>3, <1>4, <1>5, <1>6, <1>7,
       <1>8 DEF Restored, OneSlot
<1> QED
    BY Zenon, <1>9, <1>10, <1>11, <1>12, <1>13, <1>14, <1>15, <1>16, <1>17, <1>18, <1>19, <1>20,
       <1>21, <1>22, <1>23 DEF IInv, TypeOK

(* DISCARD ends the block. *)
LEMMA DiscardServed ==
    ASSUME IInv, frame.dir = "request", step = "DISCARD",
           NEW x \in Session, NEW what \in {"error", "discarded"},
           session' = [session EXCEPT ![target] = x],
           frame' = [dir |-> "response", reply |-> what],
           ~x.multi, ~x.dirty, x.queue = <<>>, executed' = executed,
           UNCHANGED <<clientVars, hasher, answer, pc, step, target, server, idx,
                       attempted, after, rx, reconnects, cache, conn, owner, importer,
                       lost, faults, redirect>>
    PROVE  IInv'
<1> USE DEF clientVars
<1>1. /\ ClientTypes /\ RunTypes /\ ConnTypes /\ NodeTypes /\ Position /\ Queued
      /\ Wire /\ Sessions /\ OpenBlock /\ Settled /\ WatchInv /\ Results /\ Ran
      /\ ClusterHome /\ PlainHome /\ Restored
    BY Zenon DEF IInv, TypeOK
<1>2. /\ pc = "await" /\ rx = "none" /\ frame.reply = "none" /\ ~Answered /\ Busy
      /\ target \in Nodes /\ conn[target] = "up" /\ session[target] \in Session
      /\ step \in {"WATCH", "CMD", "EXEC"} => target = server
    BY Zenon, RequestFacts
<1>3. /\ session' \in [Nodes -> Session] /\ session'[target] = x
      /\ \A m \in Nodes : m # target => session'[m] = session[m]
    BY Zenon, <1>1, <1>2, SessionUpdate
<1>4. frame' \in Frame /\ frame'.dir = "response" /\ frame'.reply = what
    BY Zenon DEF Frame
<1>5. ClientTypes' /\ RunTypes' /\ NodeTypes' /\ Ran'
    BY <1>1 DEF ClientTypes, RunTypes, NodeTypes, Ran
<1>6. ConnTypes'
    BY TransactionsAssumption, <1>1, <1>2, <1>3, <1>4, Zenon DEF ConnTypes
<1>7. Position'
    BY TransactionsAssumption, <1>1, <1>2, <1>3, <1>4, Zenon DEF Position, Busy, Answered,
       Redirecting
<1>8. Queued'
    BY TransactionsAssumption, <1>1, <1>2, <1>3, <1>4, Zenon DEF Queued
<1>9. Wire'
    BY TransactionsAssumption, <1>1, <1>2, <1>3, <1>4, Zenon DEF Wire
<1>10. Sessions'
    BY TransactionsAssumption, <1>1, <1>2, <1>3, <1>4, Zenon DEF Sessions
<1>11. OpenBlock'
    BY TransactionsAssumption, <1>1, <1>2, <1>3, <1>4, Zenon DEF OpenBlock, Clean, Acked,
       Answered, Busy
<1>12. Settled'
    BY TransactionsAssumption, <1>1, <1>2, <1>3, <1>4, Zenon DEF Settled, Answered
<1>13. WatchInv'
    BY TransactionsAssumption, <1>1, <1>2, <1>3, <1>4, Zenon DEF WatchInv, Watched, Busy,
       Answered
<1>14. Results'
    BY TransactionsAssumption, <1>1, <1>2, <1>3, <1>4, Zenon DEF Results, Answered
<1>15. ClusterHome'
    BY TransactionsAssumption, <1>1, <1>2, <1>3, <1>4 DEF ClusterHome, AtHome, OneSlot,
       Busy, Redirecting, Answered
<1>16. PlainHome'
    BY TransactionsAssumption, <1>1, <1>2, <1>3, <1>4, Zenon DEF PlainHome, Busy
<1>17. Restored'
    BY TransactionsAssumption, <1>1, <1>2, <1>3, <1>4, Zenon DEF Restored, OneSlot
<1> QED
    BY Zenon, <1>5, <1>6, <1>7, <1>8, <1>9, <1>10, <1>11, <1>12, <1>13, <1>14, <1>15, <1>16,
       <1>17 DEF IInv, TypeOK

(* What a node does with a command it does not refuse. *)
LEMMA NodeServesStep ==
    ASSUME IInv, frame.dir = "request",
           NoRedirect \in Redirections(target, SlotOnWire),
           IF step = "ASKING"
           THEN /\ frame' = [dir |-> "response", reply |-> "ok"]
                /\ session' = [session EXCEPT ![target].asking = TRUE]
           ELSE Reply(target, Served(target, session[target], SlotOnWire)[1],
                      Served(target, session[target], SlotOnWire)[2]),
           executed' = IF Served(target, session[target], SlotOnWire)[1] = "result"
                       THEN Append(executed, [queue |-> session[target].queue,
                                              watch |-> session[target].watch])
                       ELSE executed,
           UNCHANGED <<clientVars, hasher, answer, pc, step, target, server, idx,
                       attempted, after, rx, reconnects, cache, conn, owner, importer,
                       lost, faults, redirect>>
    PROVE  IInv'
<1> DEFINE ses == session[target]
           out == Served(target, ses, SlotOnWire)
           x == [out[2] EXCEPT !.asking = @ /\ out[2].multi]
<1>1. ses \in Session /\ target \in Nodes
    BY Zenon, RequestFacts
<1>2. step \in {"WATCH", "CMD", "EXEC", "DISCARD", "ASKING"} /\ idx \in Nat
    BY Zenon DEF IInv, TypeOK, RunTypes
<1>3. step # "ASKING" => /\ frame' = [dir |-> "response", reply |-> out[1]]
                         /\ session' = [session EXCEPT ![target] = x]
    BY Zenon DEF Reply
<1>4. CASE step = "ASKING"
  <2>1. out = <<"ok", ses>>
      BY <1>4, Zenon DEF Served
  <2>2. session' = [session EXCEPT ![target] = [ses EXCEPT !.asking = TRUE]]
      BY Zenon, <1>4
  <2>3. [ses EXCEPT !.asking = TRUE] \in Session
      BY <1>1, Zenon DEF Session
  <2>4. executed' = executed
      BY <2>1
  <2> HIDE DEF out, x
  <2> QED
      BY Zenon, <1>4, <2>2, <2>3, <2>4, AskingServed
<1>5. CASE step = "WATCH"
  <2>1. CASE ses.multi
    <3>1. out = <<"error", [ses EXCEPT !.dirty = TRUE]>>
        BY <1>5, <2>1, Zenon DEF Served
    <3> HIDE DEF out
    <3>2. out[1] = "error" /\ out[2] = [ses EXCEPT !.dirty = TRUE]
        BY Zenon, <3>1
    <3>3. x \in Session /\ x.multi = ses.multi /\ x.queue = ses.queue /\ x.dirty
        BY <1>1, <3>2, Zenon DEF Session
    <3> HIDE DEF x
    <3>4. executed' = executed
        BY <3>2, Zenon DEF out
    <3> QED
        BY Zenon, <1>3, <1>5, <2>1, <3>3, <3>2, <3>4, WatchServed
  <2>2. CASE ~ses.multi
    <3>1. out = <<"ok", [ses EXCEPT !.watch = IF @ = "no" THEN "intact" ELSE @]>>
        BY <1>5, <2>2, Zenon DEF Served
    <3>2. ~ses.dirty
        BY <1>1, <2>2, Zenon DEF IInv, Sessions
    <3> HIDE DEF out
    <3>3. /\ out[1] = "ok"
          /\ out[2] = [ses EXCEPT !.watch = IF ses.watch = "no" THEN "intact" ELSE ses.watch]
        BY <1>1, <3>1, Zenon DEF Session
    <3>4. /\ x \in Session /\ x.multi = ses.multi /\ x.queue = ses.queue /\ ~x.dirty
          /\ x.watch # "no"
        BY <1>1, <3>2, <3>3, Zenon DEF Session, Watches
    <3> HIDE DEF x
    <3>5. executed' = executed
        BY <3>3, Zenon DEF out
    <3> QED
        BY Zenon, <1>3, <1>5, <2>2, <3>4, <3>3, <3>5, WatchServed
  <2> QED
      BY Zenon, <2>1, <2>2
<1>6. CASE step = "CMD" /\ idx = 0
  <2>1. out = IF ses.multi THEN <<"error", ses>> ELSE <<"ok", [ses EXCEPT !.multi = TRUE]>>
      BY <1>6 DEF Served
  <2> HIDE DEF out
  <2>2. /\ out[1] \in {"ok", "error"}
        /\ ses.multi => out[1] = "error" /\ out[2] = ses
        /\ ~ses.multi => out[1] = "ok" /\ out[2] = [ses EXCEPT !.multi = TRUE]
      BY Zenon, <2>1
  <2>3. /\ x \in Session /\ x.multi /\ x.dirty = ses.dirty
        /\ x.watch = ses.watch /\ x.queue = ses.queue
      BY <1>1, <2>2, Zenon DEF Session
  <2> HIDE DEF x
  <2>4. executed' = executed
      BY <2>2, Zenon DEF out
  <2> QED
      BY Zenon, <1>3, <1>6, <2>3, <2>2, <2>4, MultiServed
<1>7. CASE step = "CMD" /\ idx > 0
  <2>1. SlotOnWire = commands[idx + 1]
      BY <1>7, Zenon DEF SlotOnWire
  <2>2. commands[idx + 1] \in SlotOrNone
      BY <1>2, <1>7, RequestFacts DEF IInv, Position, TypeOK, ClientTypes
  <2>3. out = <<"ok", IF ses.multi /\ ~ses.dirty
                      THEN [ses EXCEPT !.queue = Append(@, SlotOnWire)] ELSE ses>>
      BY Zenon, <1>2, <1>7, ServedCommand
  <2> HIDE DEF out
  <2>4. /\ out[1] = "ok"
        /\ ses.multi /\ ~ses.dirty =>
               out[2] = [ses EXCEPT !.queue = Append(ses.queue, commands[idx + 1])]
        /\ ~(ses.multi /\ ~ses.dirty) => out[2] = ses
      BY <1>1, <2>1, <2>3, Zenon DEF Session
  <2>5. /\ x \in Session /\ x.multi = ses.multi /\ x.dirty = ses.dirty /\ x.watch = ses.watch
        /\ x.multi /\ ~x.dirty => x.queue = Append(ses.queue, commands[idx + 1])
        /\ ~(x.multi /\ ~x.dirty) => x.queue = ses.queue
    <3>1. CASE ses.multi /\ ~ses.dirty
      <4> HIDE DEF x
      <4>1. out[2] = [ses EXCEPT !.queue = Append(ses.queue, commands[idx + 1])]
          BY Zenon, <2>4, <3>1
      <4> HIDE DEF ses
      <4>2. /\ out[2] \in Session /\ out[2].multi = ses.multi /\ out[2].dirty = ses.dirty
            /\ out[2].watch = ses.watch /\ out[2].queue = Append(ses.queue, commands[idx + 1])
          BY <1>1, <2>2, <4>1, QueueAppended
      <4>3. /\ x \in Session /\ x.multi = out[2].multi /\ x.dirty = out[2].dirty
            /\ x.watch = out[2].watch /\ x.queue = out[2].queue
          BY <4>2, AskingCleared, Zenon DEF x
      <4> QED
          BY Zenon, <3>1, <4>2, <4>3
    <3>2. CASE ~(ses.multi /\ ~ses.dirty)
        BY <1>1, <2>4, <3>2, AskingCleared
    <3> QED
        BY Zenon, <3>1, <3>2
  <2> HIDE DEF x
  <2>6. executed' = executed
      BY <2>4, Zenon DEF out
  <2> QED
      BY Zenon, <1>3, <1>7, <2>5, <2>4, <2>6, CommandServed
<1>8. CASE step = "EXEC"
  <2>1. out = <<IF ~ses.multi \/ ses.dirty THEN "error"
                ELSE IF ses.watch = "touched" THEN "nil"
                ELSE IF Runnable(target, ses.queue) THEN "result" ELSE "error", NoSession>>
      BY <1>8, Zenon DEF Served
  <2> HIDE DEF out
  <2>2. out[2] = NoSession
      BY Zenon, <2>1
  <2>3. x \in Session /\ ~x.multi /\ ~x.dirty /\ x.queue = <<>>
      BY <2>2, NoSessionFacts, AskingCleared
  <2> HIDE DEF x
  <2>4. /\ out[1] \in {"error", "nil", "result"}
        /\ out[1] = "result" => Clean(target) /\ ses.watch # "touched"
      BY <2>1, Zenon DEF Clean
  <2>5. /\ out[1] = "result" =>
               executed' = Append(executed, [queue |-> ses.queue, watch |-> ses.watch])
        /\ out[1] # "result" => executed' = executed
      BY Zenon DEF out
  <2> QED
      BY Zenon, <1>3, <1>8, <2>3, <2>4, <2>5, ExecServed
<1>9. CASE step = "DISCARD"
  <2>1. out = <<IF ses.multi THEN "discarded" ELSE "error", NoSession>>
      BY <1>9, Zenon DEF Served
  <2> HIDE DEF out
  <2>2. out[2] = NoSession
      BY Zenon, <2>1
  <2>3. x \in Session /\ ~x.multi /\ ~x.dirty /\ x.queue = <<>>
      BY <2>2, NoSessionFacts, AskingCleared
  <2> HIDE DEF x
  <2>4. out[1] \in {"error", "discarded"}
      BY Zenon, <2>1
  <2>5. executed' = executed
      BY <2>4, Zenon DEF out
  <2> QED
      BY Zenon, <1>3, <1>9, <2>3, <2>4, <2>5, DiscardServed
<1> QED
    BY <1>2, <1>4, <1>5, <1>6, <1>7, <1>8, <1>9

(* The answer of a node. *)
LEMMA NodeAnswersStep ==
    ASSUME IInv, NodeAnswers
    PROVE  IInv'
<1>1. PICK r \in Redirections(target, SlotOnWire) :
         IF r = NoRedirect
         THEN LET ses == session[target]
                  out == Served(target, ses, SlotOnWire)
              IN  /\ IF step = "ASKING"
                     THEN /\ frame' = [dir |-> "response", reply |-> "ok"]
                          /\ session' = [session EXCEPT ![target].asking = TRUE]
                     ELSE Reply(target, out[1], out[2])
                  /\ executed' = IF out[1] = "result"
                                 THEN Append(executed, [queue |-> ses.queue, watch |-> ses.watch])
                                 ELSE executed
                  /\ UNCHANGED redirect
         ELSE /\ redirect' = r
              /\ Reply(target, r.kind, [session[target] EXCEPT !.dirty = session[target].multi])
              /\ UNCHANGED executed
    BY Zenon DEF NodeAnswers
<1>2. frame.dir = "request"
    BY Zenon DEF NodeAnswers
<1>3. UNCHANGED <<clientVars, hasher, answer, pc, step, target, server, idx,
                  attempted, after, rx, reconnects, cache, conn, owner, importer,
                  lost, faults>>
    BY Zenon DEF NodeAnswers
<1>4. CASE r = NoRedirect
    BY Zenon, <1>1, <1>2, <1>3, <1>4, NodeServesStep
<1>5. CASE r # NoRedirect
  <2>1. UNCHANGED nodeVars
      BY <1>1, <1>3, <1>5, Zenon DEF nodeVars
  <2> QED
      BY Zenon, <1>1, <1>2, <1>3, <1>5, <2>1, NodeRedirectsStep
<1> QED
    BY Zenon, <1>4, <1>5

(* The node rejects the command with an error of its own. *)
LEMMA NodeRejectsStep ==
    ASSUME IInv, NodeRejects
    PROVE  IInv'
<1> USE DEF clientVars, runVars
<1>1. /\ ClientTypes /\ RunTypes /\ ConnTypes /\ NodeTypes /\ Position /\ Queued
      /\ Wire /\ Sessions /\ OpenBlock /\ Settled /\ WatchInv /\ Results /\ Ran
      /\ ClusterHome /\ PlainHome /\ Restored
    BY Zenon DEF IInv, TypeOK
<1>2. /\ frame.dir = "request"
      /\ UNCHANGED <<clientVars, runVars, cache, conn, owner, importer, executed, lost>>
    BY Zenon DEF NodeRejects
<1>3. /\ pc = "await" /\ rx = "none" /\ frame.reply = "none" /\ ~Answered /\ Busy
      /\ target \in Nodes /\ conn[target] = "up"
      /\ step \in {"WATCH", "CMD", "EXEC"} => target = server
    BY Zenon, <1>2, RequestFacts
<1>4. /\ session' \in [Nodes -> Session]
      /\ \A m \in Nodes : m # target => session'[m] = session[m]
      /\ session'[target].multi = session[target].multi
      /\ session'[target].dirty = session[target].multi
      /\ session'[target].watch = session[target].watch
      /\ session'[target].queue = session[target].queue
      /\ frame' = [dir |-> "response", reply |-> "error"]
    BY <1>2, SpoiledFacts, Zenon DEF NodeRejects
<1>5. frame' \in Frame /\ frame'.dir = "response" /\ frame'.reply = "error"
    BY <1>4, Zenon DEF Frame
<1>6. /\ step \in {"WATCH", "CMD"} /\ (step = "WATCH" => "WATCH" \in Rejects)
      /\ faults' = faults + 1
    BY TransactionsAssumption, <1>1, Zenon DEF NodeRejects, RunTypes
<1>7. ClientTypes' /\ RunTypes' /\ Ran'
    BY <1>1, <1>2 DEF ClientTypes, RunTypes, Ran
<1>8. ConnTypes'
    BY TransactionsAssumption, <1>1, <1>2, <1>3, <1>4, <1>5, <1>6, Zenon DEF ConnTypes
<1>9. NodeTypes'
    BY TransactionsAssumption, <1>1, <1>2, <1>3, <1>4, <1>5, <1>6 DEF NodeTypes
<1>10. Position'
    BY TransactionsAssumption, <1>1, <1>2, <1>3, <1>4, <1>5, <1>6, Zenon DEF Position, Busy,
       Answered, Redirecting
<1>11. Queued'
    BY TransactionsAssumption, <1>1, <1>2, <1>3, <1>4, <1>5, <1>6, Zenon DEF Queued
<1>12. Wire'
    BY TransactionsAssumption, <1>1, <1>2, <1>3, <1>4, <1>5, <1>6, Zenon DEF Wire
<1>13. Sessions'
    BY TransactionsAssumption, <1>1, <1>2, <1>3, <1>4, <1>5, <1>6, Zenon DEF Sessions
<1>14. OpenBlock'
    BY TransactionsAssumption, <1>1, <1>2, <1>3, <1>4, <1>5, <1>6, Zenon DEF OpenBlock, Clean,
       Acked, Answered, Busy, Position
<1>15. Settled'
    BY TransactionsAssumption, <1>1, <1>2, <1>3, <1>4, <1>5, <1>6, Zenon DEF Settled, Answered
<1>16. WatchInv'
    BY TransactionsAssumption, <1>1, <1>2, <1>3, <1>4, <1>5, <1>6 DEF WatchInv, Watched,
       Busy, Answered, Sessions
<1>17. Results'
    BY TransactionsAssumption, <1>1, <1>2, <1>3, <1>4, <1>5, <1>6, Zenon DEF Results, Answered
<1>18. ClusterHome'
    BY TransactionsAssumption, <1>1, <1>2, <1>3, <1>4, <1>5, <1>6 DEF ClusterHome,
       AtHome, OneSlot, Busy, Redirecting, Answered
<1>19. PlainHome'
    BY TransactionsAssumption, <1>1, <1>2, <1>3, <1>4, <1>5, <1>6, Zenon DEF PlainHome, Busy
<1>20. Restored'
    BY TransactionsAssumption, <1>1, <1>2, <1>3, <1>4, <1>5, <1>6, Zenon DEF Restored, OneSlot
<1> QED
    BY Zenon, <1>7, <1>8, <1>9, <1>10, <1>11, <1>12, <1>13, <1>14, <1>15, <1>16, <1>17, <1>18,
       <1>19, <1>20 DEF IInv, TypeOK


-----------------------------------------------------------------------------
(* The initial states, and a step that changes nothing.                    *)

(* The initial states. *)
LEMMA InitInv ==
    ASSUME Init
    PROVE  IInv
<1> USE TransactionsAssumption, NoSessionFacts, NoFrameFacts, PrimaryIsNode DEF Init
<1>1. config \in Config /\ owner \in [Slots -> Nodes]
  <2>1. config \in Config
      OBVIOUS
  <2>2. owner \in [Slots -> Nodes] \cup [Slots -> {Primary}]
      OBVIOUS
  <2> QED
      BY Zenon, <2>1, <2>2
<1>2. commands = <<None>> /\ commands \in Seq(SlotOrNone) /\ commands # <<>>
    BY DEF SlotOrNone
<1>3. ~Busy /\ ~Answered /\ ~Redirecting
    BY Zenon DEF Busy, Answered, Redirecting
<1>4. TypeOK
    BY <1>1, <1>2 DEF TypeOK, ClientTypes, RunTypes, ConnTypes, NodeTypes, SlotOrNone,
       NodeOrNone
<1>5. Position /\ Queued /\ Wire /\ Settled
    BY <1>3, Zenon DEF Position, Queued, Wire, Settled
<1>6. Sessions /\ OpenBlock /\ PlainHome /\ Restored
    BY <1>3, Zenon DEF Sessions, OpenBlock, Clean, PlainHome, Restored
<1>7. WatchInv /\ Results /\ Ran
    BY <1>3 DEF WatchInv, Watched, Results, Ran
<1>8. ClusterHome
    BY <1>3, Zenon DEF ClusterHome, AtHome
<1> QED
    BY <1>4, <1>5, <1>6, <1>7, <1>8, Zenon DEF IInv

(* A step of something else changes nothing. *)
LEMMA StutterInv ==
    ASSUME IInv, UNCHANGED vars
    PROVE  IInv'
<1> USE DEF vars, clientVars, runVars, connVars, nodeVars
<1>1. /\ ClientTypes /\ RunTypes /\ ConnTypes /\ NodeTypes /\ Position /\ Queued
      /\ Wire /\ Sessions /\ OpenBlock /\ Settled /\ WatchInv /\ Results /\ Ran
      /\ ClusterHome /\ PlainHome /\ Restored
    BY Zenon DEF IInv, TypeOK
<1>2. /\ ClientTypes' /\ RunTypes' /\ ConnTypes' /\ NodeTypes' /\ Position' /\ Queued'
      /\ Wire' /\ Sessions' /\ OpenBlock' /\ Settled' /\ WatchInv'
    BY <1>1 DEF ClientTypes, RunTypes, ConnTypes, NodeTypes, Position, Busy, Answered,
       Redirecting, Queued, Wire, Sessions, OpenBlock, Clean, Acked, Settled, WatchInv,
       Watched
<1>3. Results' /\ Ran' /\ ClusterHome' /\ PlainHome' /\ Restored'
    BY <1>1, Zenon DEF Results, Answered, Ran, ClusterHome, AtHome, OneSlot, Busy, Redirecting,
       PlainHome, Restored
<1> QED
    BY <1>2, <1>3, Zenon DEF IInv, TypeOK

-----------------------------------------------------------------------------
(* The client, the connections and the cluster.                            *)

(* The caller gives up. *)
LEMMA CallerTimeoutStep ==
    ASSUME IInv, CallerTimeout
    PROVE  IInv'
<1> USE DEF clientVars, runVars, connVars, nodeVars
<1>1. /\ ClientTypes /\ RunTypes /\ ConnTypes /\ NodeTypes /\ Position /\ Queued
      /\ Wire /\ Sessions /\ OpenBlock /\ Settled /\ WatchInv /\ Results /\ Ran
      /\ ClusterHome /\ PlainHome /\ Restored
    BY Zenon DEF IInv, TypeOK
<1>2. /\ ClientTypes' /\ ConnTypes' /\ NodeTypes' /\ Position' /\ Wire' /\ Sessions'
      /\ OpenBlock' /\ Settled' /\ WatchInv' /\ Ran' /\ ClusterHome' /\ PlainHome'
      /\ Restored'
    BY <1>1 DEF CallerTimeout, ClientTypes, ConnTypes, NodeTypes, Position, Busy,
       Answered, Redirecting, Wire, Sessions, OpenBlock, Clean, Acked, Settled, WatchInv,
       Watched, Ran, ClusterHome, AtHome, OneSlot, PlainHome, Restored
<1>3. RunTypes'
    BY <1>1 DEF CallerTimeout, RunTypes
<1>4. Queued'
    BY <1>1, Zenon DEF CallerTimeout, Queued
<1>5. Results'
    BY <1>1, Zenon DEF CallerTimeout, Results, Answered
<1> QED
    BY <1>2, <1>3, <1>4, <1>5, Zenon DEF IInv, TypeOK

(* A reader task ends. *)
LEMMA ReaderEndsStep ==
    ASSUME IInv, NEW n \in Nodes, ReaderEnds(n)
    PROVE  IInv'
<1> USE DEF clientVars, runVars, connVars, nodeVars
<1>1. /\ ClientTypes /\ RunTypes /\ ConnTypes /\ NodeTypes /\ Position /\ Queued
      /\ Wire /\ Sessions /\ OpenBlock /\ Settled /\ WatchInv /\ Results /\ Ran
      /\ ClusterHome /\ PlainHome /\ Restored
    BY Zenon DEF IInv, TypeOK
<1>2. /\ ClientTypes' /\ RunTypes' /\ NodeTypes' /\ Position' /\ Queued' /\ OpenBlock'
      /\ Settled' /\ Results' /\ Ran' /\ ClusterHome' /\ PlainHome' /\ Restored'
    BY <1>1 DEF ReaderEnds, ClientTypes, RunTypes, NodeTypes, Position, Busy, Answered,
       Redirecting, Queued, OpenBlock, Clean, Acked, Settled, Results, Ran, ClusterHome,
       AtHome, OneSlot, PlainHome, Restored
<1>3. ConnTypes'
    BY <1>1, Zenon DEF ReaderEnds, ConnTypes
<1>4. Wire'
    BY <1>1 DEF ReaderEnds, Wire, ConnTypes
<1>5. Sessions'
    BY <1>1, Zenon DEF ReaderEnds, Sessions, ConnTypes
<1>6. WatchInv'
    BY <1>1 DEF ReaderEnds, WatchInv, Watched, Busy, Answered, ConnTypes
<1> QED
    BY <1>2, <1>3, <1>4, <1>5, <1>6, Zenon DEF IInv, TypeOK

(* Another client writes a watched key. *)
LEMMA WatchedKeyTouchedStep ==
    ASSUME IInv, NEW n \in Nodes, WatchedKeyTouched(n)
    PROVE  IInv'
<1> USE NoSessionFacts DEF clientVars, runVars, connVars, nodeVars
<1>1. /\ ClientTypes /\ RunTypes /\ ConnTypes /\ NodeTypes /\ Position /\ Queued
      /\ Wire /\ Sessions /\ OpenBlock /\ Settled /\ WatchInv /\ Results /\ Ran
      /\ ClusterHome /\ PlainHome /\ Restored
    BY Zenon DEF IInv, TypeOK
<1>2. session[n] # NoSession
    BY <1>1, Zenon DEF WatchedKeyTouched
<1>3. [session[n] EXCEPT !.watch = "touched"] \in Session
    BY <1>1, Zenon DEF ConnTypes, Session, Watches
<1>4. session' = [session EXCEPT ![n] = [session[n] EXCEPT !.watch = "touched"]]
    BY <1>1, Zenon DEF WatchedKeyTouched
<1>5. /\ session' \in [Nodes -> Session]
      /\ session'[n] = [session[n] EXCEPT !.watch = "touched"]
      /\ \A m \in Nodes : m # n => session'[m] = session[m]
    BY Zenon, <1>1, <1>3, <1>4, SessionUpdate
<1>6. UNCHANGED <<clientVars, runVars, cache, conn, frame, nodeVars>>
    BY <1>1, Zenon DEF WatchedKeyTouched
<1>7. session[n] \in Session
    BY <1>1, Zenon DEF ConnTypes
<1>8. ClientTypes' /\ RunTypes' /\ NodeTypes' /\ Position' /\ Wire' /\ Results' /\ Ran'
    BY <1>1 DEF WatchedKeyTouched, ClientTypes, RunTypes, NodeTypes, Position, Busy,
       Answered, Redirecting, Wire, Results, Ran
<1>9. ConnTypes'
    BY <1>1, <1>2, <1>3, <1>4, <1>5, <1>6, <1>7, Zenon DEF WatchedKeyTouched, ConnTypes, Session
<1>10. Queued'
    BY <1>1, <1>2, <1>3, <1>4, <1>5, <1>6, <1>7, Zenon DEF WatchedKeyTouched, Queued, ConnTypes,
       Session
<1>11. Sessions'
    BY <1>1, <1>2, <1>3, <1>4, <1>5, <1>6, <1>7 DEF WatchedKeyTouched, Sessions,
       ConnTypes, Session
<1>12. OpenBlock'
    BY <1>1, <1>2, <1>3, <1>4, <1>5, <1>6, <1>7 DEF WatchedKeyTouched, OpenBlock, Clean,
       Acked, Answered, Busy, ConnTypes, Session
<1>13. Settled'
    BY <1>1, <1>2, <1>3, <1>4, <1>5, <1>6, <1>7 DEF WatchedKeyTouched, Settled, Answered,
       ConnTypes, Session
<1>14. WatchInv'
    BY <1>1, <1>2, <1>3, <1>4, <1>5, <1>6, <1>7 DEF WatchedKeyTouched, WatchInv, Watched,
       Busy, Answered, ConnTypes, Session
<1>15. ClusterHome'
    BY <1>1, <1>2, <1>3, <1>4, <1>5, <1>6, <1>7 DEF WatchedKeyTouched, ClusterHome,
       AtHome, OneSlot, Busy, Redirecting, Answered, ConnTypes, Session
<1>16. PlainHome'
    BY <1>1, <1>2, <1>3, <1>4, <1>5, <1>6, <1>7, Zenon DEF WatchedKeyTouched, PlainHome, Busy,
       ConnTypes, Session
<1>17. Restored'
    BY <1>1, <1>2, <1>3, <1>4, <1>5, <1>6, <1>7, Zenon DEF WatchedKeyTouched, Restored, OneSlot,
       ConnTypes, Session
<1> QED
    BY <1>8, <1>9, <1>10, <1>11, <1>12, <1>13, <1>14, <1>15, <1>16, <1>17, Zenon DEF IInv, TypeOK

(* A slot starts to migrate. *)
LEMMA MigrationStartsStep ==
    ASSUME IInv, NEW s \in Slots, NEW n \in Nodes, MigrationStarts(s, n)
    PROVE  IInv'
<1> USE DEF clientVars, runVars, connVars, nodeVars
<1>1. /\ ClientTypes /\ RunTypes /\ ConnTypes /\ NodeTypes /\ Position /\ Queued
      /\ Wire /\ Sessions /\ OpenBlock /\ Settled /\ WatchInv /\ Results /\ Ran
      /\ ClusterHome /\ PlainHome /\ Restored
    BY Zenon DEF IInv, TypeOK
<1>2. /\ ClientTypes' /\ RunTypes' /\ ConnTypes' /\ Position' /\ Queued' /\ Wire'
      /\ Sessions' /\ OpenBlock' /\ Settled' /\ WatchInv' /\ Results' /\ Ran'
      /\ ClusterHome' /\ PlainHome' /\ Restored'
    BY <1>1 DEF MigrationStarts, ClientTypes, RunTypes, ConnTypes, Position, Busy,
       Answered, Redirecting, Queued, Wire, Sessions, OpenBlock, Clean, Acked, Settled,
       WatchInv, Watched, Results, Ran, ClusterHome, AtHome, OneSlot, PlainHome,
       Restored
<1>3. NodeTypes'
    BY <1>1 DEF MigrationStarts, NodeOrNone, NodeTypes
<1> QED
    BY <1>2, <1>3, Zenon DEF IInv, TypeOK

(* A migration ends. *)
LEMMA MigrationEndsStep ==
    ASSUME IInv, NEW s \in Slots, MigrationEnds(s)
    PROVE  IInv'
<1> USE DEF clientVars, runVars, connVars, nodeVars
<1>1. /\ ClientTypes /\ RunTypes /\ ConnTypes /\ NodeTypes /\ Position /\ Queued
      /\ Wire /\ Sessions /\ OpenBlock /\ Settled /\ WatchInv /\ Results /\ Ran
      /\ ClusterHome /\ PlainHome /\ Restored
    BY Zenon DEF IInv, TypeOK
<1>2. /\ ClientTypes' /\ RunTypes' /\ ConnTypes' /\ Position' /\ Queued' /\ Wire'
      /\ Sessions' /\ OpenBlock' /\ Settled' /\ WatchInv' /\ Results' /\ Ran'
      /\ ClusterHome' /\ PlainHome' /\ Restored'
    BY <1>1 DEF MigrationEnds, ClientTypes, RunTypes, ConnTypes, Position, Busy,
       Answered, Redirecting, Queued, Wire, Sessions, OpenBlock, Clean, Acked, Settled,
       WatchInv, Watched, Results, Ran, ClusterHome, AtHome, OneSlot, PlainHome,
       Restored
<1>3. NodeTypes'
    BY <1>1, Zenon DEF MigrationEnds, NodeOrNone, NodeTypes
<1> QED
    BY <1>2, <1>3, Zenon DEF IInv, TypeOK

(* Transaction::send_command queues a command. *)
LEMMA QueueCommandStep ==
    ASSUME IInv, NEW s \in SlotOrNone, QueueCommand(s)
    PROVE  IInv'
<1> USE DEF clientVars, runVars, connVars, nodeVars
<1>1. /\ ClientTypes /\ RunTypes /\ ConnTypes /\ NodeTypes /\ Position /\ Queued
      /\ Wire /\ Sessions /\ OpenBlock /\ Settled /\ WatchInv /\ Results /\ Ran
      /\ ClusterHome /\ PlainHome /\ Restored
    BY Zenon DEF IInv, TypeOK
<1>2. \A t \in Slots : OneSlot(t)' => OneSlot(t) /\ s \in {t, None}
    BY <1>1 DEF QueueCommand, OneSlot, ClientTypes, SlotOrNone
<1>3. RunTypes' /\ ConnTypes' /\ NodeTypes' /\ Queued' /\ Wire'
    BY <1>1 DEF QueueCommand, RunTypes, ConnTypes, NodeTypes, Queued, Wire
<1>4. Sessions' /\ Settled' /\ WatchInv' /\ Results' /\ PlainHome'
    BY <1>1, Zenon DEF QueueCommand, Sessions, Settled, Answered, WatchInv, Watched, Busy,
       Results, PlainHome
<1>5. ClientTypes'
    BY <1>1, <1>2 DEF QueueCommand, SlotOrNone, ClientTypes
<1>6. Position'
    BY <1>1, <1>2, Zenon DEF QueueCommand, SlotOrNone, Position, Busy, Answered, Redirecting
<1>7. OpenBlock'
    BY <1>1, <1>2, Zenon DEF QueueCommand, SlotOrNone, OpenBlock, Clean, Acked, Answered, Busy
<1>8. Ran'
    BY <1>1, <1>2 DEF QueueCommand, SlotOrNone, Ran, Queued
<1>9. ClusterHome'
    BY <1>1, <1>2, Zenon DEF QueueCommand, SlotOrNone, ClusterHome, AtHome, OneSlot, Busy,
       Redirecting, Answered, Queued
<1>10. Restored'
    BY <1>1, <1>2, Zenon DEF QueueCommand, SlotOrNone, Restored, OneSlot
<1> QED
    BY <1>3, <1>4, <1>5, <1>6, <1>7, <1>8, <1>9, <1>10, Zenon DEF IInv, TypeOK

(* Transaction::exec hands the block to the router. *)
LEMMA ExecStep ==
    ASSUME IInv, Exec
    PROVE  IInv'
<1> USE DEF clientVars, runVars, connVars, nodeVars
<1>1. /\ ClientTypes /\ RunTypes /\ ConnTypes /\ NodeTypes /\ Position /\ Queued
      /\ Wire /\ Sessions /\ OpenBlock /\ Settled /\ WatchInv /\ Results /\ Ran
      /\ ClusterHome /\ PlainHome /\ Restored
    BY Zenon DEF IInv, TypeOK
<1>2. ClientTypes' /\ ConnTypes' /\ NodeTypes' /\ Sessions' /\ Ran'
    BY <1>1, Zenon DEF Exec, ClientTypes, ConnTypes, NodeTypes, Sessions, Ran
<1>3. RunTypes'
    BY <1>1, Zenon DEF Exec, SlotOrNone, RunTypes, ClientTypes
<1>4. Position'
    BY <1>1, Zenon DEF Exec, SlotOrNone, Position, Busy, Answered, Redirecting
<1>5. Queued'
    BY <1>1, Zenon DEF Exec, SlotOrNone, Queued
<1>6. Wire'
    BY <1>1, Zenon DEF Exec, SlotOrNone, Wire
<1>7. OpenBlock'
    BY <1>1, Zenon DEF Exec, SlotOrNone, OpenBlock, Clean, Acked, Answered, Busy
<1>8. Settled'
    BY <1>1, Zenon DEF Exec, SlotOrNone, Settled, Answered
<1>9. WatchInv'
    BY <1>1, Zenon DEF Exec, SlotOrNone, WatchInv, Watched, Busy, Answered
<1>10. Results'
    BY <1>1, Zenon DEF Exec, SlotOrNone, Results, Answered
<1>11. ClusterHome'
    BY <1>1, Zenon DEF Exec, SlotOrNone, ClusterHome, AtHome, OneSlot, Busy, Redirecting,
       Answered, Queued
<1>12. PlainHome'
    BY <1>1, Zenon DEF Exec, SlotOrNone, PlainHome, Busy
<1>13. Restored'
    BY <1>1, Zenon DEF Exec, SlotOrNone, Restored, OneSlot
<1> QED
    BY Zenon, <1>2, <1>3, <1>4, <1>5, <1>6, <1>7, <1>8, <1>9, <1>10, <1>11, <1>12,
       <1>13 DEF IInv, TypeOK

-----------------------------------------------------------------------------
(* transactions::run.                                                      *)

(* An attempt starts at the first command. *)
LEMMA StartAttemptStep ==
    ASSUME IInv, StartAttempt
    PROVE  IInv'
<1> USE TransactionsAssumption DEF clientVars, runVars, connVars, nodeVars
<1>1. /\ ClientTypes /\ RunTypes /\ ConnTypes /\ NodeTypes /\ Position /\ Queued
      /\ Wire /\ Sessions /\ OpenBlock /\ Settled /\ WatchInv /\ Results /\ Ran
      /\ ClusterHome /\ PlainHome /\ Restored
    BY Zenon DEF IInv, TypeOK
<1>2. Primary \in Nodes
    BY Zenon, <1>1, PrimaryIsNode
<1>3. ClientTypes' /\ ConnTypes' /\ NodeTypes' /\ Sessions' /\ Ran'
    BY <1>1, Zenon DEF StartAttempt, ClientTypes, ConnTypes, NodeTypes, Sessions, Ran
<1>4. RunTypes'
    BY <1>1, <1>2 DEF StartAttempt, FindConnection, Write, FirstStep, SlotOrNone,
       NodeOrNone, RunTypes, ClientTypes, ConnTypes
<1>5. Position'
    BY <1>1, <1>2 DEF StartAttempt, FindConnection, Write, FirstStep, SlotOrNone,
       NodeOrNone, Position, Busy, Answered, Redirecting, ClientTypes, RunTypes,
       ConnTypes
<1>6. Queued'
    BY <1>1, <1>2, Zenon DEF StartAttempt, FindConnection, Write, FirstStep, SlotOrNone,
       NodeOrNone, Queued, ClientTypes, RunTypes, ConnTypes
<1>7. Wire'
    BY <1>1, <1>2, Zenon DEF StartAttempt, FindConnection, Write, FirstStep, SlotOrNone,
       NodeOrNone, Wire, ClientTypes, RunTypes, ConnTypes
<1>8. OpenBlock'
    BY <1>1, <1>2, Zenon DEF StartAttempt, FindConnection, Write, FirstStep, SlotOrNone,
       NodeOrNone, OpenBlock, Clean, Acked, Answered, Busy, ClientTypes, RunTypes,
       ConnTypes
<1>9. Settled'
    BY <1>1, <1>2, Zenon DEF StartAttempt, FindConnection, Write, FirstStep, SlotOrNone,
       NodeOrNone, Settled, Answered, ClientTypes, RunTypes, ConnTypes
<1>10. WatchInv'
    BY <1>1, <1>2, Zenon DEF StartAttempt, FindConnection, Write, FirstStep, SlotOrNone,
       NodeOrNone, WatchInv, Watched, Busy, Answered, ClientTypes, RunTypes, ConnTypes
<1>11. Results'
    BY <1>1, <1>2, Zenon DEF StartAttempt, FindConnection, Write, FirstStep, SlotOrNone,
       NodeOrNone, Results, Answered, ClientTypes, RunTypes, ConnTypes
<1>12. ClusterHome'
    BY <1>1, <1>2 DEF StartAttempt, FindConnection, Write, FirstStep, SlotOrNone,
       NodeOrNone, ClusterHome, AtHome, OneSlot, Busy, Redirecting, Answered,
       ClientTypes, RunTypes, ConnTypes
<1>13. PlainHome'
    BY <1>1, <1>2, Zenon DEF StartAttempt, FindConnection, Write, FirstStep, SlotOrNone,
       NodeOrNone, PlainHome, Busy, ClientTypes, RunTypes, ConnTypes
<1>14. Restored'
    BY <1>1, <1>2, Zenon DEF StartAttempt, FindConnection, Write, FirstStep, SlotOrNone,
       NodeOrNone, Restored, OneSlot, ClientTypes, RunTypes, ConnTypes
<1> QED
    BY Zenon, <1>3, <1>4, <1>5, <1>6, <1>7, <1>8, <1>9, <1>10, <1>11, <1>12, <1>13,
       <1>14 DEF IInv, TypeOK

(* The next command, or EXEC. *)
LEMMA OnContinueStep ==
    ASSUME IInv, OnContinue
    PROVE  IInv'
<1> USE DEF clientVars, runVars, connVars, nodeVars
<1>1. /\ ClientTypes /\ RunTypes /\ ConnTypes /\ NodeTypes /\ Position /\ Queued
      /\ Wire /\ Sessions /\ OpenBlock /\ Settled /\ WatchInv /\ Results /\ Ran
      /\ ClusterHome /\ PlainHome /\ Restored
    BY Zenon DEF IInv, TypeOK
<1>2. ClientTypes' /\ ConnTypes' /\ NodeTypes' /\ Sessions' /\ Ran'
    BY <1>1, Zenon DEF OnContinue, ClientTypes, ConnTypes, NodeTypes, Sessions, Ran
<1>3. RunTypes'
    BY <1>1 DEF OnContinue, Write, NodeOrNone, RunTypes
<1>4. Position'
    BY <1>1 DEF OnContinue, Write, NodeOrNone, Position, Busy, Answered, Redirecting,
       ClientTypes, RunTypes
<1>5. Queued'
    BY <1>1, Zenon DEF OnContinue, Write, NodeOrNone, Queued
<1>6. Wire'
    BY <1>1, Zenon DEF OnContinue, Write, NodeOrNone, Wire
<1>7. OpenBlock'
    BY <1>1, Zenon DEF OnContinue, Write, NodeOrNone, OpenBlock, Clean, Acked, Answered, Busy
<1>8. Settled'
    BY <1>1, Zenon DEF OnContinue, Write, NodeOrNone, Settled, Answered
<1>9. WatchInv'
    BY <1>1, Zenon DEF OnContinue, Write, NodeOrNone, WatchInv, Watched, Busy, Answered, Wire
<1>10. Results'
    BY <1>1, Zenon DEF OnContinue, Write, NodeOrNone, Results, Answered
<1>11. ClusterHome'
    BY <1>1, Zenon DEF OnContinue, Write, NodeOrNone, ClusterHome, AtHome, OneSlot, Busy,
       Redirecting, Answered
<1>12. PlainHome'
    BY <1>1, Zenon DEF OnContinue, Write, NodeOrNone, PlainHome, Busy
<1>13. Restored'
    BY <1>1, Zenon DEF OnContinue, Write, NodeOrNone, Restored, OneSlot
<1> QED
    BY Zenon, <1>2, <1>3, <1>4, <1>5, <1>6, <1>7, <1>8, <1>9, <1>10, <1>11, <1>12,
       <1>13 DEF IInv, TypeOK

(* The connection was lost, so the session of the attempt is gone. *)
LEMMA OnRetryStep ==
    ASSUME IInv, OnRetry
    PROVE  IInv'
<1> USE NoSessionFacts DEF clientVars, runVars, connVars, nodeVars
<1>1. /\ ClientTypes /\ RunTypes /\ ConnTypes /\ NodeTypes /\ Position /\ Queued
      /\ Wire /\ Sessions /\ OpenBlock /\ Settled /\ WatchInv /\ Results /\ Ran
      /\ ClusterHome /\ PlainHome /\ Restored
    BY Zenon DEF IInv, TypeOK
<1>2. ClientTypes' /\ ConnTypes' /\ NodeTypes' /\ Sessions' /\ Ran'
    BY <1>1, Zenon DEF OnRetry, ClientTypes, ConnTypes, NodeTypes, Sessions, Ran
<1>3. RunTypes'
    BY <1>1, Zenon DEF OnRetry, Write, Respond, NodeOrNone, RunTypes
<1>4. Position'
    BY <1>1, Zenon DEF OnRetry, Write, Respond, NodeOrNone, Position, Busy, Answered, Redirecting
<1>5. Queued'
    BY <1>1, Zenon DEF OnRetry, Write, Respond, NodeOrNone, Queued
<1>6. Wire'
    BY <1>1, Zenon DEF OnRetry, Write, Respond, NodeOrNone, Wire
<1>7. OpenBlock'
    BY <1>1, Zenon DEF OnRetry, Write, Respond, NodeOrNone, OpenBlock, Clean, Acked, Answered,
       Busy, Position, Wire, Sessions
<1>8. Settled'
    BY <1>1, Zenon DEF OnRetry, Write, Respond, NodeOrNone, Settled, Answered
<1>9. WatchInv'
    BY <1>1, Zenon DEF OnRetry, Write, Respond, NodeOrNone, WatchInv, Watched, Busy, Answered
<1>10. Results'
    BY <1>1, Zenon DEF OnRetry, Write, Respond, NodeOrNone, Results, Answered, Wire
<1>11. ClusterHome'
    BY <1>1, Zenon DEF OnRetry, Write, Respond, NodeOrNone, ClusterHome, AtHome, OneSlot, Busy,
       Redirecting, Answered
<1>12. PlainHome'
    BY <1>1, Zenon DEF OnRetry, Write, Respond, NodeOrNone, PlainHome, Busy
<1>13. Restored'
    BY <1>1 DEF OnRetry, Write, Respond, NodeOrNone, Restored, OneSlot, Position, Wire,
       Sessions, PlainHome, ClusterHome, AtHome, Busy
<1> QED
    BY Zenon, <1>2, <1>3, <1>4, <1>5, <1>6, <1>7, <1>8, <1>9, <1>10, <1>11, <1>12,
       <1>13 DEF IInv, TypeOK

(* A redirection: its node spoiled the block when it sent it. *)
LEMMA OnRedirectionStep ==
    ASSUME IInv, OnRedirection
    PROVE  IInv'
<1> USE DEF clientVars, runVars, connVars, nodeVars
<1>1. /\ ClientTypes /\ RunTypes /\ ConnTypes /\ NodeTypes /\ Position /\ Queued
      /\ Wire /\ Sessions /\ OpenBlock /\ Settled /\ WatchInv /\ Results /\ Ran
      /\ ClusterHome /\ PlainHome /\ Restored
    BY Zenon DEF IInv, TypeOK
<1>2. /\ redirect \in Redirection /\ Answered /\ frame.reply \in {"MOVED", "ASK"}
      /\ config.clustered
    BY <1>1, Zenon DEF OnRedirection, Position, Wire, Redirecting, Answered
<1>3. ClientTypes' /\ ConnTypes' /\ NodeTypes' /\ Sessions' /\ Ran'
    BY <1>1, Zenon DEF OnRedirection, ClientTypes, ConnTypes, NodeTypes, Sessions, Ran
<1>4. RunTypes'
    BY <1>1, <1>2, Zenon DEF OnRedirection, Write, DiscardTarget, NodeOrNone, SlotOrNone,
       Redirection, RunTypes
<1>5. Position'
    BY <1>1, <1>2, Zenon DEF OnRedirection, Write, DiscardTarget, NodeOrNone, SlotOrNone,
       Redirection, Position, Busy, Answered, Redirecting
<1>6. Queued'
    BY <1>1, <1>2, Zenon DEF OnRedirection, Write, DiscardTarget, NodeOrNone, SlotOrNone,
       Redirection, Queued
<1>7. Wire'
    BY <1>1, <1>2, Zenon DEF OnRedirection, Write, DiscardTarget, NodeOrNone, SlotOrNone,
       Redirection, Wire
<1>8. OpenBlock'
    BY <1>1, <1>2, Zenon DEF OnRedirection, Write, DiscardTarget, NodeOrNone, SlotOrNone,
       Redirection, OpenBlock, Clean, Acked, Answered, Busy
<1>9. Settled'
    BY <1>1, <1>2, Zenon DEF OnRedirection, Write, DiscardTarget, NodeOrNone, SlotOrNone,
       Redirection, Settled, Answered
<1>10. WatchInv'
    BY <1>1, <1>2, Zenon DEF OnRedirection, Write, DiscardTarget, NodeOrNone, SlotOrNone,
       Redirection, WatchInv, Watched, Busy, Answered
<1>11. Results'
    BY <1>1, <1>2, Zenon DEF OnRedirection, Write, DiscardTarget, NodeOrNone, SlotOrNone,
       Redirection, Results, Answered
<1>12. ClusterHome'
    BY <1>1, <1>2, Zenon DEF OnRedirection, Write, DiscardTarget, NodeOrNone, SlotOrNone,
       Redirection, ClusterHome, AtHome, OneSlot, Busy, Redirecting, Answered
<1>13. PlainHome'
    BY <1>1, <1>2, Zenon DEF OnRedirection, Write, DiscardTarget, NodeOrNone, SlotOrNone,
       Redirection, PlainHome, Busy
<1>14. Restored'
    BY <1>1, <1>2, Zenon DEF OnRedirection, Write, DiscardTarget, NodeOrNone, SlotOrNone,
       Redirection, Restored, OneSlot
<1> QED
    BY Zenon, <1>3, <1>4, <1>5, <1>6, <1>7, <1>8, <1>9, <1>10, <1>11, <1>12, <1>13,
       <1>14 DEF IInv, TypeOK

(* EXEC has ended the block of its node. *)
LEMMA OnFinishedStep ==
    ASSUME IInv, OnFinished
    PROVE  IInv'
<1> USE DEF clientVars, runVars, connVars, nodeVars
<1>1. /\ ClientTypes /\ RunTypes /\ ConnTypes /\ NodeTypes /\ Position /\ Queued
      /\ Wire /\ Sessions /\ OpenBlock /\ Settled /\ WatchInv /\ Results /\ Ran
      /\ ClusterHome /\ PlainHome /\ Restored
    BY Zenon DEF IInv, TypeOK
<1>2. Answered /\ frame.reply \in {"result", "nil", "discarded"}
    BY <1>1, Zenon DEF OnFinished, Wire, Answered
<1>3. ClientTypes' /\ ConnTypes' /\ NodeTypes' /\ Sessions' /\ Ran'
    BY <1>1, Zenon DEF OnFinished, ClientTypes, ConnTypes, NodeTypes, Sessions, Ran
<1>4. RunTypes'
    BY <1>1, <1>2, Zenon DEF OnFinished, Respond, Frame, RunTypes
<1>5. Position'
    BY <1>1, <1>2, Zenon DEF OnFinished, Respond, Frame, Position, Busy, Answered, Redirecting
<1>6. Queued'
    BY <1>1, <1>2, Zenon DEF OnFinished, Respond, Frame, Queued
<1>7. Wire'
    BY <1>1, <1>2, Zenon DEF OnFinished, Respond, Frame, Wire
<1>8. OpenBlock'
    BY <1>1, <1>2, Zenon DEF OnFinished, Respond, Frame, OpenBlock, Clean, Acked, Answered, Busy
<1>9. Settled'
    BY <1>1, <1>2, Zenon DEF OnFinished, Respond, Frame, Settled, Answered
<1>10. WatchInv'
    BY <1>1, <1>2, Zenon DEF OnFinished, Respond, Frame, WatchInv, Watched, Busy, Answered
<1>11. Results'
    BY <1>1, <1>2, Zenon DEF OnFinished, Respond, Frame, Results, Answered
<1>12. ClusterHome'
    BY <1>1, <1>2, Zenon DEF OnFinished, Respond, Frame, ClusterHome, AtHome, OneSlot, Busy,
       Redirecting, Answered
<1>13. PlainHome'
    BY <1>1, <1>2, Zenon DEF OnFinished, Respond, Frame, PlainHome, Busy
<1>14. Restored'
    BY <1>1, <1>2 DEF OnFinished, Respond, Frame, Restored, OneSlot, Position, PlainHome,
       ClusterHome, AtHome, Busy, Settled
<1> QED
    BY Zenon, <1>3, <1>4, <1>5, <1>6, <1>7, <1>8, <1>9, <1>10, <1>11, <1>12, <1>13,
       <1>14 DEF IInv, TypeOK

(* An error of a command: its node has spoiled the block. *)
LEMMA OnErrorStep ==
    ASSUME IInv, OnError
    PROVE  IInv'
<1> USE DEF clientVars, runVars, connVars, nodeVars
<1>1. /\ ClientTypes /\ RunTypes /\ ConnTypes /\ NodeTypes /\ Position /\ Queued
      /\ Wire /\ Sessions /\ OpenBlock /\ Settled /\ WatchInv /\ Results /\ Ran
      /\ ClusterHome /\ PlainHome /\ Restored
    BY Zenon DEF IInv, TypeOK
<1>2. Answered /\ frame.reply = "error"
    BY <1>1, Zenon DEF OnError, Wire, Answered
<1>3. ClientTypes' /\ ConnTypes' /\ NodeTypes' /\ Sessions' /\ Ran'
    BY <1>1, Zenon DEF OnError, ClientTypes, ConnTypes, NodeTypes, Sessions, Ran
<1>4. RunTypes'
    BY <1>1, <1>2 DEF OnError, Write, Fatal, NodeOrNone, RunTypes
<1>5. Position'
    BY <1>1, <1>2 DEF OnError, Write, Fatal, NodeOrNone, Position, Busy, Answered,
       Redirecting, ClientTypes, RunTypes
<1>6. Queued'
    BY <1>1, <1>2, Zenon DEF OnError, Write, Fatal, NodeOrNone, Queued
<1>7. Wire'
    BY <1>1, <1>2, Zenon DEF OnError, Write, Fatal, NodeOrNone, Wire
<1>8. OpenBlock'
    BY <1>1, <1>2, Zenon DEF OnError, Write, Fatal, NodeOrNone, OpenBlock, Clean, Acked,
       Answered, Busy
<1>9. Settled'
    BY <1>1, <1>2, Zenon DEF OnError, Write, Fatal, NodeOrNone, Settled, Answered
<1>10. WatchInv'
    BY <1>1, <1>2, Zenon DEF OnError, Write, Fatal, NodeOrNone, WatchInv, Watched, Busy, Answered
<1>11. Results'
    BY <1>1, <1>2, Zenon DEF OnError, Write, Fatal, NodeOrNone, Results, Answered
<1>12. ClusterHome'
    BY <1>1, <1>2, Zenon DEF OnError, Write, Fatal, NodeOrNone, ClusterHome, AtHome, OneSlot,
       Busy, Redirecting, Answered
<1>13. PlainHome'
    BY <1>1, <1>2, Zenon DEF OnError, Write, Fatal, NodeOrNone, PlainHome, Busy
<1>14. Restored'
    BY <1>1, <1>2, Zenon DEF OnError, Write, Fatal, NodeOrNone, Restored, OneSlot
<1> QED
    BY Zenon, <1>3, <1>4, <1>5, <1>6, <1>7, <1>8, <1>9, <1>10, <1>11, <1>12, <1>13,
       <1>14 DEF IInv, TypeOK

(* DISCARD ended the block of its node, or its connection is gone. *)
LEMMA AfterDiscardStep ==
    ASSUME IInv, AfterDiscard
    PROVE  IInv'
<1> USE NoSessionFacts DEF clientVars, runVars, connVars, nodeVars
<1>1. /\ ClientTypes /\ RunTypes /\ ConnTypes /\ NodeTypes /\ Position /\ Queued
      /\ Wire /\ Sessions /\ OpenBlock /\ Settled /\ WatchInv /\ Results /\ Ran
      /\ ClusterHome /\ PlainHome /\ Restored
    BY Zenon DEF IInv, TypeOK
<1>2. /\ (conn[target] # "up" \/ Answered)
      /\ after \in {"retry", "redirect", "cluster", "error"}
    BY <1>1, Zenon DEF AfterDiscard, Wire, Answered, Position, Busy, RunTypes
<1>3. ClientTypes' /\ ConnTypes' /\ NodeTypes' /\ Sessions' /\ Ran'
    BY <1>1, Zenon DEF AfterDiscard, ClientTypes, ConnTypes, NodeTypes, Sessions, Ran
<1>4. RunTypes'
    BY <1>1, <1>2, Zenon DEF AfterDiscard, RetryChecked, Respond, RunTypes
<1>5. Position'
    BY <1>1, <1>2, Zenon DEF AfterDiscard, RetryChecked, Respond, Position, Busy, Answered,
       Redirecting
<1>6. Queued'
    BY <1>1, <1>2, Zenon DEF AfterDiscard, RetryChecked, Respond, Queued
<1>7. Wire'
    BY <1>1, <1>2, Zenon DEF AfterDiscard, RetryChecked, Respond, Wire
<1>8. OpenBlock'
    BY <1>1, <1>2, Zenon DEF AfterDiscard, RetryChecked, Respond, OpenBlock, Clean, Acked,
       Answered, Busy
<1>9. Settled'
    BY <1>1, <1>2, Zenon DEF AfterDiscard, RetryChecked, Respond, Settled, Answered
<1>10. WatchInv'
    BY <1>1, <1>2, Zenon DEF AfterDiscard, RetryChecked, Respond, WatchInv, Watched, Busy,
       Answered
<1>11. Results'
    BY <1>1, <1>2, Zenon DEF AfterDiscard, RetryChecked, Respond, Results, Answered
<1>12. ClusterHome'
    BY <1>1, <1>2, Zenon DEF AfterDiscard, RetryChecked, Respond, ClusterHome, AtHome, OneSlot,
       Busy, Redirecting, Answered
<1>13. PlainHome'
    BY <1>1, <1>2, Zenon DEF AfterDiscard, RetryChecked, Respond, PlainHome, Busy
<1>14. Restored'
    BY <1>1, <1>2 DEF AfterDiscard, RetryChecked, Respond, Restored, OneSlot, Position,
       PlainHome, ClusterHome, AtHome, Busy, Settled, Sessions
<1> QED
    BY Zenon, <1>3, <1>4, <1>5, <1>6, <1>7, <1>8, <1>9, <1>10, <1>11, <1>12, <1>13,
       <1>14 DEF IInv, TypeOK

(* The cluster state is read again. *)
LEMMA SyncClusterStep ==
    ASSUME IInv, SyncCluster
    PROVE  IInv'
<1> USE NoSessionFacts DEF clientVars, runVars, connVars, nodeVars
<1>1. /\ ClientTypes /\ RunTypes /\ ConnTypes /\ NodeTypes /\ Position /\ Queued
      /\ Wire /\ Sessions /\ OpenBlock /\ Settled /\ WatchInv /\ Results /\ Ran
      /\ ClusterHome /\ PlainHome /\ Restored
    BY Zenon DEF IInv, TypeOK
<1>2. ConnTypes'
    BY <1>1, SyncedStateFacts, Zenon DEF SyncCluster, ConnTypes
<1>3. SyncedState \/ UNCHANGED <<cache, conn, session>>
    BY <1>1, Zenon DEF SyncCluster
<1>4. \A n \in Nodes : session'[n] = NoSession \/ (session'[n] = session[n] /\ conn'[n] = conn[n])
    BY Zenon, <1>1, <1>3, SyncedStateFacts
<1>5. ClientTypes' /\ Ran'
    BY <1>1, Zenon DEF SyncCluster, ClientTypes, Ran
<1>6. RunTypes'
    BY <1>1, <1>2, <1>3, <1>4 DEF SyncCluster, Incr, RunTypes
<1>7. ConnTypes'
    BY <1>1, <1>2, <1>3, <1>4, Zenon DEF SyncCluster, Incr, ConnTypes
<1>8. NodeTypes'
    BY <1>1, <1>2, <1>3, <1>4 DEF SyncCluster, Incr, NodeTypes
<1>9. Position'
    BY <1>1, <1>2, <1>3, <1>4, Zenon DEF SyncCluster, Incr, Position, Busy, Answered, Redirecting
<1>10. Queued'
    BY <1>1, <1>2, <1>3, <1>4, Zenon DEF SyncCluster, Incr, Queued
<1>11. Wire'
    BY <1>1, <1>2, <1>3, <1>4, Zenon DEF SyncCluster, Incr, Wire
<1>12. Sessions'
    BY <1>1, <1>2, <1>3, <1>4, Zenon DEF SyncCluster, Incr, Sessions
<1>13. OpenBlock'
    BY <1>1, <1>2, <1>3, <1>4, Zenon DEF SyncCluster, Incr, OpenBlock, Clean, Acked, Answered,
       Busy
<1>14. Settled'
    BY <1>1, <1>2, <1>3, <1>4, Zenon DEF SyncCluster, Incr, Settled, Answered
<1>15. WatchInv'
    BY <1>1, <1>2, <1>3, <1>4, Zenon DEF SyncCluster, Incr, WatchInv, Watched, Busy, Answered
<1>16. Results'
    BY <1>1, <1>2, <1>3, <1>4, Zenon DEF SyncCluster, Incr, Results, Answered
<1>17. ClusterHome'
    BY <1>1, <1>2, <1>3, <1>4 DEF SyncCluster, Incr, ClusterHome, AtHome, OneSlot, Busy,
       Redirecting, Answered
<1>18. PlainHome'
    BY <1>1, <1>2, <1>3, <1>4, Zenon DEF SyncCluster, Incr, PlainHome, Busy
<1>19. Restored'
    BY <1>1, <1>2, <1>3, <1>4, Zenon DEF SyncCluster, Incr, Restored, OneSlot
<1> QED
    BY Zenon, <1>5, <1>6, <1>7, <1>8, <1>9, <1>10, <1>11, <1>12, <1>13, <1>14, <1>15, <1>16,
       <1>17, <1>18, <1>19 DEF IInv, TypeOK

(* Every connection is made anew. *)
LEMMA ReconnectStep ==
    ASSUME IInv, Reconnect
    PROVE  IInv'
<1> USE NoSessionFacts, NoFrameFacts DEF clientVars, runVars, connVars, nodeVars
<1>1. /\ ClientTypes /\ RunTypes /\ ConnTypes /\ NodeTypes /\ Position /\ Queued
      /\ Wire /\ Sessions /\ OpenBlock /\ Settled /\ WatchInv /\ Results /\ Ran
      /\ ClusterHome /\ PlainHome /\ Restored
    BY Zenon DEF IInv, TypeOK
<1>2. ClientTypes' /\ Ran'
    BY <1>1, Zenon DEF Reconnect, ClientTypes, Ran
<1>3. RunTypes'
    BY <1>1 DEF Reconnect, NextDelay, EndRun, Respond, Incr, RunTypes
<1>4. ConnTypes'
    BY <1>1 DEF Reconnect, NextDelay, EndRun, Respond, Incr, ConnTypes, NodeTypes
<1>5. NodeTypes'
    BY <1>1 DEF Reconnect, NextDelay, EndRun, Respond, Incr, NodeTypes
<1>6. Position'
    BY <1>1, Zenon DEF Reconnect, NextDelay, EndRun, Respond, Incr, Position, Busy, Answered,
       Redirecting
<1>7. Queued'
    BY <1>1, Zenon DEF Reconnect, NextDelay, EndRun, Respond, Incr, Queued
<1>8. Wire'
    BY <1>1, Zenon DEF Reconnect, NextDelay, EndRun, Respond, Incr, Wire
<1>9. Sessions'
    BY <1>1, Zenon DEF Reconnect, NextDelay, EndRun, Respond, Incr, Sessions
<1>10. OpenBlock'
    BY <1>1, Zenon DEF Reconnect, NextDelay, EndRun, Respond, Incr, OpenBlock, Clean, Acked,
       Answered, Busy
<1>11. Settled'
    BY <1>1, Zenon DEF Reconnect, NextDelay, EndRun, Respond, Incr, Settled, Answered
<1>12. WatchInv'
    BY <1>1, Zenon DEF Reconnect, NextDelay, EndRun, Respond, Incr, WatchInv, Watched, Busy,
       Answered
<1>13. Results'
    BY <1>1, Zenon DEF Reconnect, NextDelay, EndRun, Respond, Incr, Results, Answered
<1>14. ClusterHome'
    BY <1>1 DEF Reconnect, NextDelay, EndRun, Respond, Incr, ClusterHome, AtHome,
       OneSlot, Busy, Redirecting, Answered
<1>15. PlainHome'
    BY <1>1, Zenon DEF Reconnect, NextDelay, EndRun, Respond, Incr, PlainHome, Busy
<1>16. Restored'
    BY <1>1, Zenon DEF Reconnect, NextDelay, EndRun, Respond, Incr, Restored, OneSlot
<1> QED
    BY Zenon, <1>2, <1>3, <1>4, <1>5, <1>6, <1>7, <1>8, <1>9, <1>10, <1>11, <1>12, <1>13, <1>14,
       <1>15, <1>16 DEF IInv, TypeOK

(* cluster_redirection after MOVED. *)
LEMMA RedirectMovedStep ==
    ASSUME IInv, RedirectMoved
    PROVE  IInv'
<1> USE NoSessionFacts DEF clientVars, runVars, connVars, nodeVars
<1>1. /\ ClientTypes /\ RunTypes /\ ConnTypes /\ NodeTypes /\ Position /\ Queued
      /\ Wire /\ Sessions /\ OpenBlock /\ Settled /\ WatchInv /\ Results /\ Ran
      /\ ClusterHome /\ PlainHome /\ Restored
    BY Zenon DEF IInv, TypeOK
<1>2. ConnTypes'
    BY <1>1, SyncedStateFacts, Zenon DEF RedirectMoved, ConnTypes
<1>3. SyncedState \/ UNCHANGED <<cache, conn, session>>
    BY <1>1, Zenon DEF RedirectMoved
<1>4. \A n \in Nodes : session'[n] = NoSession \/ (session'[n] = session[n] /\ conn'[n] = conn[n])
    BY Zenon, <1>1, <1>3, SyncedStateFacts
<1>5. ClientTypes' /\ Ran'
    BY <1>1, Zenon DEF RedirectMoved, ClientTypes, Ran
<1>6. RunTypes'
    BY <1>1, <1>2, <1>3, <1>4 DEF RedirectMoved, Incr, RedirectFails, EndRun, Respond,
       NextDelay, Redirection, RunTypes
<1>7. ConnTypes'
    BY <1>1, <1>2, <1>3, <1>4, Zenon DEF RedirectMoved, Incr, RedirectFails, EndRun, Respond,
       NextDelay, Redirection, ConnTypes
<1>8. NodeTypes'
    BY <1>1, <1>2, <1>3, <1>4 DEF RedirectMoved, Incr, RedirectFails, EndRun, Respond,
       NextDelay, Redirection, NodeTypes
<1>9. Position'
    BY <1>1, <1>2, <1>3, <1>4, Zenon DEF RedirectMoved, Incr, RedirectFails, EndRun, Respond,
       NextDelay, Redirection, Position, Busy, Answered, Redirecting
<1>10. Queued'
    BY <1>1, <1>2, <1>3, <1>4, Zenon DEF RedirectMoved, Incr, RedirectFails, EndRun, Respond,
       NextDelay, Redirection, Queued
<1>11. Wire'
    BY <1>1, <1>2, <1>3, <1>4, Zenon DEF RedirectMoved, Incr, RedirectFails, EndRun, Respond,
       NextDelay, Redirection, Wire
<1>12. Sessions'
    BY <1>1, <1>2, <1>3, <1>4, Zenon DEF RedirectMoved, Incr, RedirectFails, EndRun, Respond,
       NextDelay, Redirection, Sessions
<1>13. OpenBlock'
    BY <1>1, <1>2, <1>3, <1>4, Zenon DEF RedirectMoved, Incr, RedirectFails, EndRun, Respond,
       NextDelay, Redirection, OpenBlock, Clean, Acked, Answered, Busy
<1>14. Settled'
    BY <1>1, <1>2, <1>3, <1>4, Zenon DEF RedirectMoved, Incr, RedirectFails, EndRun, Respond,
       NextDelay, Redirection, Settled, Answered
<1>15. WatchInv'
    BY <1>1, <1>2, <1>3, <1>4, Zenon DEF RedirectMoved, Incr, RedirectFails, EndRun, Respond,
       NextDelay, Redirection, WatchInv, Watched, Busy, Answered
<1>16. Results'
    BY <1>1, <1>2, <1>3, <1>4, Zenon DEF RedirectMoved, Incr, RedirectFails, EndRun, Respond,
       NextDelay, Redirection, Results, Answered
<1>17. ClusterHome'
    BY <1>1, <1>2, <1>3, <1>4 DEF RedirectMoved, Incr, RedirectFails, EndRun, Respond,
       NextDelay, Redirection, ClusterHome, AtHome, OneSlot, Busy, Redirecting, Answered,
       ShouldSync
<1>18. PlainHome'
    BY <1>1, <1>2, <1>3, <1>4, Zenon DEF RedirectMoved, Incr, RedirectFails, EndRun, Respond,
       NextDelay, Redirection, PlainHome, Busy
<1>19. Restored'
    BY <1>1, <1>2, <1>3, <1>4, Zenon DEF RedirectMoved, Incr, RedirectFails, EndRun, Respond,
       NextDelay, Redirection, Restored, OneSlot
<1> QED
    BY Zenon, <1>5, <1>6, <1>7, <1>8, <1>9, <1>10, <1>11, <1>12, <1>13, <1>14, <1>15, <1>16,
       <1>17, <1>18, <1>19 DEF IInv, TypeOK

(* cluster_redirection after ASK. *)
LEMMA RedirectAskStep ==
    ASSUME IInv, RedirectAsk
    PROVE  IInv'
<1> USE DEF clientVars, runVars, connVars, nodeVars
<1>1. /\ ClientTypes /\ RunTypes /\ ConnTypes /\ NodeTypes /\ Position /\ Queued
      /\ Wire /\ Sessions /\ OpenBlock /\ Settled /\ WatchInv /\ Results /\ Ran
      /\ ClusterHome /\ PlainHome /\ Restored
    BY Zenon DEF IInv, TypeOK
<1>2. ClientTypes' /\ Ran'
    BY <1>1, Zenon DEF RedirectAsk, ClientTypes, Ran
<1>3. RunTypes'
    BY <1>1 DEF RedirectAsk, Write, RedirectFails, EndRun, Respond, NextDelay,
       Redirection, NodeOrNone, RunTypes, Position, Redirecting
<1>4. ConnTypes'
    BY <1>1, Zenon DEF RedirectAsk, Write, RedirectFails, EndRun, Respond, NextDelay,
       Redirection, NodeOrNone, ConnTypes
<1>5. NodeTypes'
    BY <1>1 DEF RedirectAsk, Write, RedirectFails, EndRun, Respond, NextDelay,
       Redirection, NodeOrNone, NodeTypes
<1>6. Position'
    BY <1>1, Zenon DEF RedirectAsk, Write, RedirectFails, EndRun, Respond, NextDelay,
       Redirection, NodeOrNone, Position, Busy, Answered, Redirecting
<1>7. Queued'
    BY <1>1, Zenon DEF RedirectAsk, Write, RedirectFails, EndRun, Respond, NextDelay,
       Redirection, NodeOrNone, Queued
<1>8. Wire'
    BY <1>1, Zenon DEF RedirectAsk, Write, RedirectFails, EndRun, Respond, NextDelay,
       Redirection, NodeOrNone, Wire
<1>9. Sessions'
    BY <1>1, Zenon DEF RedirectAsk, Write, RedirectFails, EndRun, Respond, NextDelay,
       Redirection, NodeOrNone, Sessions, ConnTypes, Position, Redirecting
<1>10. OpenBlock'
    BY <1>1, Zenon DEF RedirectAsk, Write, RedirectFails, EndRun, Respond, NextDelay,
       Redirection, NodeOrNone, OpenBlock, Clean, Acked, Answered, Busy
<1>11. Settled'
    BY <1>1, Zenon DEF RedirectAsk, Write, RedirectFails, EndRun, Respond, NextDelay,
       Redirection, NodeOrNone, Settled, Answered
<1>12. WatchInv'
    BY <1>1, Zenon DEF RedirectAsk, Write, RedirectFails, EndRun, Respond, NextDelay,
       Redirection, NodeOrNone, WatchInv, Watched, Busy, Answered
<1>13. Results'
    BY <1>1, Zenon DEF RedirectAsk, Write, RedirectFails, EndRun, Respond, NextDelay,
       Redirection, NodeOrNone, Results, Answered
<1>14. ClusterHome'
    BY <1>1, Zenon DEF RedirectAsk, Write, RedirectFails, EndRun, Respond, NextDelay,
       Redirection, NodeOrNone, ClusterHome, AtHome, OneSlot, Busy, Redirecting,
       Answered
<1>15. PlainHome'
    BY <1>1, Zenon DEF RedirectAsk, Write, RedirectFails, EndRun, Respond, NextDelay,
       Redirection, NodeOrNone, PlainHome, Busy
<1>16. Restored'
    BY <1>1, Zenon DEF RedirectAsk, Write, RedirectFails, EndRun, Respond, NextDelay,
       Redirection, NodeOrNone, Restored, OneSlot
<1> QED
    BY Zenon, <1>2, <1>3, <1>4, <1>5, <1>6, <1>7, <1>8, <1>9, <1>10, <1>11, <1>12, <1>13, <1>14,
       <1>15, <1>16 DEF IInv, TypeOK

(* ASKING was answered or could not be written. *)
LEMMA AfterAskingStep ==
    ASSUME IInv, AfterAsking
    PROVE  IInv'
<1> USE DEF clientVars, runVars, connVars, nodeVars
<1>1. /\ ClientTypes /\ RunTypes /\ ConnTypes /\ NodeTypes /\ Position /\ Queued
      /\ Wire /\ Sessions /\ OpenBlock /\ Settled /\ WatchInv /\ Results /\ Ran
      /\ ClusterHome /\ PlainHome /\ Restored
    BY Zenon DEF IInv, TypeOK
<1>2. ClientTypes' /\ ConnTypes' /\ NodeTypes' /\ Sessions' /\ Ran'
    BY <1>1, Zenon DEF AfterAsking, ClientTypes, ConnTypes, NodeTypes, Sessions, Ran
<1>3. RunTypes'
    BY <1>1 DEF AfterAsking, Incr, RedirectFails, EndRun, Respond, NextDelay, RunTypes
<1>4. Position'
    BY <1>1, Zenon DEF AfterAsking, Incr, RedirectFails, EndRun, Respond, NextDelay, Position,
       Busy, Answered, Redirecting
<1>5. Queued'
    BY <1>1, Zenon DEF AfterAsking, Incr, RedirectFails, EndRun, Respond, NextDelay, Queued
<1>6. Wire'
    BY <1>1, Zenon DEF AfterAsking, Incr, RedirectFails, EndRun, Respond, NextDelay, Wire
<1>7. OpenBlock'
    BY <1>1, Zenon DEF AfterAsking, Incr, RedirectFails, EndRun, Respond, NextDelay, OpenBlock,
       Clean, Acked, Answered, Busy
<1>8. Settled'
    BY <1>1, Zenon DEF AfterAsking, Incr, RedirectFails, EndRun, Respond, NextDelay, Settled,
       Answered
<1>9. WatchInv'
    BY <1>1, Zenon DEF AfterAsking, Incr, RedirectFails, EndRun, Respond, NextDelay, WatchInv,
       Watched, Busy, Answered
<1>10. Results'
    BY <1>1, Zenon DEF AfterAsking, Incr, RedirectFails, EndRun, Respond, NextDelay, Results,
       Answered
<1>11. ClusterHome'
    BY <1>1, Zenon DEF AfterAsking, Incr, RedirectFails, EndRun, Respond, NextDelay,
       ClusterHome, AtHome, OneSlot, Busy, Redirecting, Answered
<1>12. PlainHome'
    BY <1>1, Zenon DEF AfterAsking, Incr, RedirectFails, EndRun, Respond, NextDelay, PlainHome,
       Busy
<1>13. Restored'
    BY <1>1, Zenon DEF AfterAsking, Incr, RedirectFails, EndRun, Respond, NextDelay, Restored,
       OneSlot
<1> QED
    BY Zenon, <1>2, <1>3, <1>4, <1>5, <1>6, <1>7, <1>8, <1>9, <1>10, <1>11, <1>12,
       <1>13 DEF IInv, TypeOK

-----------------------------------------------------------------------------
(* The theorems.                                                           *)

(* Every step keeps the invariant. *)
LEMMA StepInv ==
    ASSUME IInv, [Next]_vars
    PROVE  IInv'
<1>1. CASE UNCHANGED vars
    BY Zenon, <1>1, StutterInv
<1>2. CASE \E s \in Slots \cup {None} : QueueCommand(s)
    BY <1>2, QueueCommandStep, Zenon DEF SlotOrNone
<1>3. CASE Exec \/ CallerTimeout
    BY Zenon, <1>3, ExecStep, CallerTimeoutStep
<1>4. CASE RunNext
  <2>1. CASE StartAttempt \/ SyncCluster \/ WriteOnce \/ WriteOnceFails
      BY Zenon, <2>1, StartAttemptStep, SyncClusterStep, WriteOnceStep, WriteOnceFailsStep
  <2>2. CASE OnContinue \/ OnRetry \/ OnRedirection \/ OnFinished \/ OnError
      BY Zenon, <2>2, OnContinueStep, OnRetryStep, OnRedirectionStep, OnFinishedStep, OnErrorStep
  <2>3. CASE AfterDiscard \/ Reconnect \/ RedirectMoved \/ RedirectAsk \/ AfterAsking
      BY Zenon, <2>3, AfterDiscardStep, ReconnectStep, RedirectMovedStep, RedirectAskStep,
         AfterAskingStep
  <2> QED
      BY <1>4, <2>1, <2>2, <2>3, Zenon DEF RunNext
<1>5. CASE ReadResponse \/ NodeAnswers \/ NodeRejects
    BY Zenon, <1>5, ReadResponseStep, NodeAnswersStep, NodeRejectsStep
<1>6. CASE \E n \in Nodes : Break(n) \/ ReaderEnds(n) \/ WatchedKeyTouched(n)
    BY Zenon, <1>6, BreakStep, ReaderEndsStep, WatchedKeyTouchedStep
<1>7. CASE \E s \in Slots, n \in Nodes : MigrationStarts(s, n)
    BY Zenon, <1>7, MigrationStartsStep
<1>8. CASE \E s \in Slots : MigrationEnds(s)
    BY Zenon, <1>8, MigrationEndsStep
<1> QED
    BY <1>1, <1>2, <1>3, <1>4, <1>5, <1>6, <1>7, <1>8, Zenon DEF Next

(* Whatever fails, moves or is retried while transactions::run works, the block it
   works on is in the session of this attempt or in none. *)
THEOREM TransactionInvariant == Spec => []IInv
<1> QED
    BY InitInv, StepInv, PTL DEF Spec

(* A block that EXEC runs is the whole sequence the caller queued, for any number of
   attempts, faults, nodes and slots: transactions::run never completes a session that
   an earlier attempt left over. *)
THEOREM BlocksRunWhole == Spec => []ExecutesWhole
<1>1. IInv => ExecutesWhole
    BY Zenon DEF IInv, Ran, ExecutesWhole
<1> QED
    BY <1>1, TransactionInvariant, PTL

(* The caller of exec that is told a result has had its block run once more than the
   responses that were lost; told nil or an error, it has had no run but those. *)
THEOREM AnswersTellTheTruth == Spec => []AnswerExact
<1>1. IInv => AnswerExact
    BY Zenon DEF IInv, Results, AnswerExact
<1> QED
    BY <1>1, TransactionInvariant, PTL

(* With watch_before, on nodes that accept WATCH, no block runs unless its keys are
   watched on that connection and untouched. *)
THEOREM WatchesHold == Spec => []WatchHonoured
<1>1. IInv => WatchHonoured
    BY Zenon DEF IInv, Ran, WatchHonoured
<1> QED
    BY <1>1, TransactionInvariant, PTL

(* run leaves no connection inside MULTI when it is done with a block of one slot, or
   with any block of a centralized client. *)
THEOREM ConnectionsAreRestored == Spec => []ConnectionRestored
<1>1. IInv => ConnectionRestored
    BY Zenon DEF IInv, Restored, ConnectionRestored
<1> QED
    BY <1>1, TransactionInvariant, PTL
=============================================================================
