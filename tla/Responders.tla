----------------------------- MODULE Responders ------------------------------
(***************************************************************************)
(* How response frames find their callers: the response policies of        *)
(* protocol/responders.rs, the shared buffer each reader task matches them *)
(* against, pipelines, commands sent to all nodes, and scan streams.       *)
(*                                                                         *)
(* The reader tasks of the nodes run in parallel and share the state of a  *)
(* buffered response, so add_buffered_frame, the counter and the merge are *)
(* steps of their own.  A connection breaks between any two of them; the   *)
(* router then reconnects to every node and replays what is in flight.     *)
(* How it learns of the break, and what a failed write or a redirection    *)
(* does, is the subject of CommandRouter and ClusterRouter.                *)
(***************************************************************************)
EXTENDS Integers, Sequences, FiniteSets, SequencesExt

CONSTANTS
    Nodes,       \* the nodes of the cluster
    Plans,       \* the sequences of calls to consider, see Call
    MaxAttempts, \* max_command_attempts
    MaxBreaks,   \* bound: broken connections
    MaxErrors    \* bound: error replies

(* one: ResponseKind::Respond; multi: Multiple with n frames; pipe: Pipeline::all;
   last: Pipeline::last; all: a command for all nodes; bare: *UNSUBSCRIBE without
   arguments, answered with n frames nobody counts; scan: a scan stream of n pages.
   to: the node of each command; arrays: the commands of a pipeline that reply with
   an array of two; unsub: an *UNSUBSCRIBE; channel: the router waits for it. *)
Call == [kind : {"one", "multi", "pipe", "last", "all", "bare", "scan"},
         to : Seq(Nodes), n : Nat, arrays : SUBSET Nat, unsub : BOOLEAN, channel : BOOLEAN]

ASSUME RespondersAssumption ==
    /\ \A p \in Plans : \A i \in DOMAIN p : p[i] \in Call
    /\ MaxAttempts \in Nat \ {0} /\ {MaxBreaks, MaxErrors} \subseteq Nat

VARIABLES
    plan,      \* the calls, a member of Plans
    sent,      \* how many of them the callers have made
    queue,     \* the command channel
    waiting,   \* the call whose router channel the router waits on, or 0
    rx,        \* what arrived there: none, continue or closed; then, canceling
    held,      \* the command that came back with closed
    retry,     \* the retry buffer
    link,      \* the connection to each node: up, down or ended (its reader task)
    requests,  \* frames on their way to each node
    replies,   \* frames on their way back
    inflight,  \* the shared buffer of each connection
    reader,    \* where the reader task of each node is in respond_buffer
    frames,    \* the shared frames of each Buffer response
    received,  \* the shared counter of each Buffer or Multiple response
    expected,  \* the number of frames each of them waits for
    answer,    \* what each caller has seen
    pages,     \* the pages each scan stream has delivered
    shifted,   \* whether a Multiple was replayed after some of its frames
    replayed,  \* the calls for all nodes that were sent again
    breaks,
    errors

callVars == <<frames, received, expected, answer, pages>>
wireVars == <<link, requests, replies>>
vars == <<plan, sent, queue, waiting, rx, held, retry, wireVars, inflight, reader, callVars,
          shifted, replayed, breaks, errors>>

Calls == DOMAIN plan
Buffered == {"pipe", "all"}
Waiting == [kind |-> "waiting", items |-> <<>>]
Failure == [kind |-> "error", items |-> <<>>]
Canceled == [kind |-> "canceled", items |-> <<>>]
Result(items) == [kind |-> "ok", items |-> items]

Command(k, i) == [call |-> k, idx |-> i, tries |-> 0]
NullFrame == [call |-> 0, idx |-> 0, part |-> 0, error |-> FALSE]
NoWork == [at |-> "idle", cmd |-> Command(0, 0), frame |-> NullFrame]

Start(p) ==
    /\ plan = p
    /\ sent = 0 /\ queue = <<>> /\ retry = <<>>
    /\ waiting = 0 /\ rx = "none" /\ held = <<>>
    /\ link = [n \in Nodes |-> "up"]
    /\ requests = [n \in Nodes |-> <<>>] /\ replies = [n \in Nodes |-> <<>>]
    /\ inflight = [n \in Nodes |-> <<>>]
    /\ reader = [n \in Nodes |-> NoWork]
    /\ frames = [k \in Calls |-> <<>>]
    /\ received = [k \in Calls |-> 0] /\ expected = [k \in Calls |-> 0]
    /\ answer = [k \in Calls |-> Waiting]
    /\ pages = [k \in Calls |-> <<>>]
    /\ shifted = FALSE /\ replayed = {} /\ breaks = 0 /\ errors = 0

Init == \E p \in Plans : Start(p)

Nulls(n) == [i \in 1..n |-> NullFrame]

(* respond_locked, respond_to_caller: the oneshot sender is taken once. *)
Respond(k, a) ==
    answer' = IF answer[k] = Waiting THEN [answer EXCEPT ![k] = a] ELSE answer

-----------------------------------------------------------------------------
(* Callers.  A pipeline is one message, its commands are written in a row; the
   commands before the last of Pipeline::last were answered when they were queued. *)
MakeCall ==
    /\ sent < Len(plan)
    /\ LET k == sent + 1
           c == plan[k]
       IN /\ sent' = k
          /\ queue' = queue \o [i \in DOMAIN (IF c.kind = "all" THEN <<1>> ELSE c.to)
                                  |-> Command(k, i)]
          /\ frames' = [frames EXCEPT ![k] = IF c.kind = "pipe" THEN Nulls(Len(c.to)) ELSE <<>>]
          /\ expected' = [expected EXCEPT ![k] =
                IF c.kind = "pipe" THEN Len(c.to) ELSE IF c.kind = "multi" THEN c.n ELSE 0]
    /\ UNCHANGED <<plan, waiting, rx, held, retry, wireVars, inflight, reader, received, answer,
                   pages, shifted, replayed, breaks, errors>>

(* The caller of a scan asks for the next page: a new command of the same scan. *)
ScanNext(k) ==
    /\ plan[k].kind = "scan" /\ answer[k] = Waiting
    /\ pages[k] # <<>> /\ Last(pages[k]) < plan[k].n
    /\ \A c \in ToSet(queue) \cup ToSet(retry) : c.call # k
    /\ \A n \in Nodes : \A c \in ToSet(inflight[n]) : c.call # k
    /\ queue' = Append(queue, Command(k, Last(pages[k]) + 1))
    /\ UNCHANGED <<plan, sent, waiting, rx, held, retry, wireVars, inflight, reader, callVars,
                   shifted, replayed, breaks, errors>>

-----------------------------------------------------------------------------
(* The router writes. *)

(* Which of its nodes a command goes to: a pipeline's by its position, a scan's by
   its hash slot. *)
NodeOf(c) == LET p == plan[c.call] IN IF p.kind = "scan" THEN p.to[1] ELSE p.to[c.idx]
Tried(c) == [c EXCEPT !.tries = @ + 1]
TooMany(c) == c.tries >= MaxAttempts

(* respond_to_caller with an error; a scan has no oneshot sender to answer, its
   stream just ends when the command is dropped. *)
GiveUp(c) == Respond(c.call, IF plan[c.call].kind = "scan" THEN Canceled ELSE Failure)

Pushed(S, c, at) ==
    /\ inflight' = [n \in Nodes |-> IF n \in S /\ plan[c.call].kind # "bare"
                                    THEN Append(inflight[n], at[n]) ELSE inflight[n]]
    /\ requests' = [n \in Nodes |-> IF n \in S /\ link[n] = "up"
                                    THEN Append(requests[n], at[n]) ELSE requests[n]]

(* utils::write_command: pushed to the shared buffer first, then written.  A command
   without responses is answered at once and not pushed. *)
WriteOne(c) ==
    /\ plan[c.call].kind # "all"
    /\ link[NodeOf(c)] # "ended"
    /\ Pushed({NodeOf(c)}, c, [n \in Nodes |-> Tried(c)])
    /\ IF plan[c.call].kind = "bare" THEN Respond(c.call, Result(<<>>)) ELSE UNCHANGED answer
    /\ UNCHANGED <<frames, expected, replayed>>

(* send_all_cluster_command: fresh frames, one copy per writer with its index, all
   sharing the counter and the sender; the counter is not reset.  The first write that
   fails answers the caller and leaves the copies already written where they are. *)
WriteAll(c) ==
    /\ plan[c.call].kind = "all"
    /\ frames' = [frames EXCEPT ![c.call] = Nulls(Cardinality(Nodes))]
    /\ expected' = [expected EXCEPT ![c.call] = Cardinality(Nodes)]
    /\ \E order \in SetToSeqs(Nodes) :
          LET works == SelectInSeq(order, LAMBDA n : link[n] = "ended")
              reached == IF works = 0 THEN order ELSE SubSeq(order, 1, works - 1)
          IN /\ Pushed(ToSet(reached), c, [n \in Nodes |->
                    [Tried(c) EXCEPT !.idx = CHOOSE i \in DOMAIN order : order[i] = n]])
             /\ IF works = 0 THEN UNCHANGED answer ELSE Respond(c.call, Failure)
    /\ replayed' = IF c.tries > 0 THEN replayed \cup {c.call} ELSE replayed

(* process_commands: one command at a time; the router waits on the channel of a
   command that does not pipeline. *)
WriteNext ==
    /\ waiting = 0 /\ retry = <<>> /\ queue # <<>>
    /\ LET c == Head(queue) IN
       /\ WriteOne(c) \/ WriteAll(c)
       /\ waiting' = IF plan[c.call].channel THEN c.call ELSE 0
       /\ queue' = Tail(queue)
    /\ UNCHANGED <<plan, sent, rx, held, retry, link, replies, reader, received, pages, shifted,
                   breaks, errors>>

(* retry_buffer, after a reconnection. *)
Replay ==
    /\ retry # <<>>
    /\ LET c == Head(retry) IN
       \/ /\ TooMany(c)
          /\ GiveUp(c)
          /\ UNCHANGED <<requests, inflight, frames, expected, shifted, replayed>>
       \/ /\ ~TooMany(c)
          /\ WriteOne(c) \/ WriteAll(c)
          /\ shifted' = (shifted \/ (plan[c.call].kind = "multi" /\ received[c.call] > 0))
    /\ retry' = Tail(retry)
    /\ UNCHANGED <<plan, sent, queue, waiting, rx, held, link, replies, reader, received, pages,
                   breaks, errors>>

(* The router channel is answered, or every copy of its sender was dropped. *)
HasCopies(k) ==
    \/ \E n \in Nodes : k \in {c.call : c \in ToSet(inflight[n])} \/ reader[n].cmd.call = k
    \/ k \in {c.call : c \in ToSet(retry)}
Unblocked ==
    /\ waiting # 0
    /\ rx = "continue" \/ (rx = "none" /\ ~HasCopies(waiting))
    /\ waiting' = 0 /\ rx' = "none"
    /\ UNCHANGED <<plan, sent, queue, held, retry, wireVars, inflight, reader, callVars, shifted,
                   replayed, breaks, errors>>

(* reconnect_once: every connection is closed, also those that work, and the shared
   buffers move to the retry buffer. *)
Reconnect(again) ==
    /\ \A n \in Nodes : reader[n] = NoWork
    /\ \E order \in SetToSeqs(Nodes) :
          retry' = FlattenSeq([i \in DOMAIN order |-> inflight[order[i]]]) \o again
    /\ link' = [n \in Nodes |-> "up"]
    /\ requests' = [n \in Nodes |-> <<>>] /\ replies' = [n \in Nodes |-> <<>>]
    /\ inflight' = [n \in Nodes |-> <<>>]
    /\ UNCHANGED <<plan, sent, queue, waiting, reader, frames, received, expected, pages, shifted,
                   replayed, breaks, errors>>
Ended == \E n \in Nodes : link[n] = "ended"
ReconnectIdle ==
    /\ waiting = 0 /\ Ended /\ retry = <<>>
    /\ Reconnect(<<>>)
    /\ UNCHANGED <<rx, held, answer>>
(* handle_router_response, on ConnectionClosed: reconnect, then the command that came
   back is written again with a new channel, unless it was for all nodes. *)
ReconnectClosed ==
    /\ waiting # 0 /\ rx = "closed" /\ Ended /\ retry = <<>>
    /\ Reconnect(IF plan[waiting].kind = "all" THEN <<>> ELSE held)
    /\ rx' = IF plan[waiting].kind = "all" THEN "canceling" ELSE "none"
    /\ held' = <<>>
    /\ UNCHANGED answer

(* retry_buffer meets a connection that is gone: it disconnects from every node, keeps
   the command it could not write and drops those behind it. *)
ReplayFails ==
    /\ retry # <<>>
    /\ LET c == Head(retry)
           dropped == {d.call : d \in ToSet(Tail(retry))}
       IN /\ ~TooMany(c) /\ plan[c.call].kind # "all" /\ link[NodeOf(c)] = "ended"
          /\ Reconnect(<<Tried(c)>>)
          /\ answer' = [k \in Calls |-> IF k \in dropped /\ plan[k].kind = "scan"
                                        THEN Canceled ELSE answer[k]]
    /\ UNCHANGED <<rx, held>>

(* The command for all nodes is canceled once the retry buffer was replayed. *)
CancelAll ==
    /\ rx = "canceling" /\ retry = <<>>
    /\ Respond(waiting, Canceled)
    /\ waiting' = 0 /\ rx' = "none"
    /\ UNCHANGED <<plan, sent, queue, held, retry, wireVars, inflight, reader, frames, received,
                   expected, pages, shifted, replayed, breaks, errors>>

(* The last copy of the responder of a call is gone: its oneshot channel closes. *)
Dropped(k) ==
    /\ k <= sent /\ answer[k] = Waiting /\ plan[k].kind # "scan"
    /\ ~HasCopies(k) /\ k \notin {c.call : c \in ToSet(queue) \cup ToSet(held)}
    /\ answer' = [answer EXCEPT ![k] = Canceled]
    /\ UNCHANGED <<plan, sent, queue, waiting, rx, held, retry, wireVars, inflight, reader, frames,
                   received, expected, pages, shifted, replayed, breaks, errors>>

-----------------------------------------------------------------------------
(* Nodes and the network. *)

Frame(c, part, error) == [call |-> c.call, idx |-> c.idx, part |-> part, error |-> error]
(* One frame, or one per channel for SUBSCRIBE and the like. *)
FramesOf(c) ==
    LET p == plan[c.call]
    IN [i \in 1..(IF p.kind \in {"multi", "bare"} THEN p.n ELSE 1) |-> Frame(c, i, FALSE)]

(* A node executes the next request; unsubscribing has no error of its own. *)
Serve(n) ==
    /\ link[n] = "up" /\ requests[n] # <<>>
    /\ LET c == Head(requests[n]) IN
       \/ /\ replies' = [replies EXCEPT ![n] = @ \o FramesOf(c)]
          /\ UNCHANGED errors
       \/ /\ errors < MaxErrors /\ ~plan[c.call].unsub
          /\ errors' = errors + 1
          /\ replies' = [replies EXCEPT ![n] = Append(@, Frame(c, 1, TRUE))]
    /\ requests' = [requests EXCEPT ![n] = Tail(@)]
    /\ UNCHANGED <<plan, sent, queue, waiting, rx, held, retry, link, inflight, reader, callVars,
                   shifted, replayed, breaks>>

Break(n) ==
    /\ link[n] = "up" /\ breaks < MaxBreaks
    /\ breaks' = breaks + 1
    /\ link' = [link EXCEPT ![n] = "down"]
    /\ requests' = [requests EXCEPT ![n] = <<>>]
    /\ replies' = [replies EXCEPT ![n] = <<>>]
    /\ UNCHANGED <<plan, sent, queue, waiting, rx, held, retry, inflight, reader, callVars,
                   shifted, replayed, errors>>

-----------------------------------------------------------------------------
(* The reader tasks. *)

(* respond_to_router: the sender is taken once. *)
Continue(k) == rx' = IF waiting = k /\ rx = "none" THEN "continue" ELSE rx

Item(f) == <<f.call, f.idx, f.part>>
(* merge_multiple_frames: the frames in order, arrays flattened one level; the first
   error is returned instead.  The frames are drained. *)
Merged(fs) ==
    IF \E i \in DOMAIN fs : fs[i].error THEN Failure
    ELSE Result(FlattenSeq([i \in DOMAIN fs |->
            IF fs[i].call # 0 /\ fs[i].idx \in plan[fs[i].call].arrays
            THEN <<<<fs[i].call, fs[i].idx, 1>>, <<fs[i].call, fs[i].idx, 2>>>>
            ELSE <<Item(fs[i])>>]))

FromFrame(f) == IF f.error THEN Failure ELSE Result(<<Item(f)>>)

(* Mutant: no frame is dropped. *)
ExtraNever(c, f) == FALSE
(* should_drop_extra_pubsub_frame *)
Extra(c, f) == plan[f.call].unsub /\ ~f.error /\ ~plan[c.call].unsub

(* process_response_frame, up to and including the response policies that a single
   task handles alone. *)
RespondOne(c, f) ==
    /\ plan[c.call].kind = "one" \/ plan[c.call].kind = "last"
    /\ IF plan[c.call].kind = "last" /\ c.idx < Len(plan[c.call].to)
       THEN UNCHANGED answer ELSE Respond(c.call, FromFrame(f))
    /\ Continue(c.call)
    /\ UNCHANGED <<received, pages>>
RespondMultiple(c, f) ==
    /\ plan[c.call].kind = "multi"
    /\ IF f.error
       THEN Respond(c.call, Failure) /\ Continue(c.call) /\ UNCHANGED received
       ELSE /\ received' = [received EXCEPT ![c.call] = @ + 1]
            /\ IF received'[c.call] = expected[c.call]
               THEN Respond(c.call, FromFrame(f)) /\ Continue(c.call)
               ELSE UNCHANGED <<answer, rx>>
    /\ UNCHANGED pages
RespondScan(c, f) ==
    /\ plan[c.call].kind = "scan"
    /\ IF f.error
       THEN Respond(c.call, Failure) /\ UNCHANGED pages
       ELSE /\ pages' = [pages EXCEPT ![c.call] = Append(@, c.idx)]
            /\ IF c.idx = plan[c.call].n THEN Respond(c.call, FromFrame(f)) ELSE UNCHANGED answer
    /\ Continue(c.call)
    /\ UNCHANGED received

Requeued(c, f) ==
    plan[c.call].kind = "multi" /\ ~f.error /\ received[c.call] + 1 # expected[c.call]

Read(n) ==
    /\ link[n] = "up" /\ reader[n] = NoWork /\ replies[n] # <<>>
    /\ replies' = [replies EXCEPT ![n] = Tail(@)]
    /\ LET f == Head(replies[n]) IN
       \/ /\ inflight[n] # <<>> => Extra(Head(inflight[n]), f)
          /\ UNCHANGED <<inflight, reader, received, answer, pages, rx>>
       \/ /\ inflight[n] # <<>> /\ ~Extra(Head(inflight[n]), f)
          /\ LET c == Head(inflight[n]) IN
             /\ inflight' = IF Requeued(c, f) THEN inflight ELSE [inflight EXCEPT ![n] = Tail(@)]
             /\ \/ /\ RespondOne(c, f) \/ RespondMultiple(c, f) \/ RespondScan(c, f)
                   /\ UNCHANGED reader
                \/ /\ plan[c.call].kind \in Buffered
                   /\ reader' = [reader EXCEPT ![n] = [at |-> "add", cmd |-> c, frame |-> f]]
                   /\ UNCHANGED <<received, answer, pages, rx>>
    /\ UNCHANGED <<plan, sent, queue, waiting, held, retry, link, requests, frames, expected,
                   shifted, replayed, breaks, errors>>

(* Mutant: the frame is counted before it is added. *)
AddFrameAfterCount(n) ==
    /\ LET c == reader[n].cmd IN
       \/ /\ reader[n].at = "add"
          /\ received' = [received EXCEPT ![c.call] = @ + 1]
          /\ reader' = [reader EXCEPT ![n].at =
                IF received'[c.call] = expected[c.call] THEN "last" ELSE "late"]
          /\ UNCHANGED frames
       \/ /\ reader[n].at \in {"last", "late"}
          /\ frames' = [frames EXCEPT ![c.call] =
                [i \in DOMAIN @ |-> IF i = c.idx THEN reader[n].frame ELSE @[i]]]
          /\ reader' = [reader EXCEPT ![n] = IF @.at = "last" THEN [@ EXCEPT !.at = "merge"] ELSE NoWork]
          /\ UNCHANGED received
    /\ UNCHANGED <<plan, sent, queue, waiting, rx, held, retry, wireVars, inflight, expected,
                   answer, pages, shifted, replayed, breaks, errors>>
(* respond_buffer, first step: add_buffered_frame, under the lock of the frames.  An
   index beyond them fails the caller and ends the reader task. *)
AddFrame(n) ==
    /\ reader[n].at = "add"
    /\ LET c == reader[n].cmd IN
       \/ /\ c.idx <= Len(frames[c.call])
          /\ frames' = [frames EXCEPT ![c.call][c.idx] = reader[n].frame]
          /\ reader' = [reader EXCEPT ![n].at = "count"]
          /\ UNCHANGED <<wireVars, answer, rx>>
       \/ /\ c.idx > Len(frames[c.call])
          /\ Respond(c.call, Failure) /\ Continue(c.call)
          /\ reader' = [reader EXCEPT ![n] = NoWork]
          /\ link' = [link EXCEPT ![n] = "down"]
          /\ requests' = [requests EXCEPT ![n] = <<>>]
          /\ replies' = [replies EXCEPT ![n] = <<>>]
          /\ UNCHANGED frames
    /\ UNCHANGED <<plan, sent, queue, waiting, held, retry, inflight, received, expected, pages,
                   shifted, replayed, breaks, errors>>

(* Second step: the shared counter. *)
CountFrame(n) ==
    /\ reader[n].at = "count"
    /\ LET k == reader[n].cmd.call IN
       /\ received' = [received EXCEPT ![k] = @ + 1]
       /\ reader' = IF received'[k] = expected[k] THEN [reader EXCEPT ![n].at = "merge"]
                    ELSE [reader EXCEPT ![n] = NoWork]
    /\ UNCHANGED <<plan, sent, queue, waiting, rx, held, retry, wireVars, inflight, frames,
                   expected, answer, pages, shifted, replayed, breaks, errors>>

(* Third step, of the task that saw the last frame: merge and respond. *)
MergeFrames(n) ==
    /\ reader[n].at = "merge"
    /\ LET k == reader[n].cmd.call IN
       /\ Respond(k, Merged(frames[k])) /\ Continue(k)
       /\ frames' = [frames EXCEPT ![k] = <<>>]
    /\ reader' = [reader EXCEPT ![n] = NoWork]
    /\ UNCHANGED <<plan, sent, queue, waiting, held, retry, wireVars, inflight, received,
                   expected, pages, shifted, replayed, breaks, errors>>

(* Mutant: a router that waits is not told. *)
ReaderEndsSilently(n) ==
    /\ link[n] = "down" /\ reader[n] = NoWork
    /\ link' = [link EXCEPT ![n] = "ended"]
    /\ UNCHANGED <<plan, sent, queue, waiting, rx, held, retry, requests, replies, inflight,
                   reader, callVars, shifted, replayed, breaks, errors>>
(* The reader task ends: check_blocked_router hands the front command back to a
   router that waits for it. *)
ReaderEnds(n) ==
    /\ link[n] = "down" /\ reader[n] = NoWork
    /\ link' = [link EXCEPT ![n] = "ended"]
    /\ LET hand == /\ waiting # 0 /\ rx = "none" /\ inflight[n] # <<>>
                   /\ Head(inflight[n]).call = waiting
       IN /\ rx' = IF hand THEN "closed" ELSE rx
          /\ held' = IF hand THEN <<Head(inflight[n])>> ELSE held
          /\ inflight' = IF hand THEN [inflight EXCEPT ![n] = Tail(@)] ELSE inflight
    /\ UNCHANGED <<plan, sent, queue, waiting, retry, requests, replies, reader, callVars,
                   shifted, replayed, breaks, errors>>

-----------------------------------------------------------------------------
Tasks ==
    \/ WriteNext \/ Replay \/ Unblocked
    \/ ReconnectIdle \/ ReconnectClosed \/ ReplayFails \/ CancelAll
    \/ \E k \in Calls : ScanNext(k) \/ Dropped(k)
    \/ \E n \in Nodes : Serve(n) \/ ReaderEnds(n)
    \/ \E n \in Nodes : Read(n) \/ AddFrame(n) \/ CountFrame(n) \/ MergeFrames(n)

Next == MakeCall \/ Tasks \/ \E n \in Nodes : Break(n)

Spec == Init /\ [][Next]_vars

(* The tasks keep running, connections are made again, servers answer, and the reader of
   a scan stream asks for every page.  Nothing makes a call or breaks a connection. *)
Fairness == WF_vars(Tasks)

FairSpec == Spec /\ Fairness

-----------------------------------------------------------------------------

(* What the caller of k is to see: the frames of its own commands, those of a pipeline
   in the order they were queued, with arrays flattened by one level. *)
Exact(k) ==
    LET p == plan[k] IN
    CASE p.kind = "pipe" ->
            FlattenSeq([i \in DOMAIN p.to |->
                [j \in 1..(IF i \in p.arrays THEN 2 ELSE 1) |-> <<k, i, j>>]])
      [] p.kind = "last" -> <<<<k, Len(p.to), 1>>>>
      [] p.kind = "multi" -> <<<<k, 1, answer[k].items[1][3]>>>>
      [] p.kind = "scan" -> <<<<k, p.n, 1>>>>
      [] OTHER -> <<<<k, 1, 1>>>>
Matched(k) ==
    (answer[k].kind = "ok" /\ plan[k].kind \notin {"all", "bare"} /\ ~plan[k].unsub)
        => answer[k].items = Exact(k)

(* A caller that gets a result gets exactly the frames of its own commands, whichever
   reader tasks delivered them, in whatever order, and whatever was replayed in
   between: respond_buffer counts a frame only once it is in the buffer, and each
   node's frame of a command for all nodes has an index of its own.  (Unless a
   Multiple response was replayed half-way, see RepliesMatched, or a command for all
   nodes was sent to some of them a second time.) *)
AnswersExact ==
    /\ ~shifted => \A k \in Calls : Matched(k)
    /\ \A k \in Calls \ replayed :
          (plan[k].kind = "all" /\ answer[k].kind = "ok") =>
              answer[k].items = [i \in 1..Cardinality(Nodes) |-> <<k, i, 1>>]

(* The documented promise of ResponseKind::Multiple, also across a reconnection: the
   counter of a SUBSCRIBE that is replayed after part of its frames starts where it
   was, so that the reply it does not wait for is handed to the next command. *)
RepliesMatched == \A k \in Calls : Matched(k)

Ids(s) == [i \in DOMAIN s |-> <<s[i].call, s[i].idx>>]
Counted(s) == SelectSeq(s, LAMBDA x : ~plan[x.call].unsub)
(* The first frame that is left of each command. *)
Firsts(s) == LET first == SelectSeq([i \in DOMAIN s |-> i], LAMBDA i : i = 1 \/ s[i].part = 1)
             IN [i \in DOMAIN first |-> s[first[i]]]
(* The shared buffer of a working connection holds exactly the commands whose frames
   are still to come, in the order of those frames: the frames of a bare UNSUBSCRIBE,
   which no command waits for, displace none of them. *)
InStep ==
    ~shifted => \A n \in Nodes :
        link[n] = "up" =>
            Ids(Counted(inflight[n])) =
                Ids(Firsts(Counted(replies[n]))) \o Ids(Counted(requests[n]))

(* The router waits for a command that a dead connection still holds behind another
   one: check_blocked_router only looks at the front of the shared buffer. *)
Stuck ==
    /\ waiting # 0 /\ rx = "none"
    /\ \E n \in Nodes : link[n] = "ended" /\ inflight[n] # <<>>
                      /\ waiting \in {c.call : c \in ToSet(Tail(inflight[n]))}

(* Every call that is made is answered in the end, unless the router is stuck for good. *)
Answered == <>[](\A k \in 1..sent : answer[k] # Waiting) \/ <>[]Stuck
=============================================================================
