------------------------------ MODULE Subscriber -----------------------------
(***************************************************************************)
(* The subscriber client.  It tracks the channels, patterns and shard      *)
(* channels of its calls in three sets, each updated when the reply of a   *)
(* call arrives, and a task re-subscribes to them after each reconnection. *)
(* Callers, the task and the router run in parallel; a broken connection   *)
(* takes the server's subscriptions with it and the router replays the     *)
(* commands that were not answered before it announces the reconnection.   *)
(***************************************************************************)
EXTENDS Naturals, Sequences, Functions

CONSTANTS
    Subscribers,       \* the callers, one call each
    Names,             \* names of channels, patterns and shard channels
    SubscriberTries,   \* max_command_attempts
    SubscriberBreaks   \* bound: broken connections

Manager == "manager"

ASSUME SubscriberAssumption ==
    /\ Manager \notin Subscribers
    /\ {SubscriberTries, SubscriberBreaks} \subseteq Nat

VARIABLES
    tracked,      \* the three tracked sets, as pairs of a kind and a name
    subscribed,   \* what the server sends to the connection
    todo,         \* the commands each caller and the manager still have to send
    stage,        \* of the first of them: idle, sent, executed, answered or failed
    subAhead,     \* those whose commands in flight are ahead of that command
    subTries,     \* the attempts of that command
    notes,        \* reconnection events the manager has not received
    subOnline,    \* whether the connection is up
    asked,        \* the topics each caller's call is about
    overlapped,   \* topics with a call that overlapped another or a reconnection
    subBreaks

subscriberVars == <<tracked, subscribed, todo, stage, subAhead, subTries, notes, subOnline, asked,
                    overlapped, subBreaks>>

Kinds == <<"channels", "patterns", "shard_channels">>
Topics == Range(Kinds) \X Names
Parties == Subscribers \union {Manager}
OfKind(topics, kind) == {topic \in topics : topic[1] = kind}

SubscriberInit ==
    /\ tracked = {} /\ subscribed = {}
    /\ todo = [p \in Parties |-> <<>>] /\ stage = [p \in Parties |-> "idle"]
    /\ subAhead = [p \in Parties |-> {}] /\ subTries = [p \in Parties |-> 0]
    /\ notes = 0 /\ subOnline = TRUE
    /\ asked = [p \in Subscribers |-> {}] /\ overlapped = {} /\ subBreaks = 0

(* One command of a plan: (P|S)SUBSCRIBE or (P|S)UNSUBSCRIBE of the topics of a kind. *)
Step(op, kind, topics) == [op |-> op, kind |-> kind, topics |-> OfKind(topics, kind)]
ForAllKinds(op, topics) == [i \in DOMAIN Kinds |-> Step(op, Kinds[i], topics)]

(* An *UNSUBSCRIBE without arguments means every topic of the kind. *)
Meant(step) ==
    IF step.op = "unsubscribe" /\ step.topics = {} THEN OfKind(Topics, step.kind) ELSE step.topics
Touched(plan) == UNION {Meant(plan[i]) : i \in DOMAIN plan}

(* A caller starts a call; the topics others are busy with are noted. *)
BeginCall(p, plan) ==
    /\ todo[p] = <<>> /\ asked[p] = {}
    /\ todo' = [todo EXCEPT ![p] = plan]
    /\ asked' = [asked EXCEPT ![p] = Touched(plan)]
    /\ overlapped' = overlapped \union
          (IF subOnline /\ notes = 0 /\ todo[Manager] = <<>>
           THEN Touched(plan) \intersect UNION {asked[q] : q \in {q \in Subscribers : todo[q] # <<>>}}
           ELSE Touched(plan))
    /\ UNCHANGED <<subscribed, stage, subAhead, subTries, notes, subOnline, subBreaks>>

subscribe(p, topic) == BeginCall(p, <<Step("subscribe", topic[1], {topic})>>) /\ UNCHANGED tracked
unsubscribe(p, topic) == BeginCall(p, <<Step("unsubscribe", topic[1], {topic})>>) /\ UNCHANGED tracked

(* unsubscribe_all empties the tracked sets first. *)
unsubscribe_all(p) == BeginCall(p, ForAllKinds("unsubscribe", tracked)) /\ tracked' = {}

(* A slip: shard channels are forgotten. *)
resubscribe_all_legacy == SubSeq(ForAllKinds("subscribe", tracked), 1, 2)

(* resubscribe_all reads the three sets, then subscribes one kind after the other. *)
resubscribe_all == ForAllKinds("subscribe", tracked)

(* manage_subscriptions: one reconnection event, one round. *)
manage_subscriptions ==
    /\ notes > 0 /\ todo[Manager] = <<>>
    /\ notes' = notes - 1
    /\ todo' = [todo EXCEPT ![Manager] = resubscribe_all]
    /\ UNCHANGED <<tracked, subscribed, stage, subAhead, subTries, subOnline, asked, overlapped,
                   subBreaks>>

(* The shared buffer of the connection. *)
InFlight == {p \in Parties : stage[p] \in {"sent", "executed"}}

(* The next command is queued; a SUBSCRIBE of nothing returns at once. *)
SendSubscription(p) ==
    /\ todo[p] # <<>> /\ stage[p] = "idle"
    /\ IF Head(todo[p]).op = "subscribe" /\ Head(todo[p]).topics = {}
       THEN todo' = [todo EXCEPT ![p] = Tail(@)] /\ UNCHANGED <<stage, subAhead, subTries>>
       ELSE /\ stage' = [stage EXCEPT ![p] = "sent"]
            /\ subAhead' = [subAhead EXCEPT ![p] = InFlight]
            /\ subTries' = [subTries EXCEPT ![p] = 1]
            /\ UNCHANGED todo
    /\ UNCHANGED <<tracked, subscribed, notes, subOnline, asked, overlapped, subBreaks>>

ServerExecutes(p) ==
    /\ subOnline /\ stage[p] = "sent"
    /\ \A q \in subAhead[p] : stage[q] # "sent"
    /\ subscribed' = IF Head(todo[p]).op = "subscribe" THEN subscribed \union Meant(Head(todo[p]))
                     ELSE subscribed \ Meant(Head(todo[p]))
    /\ stage' = [stage EXCEPT ![p] = "executed"]
    /\ UNCHANGED <<tracked, todo, subAhead, subTries, notes, subOnline, asked, overlapped, subBreaks>>

ReadReply(p) ==
    /\ subOnline /\ subAhead[p] = {} /\ stage[p] = "executed"
    /\ subAhead' = [q \in Parties |-> subAhead[q] \ {p}]
    /\ stage' = [stage EXCEPT ![p] = "answered"]
    /\ UNCHANGED <<tracked, subscribed, todo, subTries, notes, subOnline, asked, overlapped, subBreaks>>

(* The tracked set changes after the reply; an empty *UNSUBSCRIBE clears it. *)
Track(step) ==
    IF step.op = "subscribe" THEN tracked \union step.topics ELSE tracked \ Meant(step)

UpdateTracked(p) ==
    /\ stage[p] = "answered"
    /\ tracked' = Track(Head(todo[p]))
    /\ todo' = [todo EXCEPT ![p] = Tail(@)]
    /\ stage' = [stage EXCEPT ![p] = "idle"]
    /\ UNCHANGED <<subscribed, subAhead, subTries, notes, subOnline, asked, overlapped, subBreaks>>

(* A call that fails gives up its other commands. *)
CallFails(p) ==
    /\ stage[p] = "failed"
    /\ todo' = [todo EXCEPT ![p] = <<>>]
    /\ stage' = [stage EXCEPT ![p] = "idle"]
    /\ UNCHANGED <<tracked, subscribed, subAhead, subTries, notes, subOnline, asked, overlapped,
                   subBreaks>>

SubscriberBreak ==
    /\ subOnline /\ subBreaks < SubscriberBreaks
    /\ subBreaks' = subBreaks + 1
    /\ subOnline' = FALSE /\ subscribed' = {}
    /\ overlapped' = overlapped \union UNION {asked[q] : q \in {q \in Subscribers : todo[q] # <<>>}}
    /\ UNCHANGED <<tracked, todo, stage, subAhead, subTries, notes, asked>>

(* The router reconnects, replays what was not answered, then announces it. *)
SubscriberReconnect ==
    /\ ~subOnline
    /\ subOnline' = TRUE
    /\ LET lost == {p \in InFlight : subTries[p] >= SubscriberTries} IN
       /\ stage' = [p \in Parties |-> IF p \in lost THEN "failed"
                                      ELSE IF p \in InFlight THEN "sent" ELSE stage[p]]
       /\ subAhead' = [p \in Parties |-> IF p \in lost THEN {} ELSE subAhead[p] \ lost]
       /\ subTries' = [p \in Parties |-> IF p \in InFlight THEN subTries[p] + 1 ELSE subTries[p]]
    /\ notes' = notes + 1
    /\ UNCHANGED <<tracked, subscribed, todo, asked, overlapped, subBreaks>>

SubscriberTasks(p) ==
    SendSubscription(p) \/ ServerExecutes(p) \/ ReadReply(p) \/ UpdateTracked(p) \/ CallFails(p)

SubscriberNext ==
    \/ \E p \in Subscribers :
          \/ \E topic \in Topics : subscribe(p, topic) \/ unsubscribe(p, topic)
          \/ unsubscribe_all(p)
    \/ \E p \in Parties : SubscriberTasks(p)
    \/ manage_subscriptions
    \/ SubscriberBreak
    \/ SubscriberReconnect

SubscriberSpec == SubscriberInit /\ [][SubscriberNext]_subscriberVars
-----------------------------------------------------------------------------
(* When every call has returned and the manager has served every reconnection, the
   server's subscriptions are exactly the tracked ones, for each topic whose calls
   overlapped neither each other nor a reconnection: replays, rounds cut short by
   another broken connection, a bare UNSUBSCRIBE and calls about other topics in
   between do not matter. *)
SubscriptionsInSync ==
    (subOnline /\ notes = 0 /\ \A p \in Parties : todo[p] = <<>>)
        => tracked \ overlapped = subscribed \ overlapped
=============================================================================
