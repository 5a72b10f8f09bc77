------------------------------- MODULE MCData --------------------------------
(***************************************************************************)
(* Instances of the parts that decide by value: where a command is routed, *)
(* how a reply is converted, how long a reconnection waits, and what a     *)
(* subscriber tracks.  A behaviour is one of one of them; the others stay  *)
(* where they start.                                                       *)
(***************************************************************************)
EXTENDS KeyRouting, Replies, ReconnectPolicy, Subscriber

VARIABLE part   \* the part that moves

(* Three nodes and three slots: two keys in slot 1, one in slot 2, every other string
   in slot 3.  The client's id hashes to slot 2.  In the second table slot 1 has moved,
   in the third slot 2 has no owner. *)
MCKeys == {"k1", "k2", "k3"}
MCKeySlot == [k \in MCKeys |-> IF k = "k3" THEN 2 ELSE 1]
MCTables == {<<"a", "b", "c">>, <<"b", "b", "c">>, <<"a", NoNode, "c">>}

(* Every policy, with no limit or one of two attempts, with and without jitter, and
   delays whose product leaves the width of the arithmetic. *)
MCPolicies ==
    [kind : PolicyKinds, attempts : {0}, max_attempts : {0, 2}, delay : {0, 3}, max_delay : {7},
     mult : {0, 1, 3}, jitter : {0, 2}]

(* Replies of every shape a conversion tells apart, and pubsub messages whose names and
   payloads look like the words the parser looks for. *)
Text(s) == <<"Blob", s>>
Reply(frame, layout, how, want) == [kind |-> "reply", frame |-> frame, layout |-> layout, how |-> how, want |-> want]
AsString == <<"String">>
Seqs(S, n) == UNION {[1..k -> S] : k \in 0..n}
Distinct(S, n) == {s \in Seqs(S, n) : \A i, j \in DOMAIN s : i # j => s[i] # s[j]}

SetReplies ==
    {Reply(<<"Set", s>>, "plain", "results", <<"Set", <<"Bytes">>>>) : s \in Distinct({Text("a"), Text("b"), Text(Binary)}, 3)}
    \union {Reply(<<"Set", s>>, "plain", "results", <<"Vec", AsString>>) : s \in Distinct({Text("a"), Text("1"), <<"Number", 2>>}, 3)}

Pairs(keys, values) == {<<<<k, v>>>> : k \in keys, v \in values}
                       \union {<<<<k, v>>, <<l, w>>>> : k \in keys, l \in keys, v \in values, w \in values}
Field == {Text("k1"), Text("k2")}
Maps(values) == {s \in Pairs(Field, values) \union {<<>>} : Len(s) = 2 => s[1][1] # s[2][1]}
MapReplies ==
    {Reply(<<"Map", s>>, "plain", how, <<"Map", want>>) :
        s \in Maps({Text("a"), <<"Number", 1>>, <<"Double", 2>>}), how \in {"map", "results"}, want \in {AsString}}
    \union {Reply(<<"Map", s>>, "plain", how, <<"Map", <<"Vec", AsString>>>>) :
        s \in Maps({<<"Array", <<Text("a")>>>>, <<"Array", <<Text("a"), Text("b")>>>>}), how \in {"map", "results"}}

ScoreReplies ==
    {Reply(<<"Array", [i \in DOMAIN s |-> <<"Array", <<Text(s[i]), <<"Double", i>>>>>>]>>, "scores", "results", <<"zset">>) :
        s \in Distinct({"a", "b", "1"}, 3)}

Entry == {<<"Array", <<Text("1"), <<"Array", s>>>>>> : s \in {<<Text("f"), Text("v")>>, <<Text("f"), Text("v"), Text("g"), Text("w")>>}}
StreamReplies ==
    {Reply(<<"Map", s>>, "streams", "raw", <<"xread", AsString, AsString>>) :
        s \in Maps({<<"Array", e>> : e \in Seqs(Entry, 2) \ {<<>>}}) \ {<<>>}}

ScalarReplies ==
    {Reply(<<"Double", n>>, "plain", how, <<"f64">>) : n \in 0..2, how \in {"results", "raw", "single"}}
    \union {Reply(<<"Boolean", b>>, "plain", how, <<"bool">>) : b \in BOOLEAN, how \in {"results", "raw", "single"}}
    \union {Reply(<<"Number", n>>, "plain", how, <<"i64">>) : n \in -1..2, how \in {"results", "raw", "single"}}
    \union {Reply(<<"Null">>, "plain", how, <<"Opt", t>>) : t \in {<<"i64">>, AsString}, how \in {"results", "raw", "single"}}
    \union {Reply(<<"Simple", "OK">>, "plain", "ok", <<"Value">>)}

ListReplies ==
    {Reply(<<"Array", s>>, "plain", "raw", <<"Vec", <<"Opt", AsString>>>>) : s \in Seqs({Text("message"), Text("a"), <<"Null">>}, 4)}

Message(kind, s) == [kind |-> kind, frame |-> <<"Push", s>>, layout |-> "plain", how |-> "raw", want |-> <<"Value">>]
Messages ==
    {Message(k, <<Text(k), Text(c), Text(v)>>) :
        k \in {"message", "smessage"}, c \in {"chan", "message", "smessage", "pubsub", Keyspace, Keyevent}, v \in {"a", "message"}}
    \union {Message("pmessage", <<Text("pmessage"), Text(q), Text(c), Text("a")>>) :
        q \in {"pat", "message", "smessage"}, c \in {"chan", "message", Keyspace}}

MCItems == SetReplies \union MapReplies \union ScoreReplies \union StreamReplies \union ScalarReplies
           \union ListReplies \union Messages

MCInit ==
    /\ part \in {"routing", "replies", "policy", "subscriber"}
    /\ Init /\ (part # "routing" => ~clustered /\ owner = <<"a", "b", "c">>)
    /\ RepliesInit /\ (part # "replies" => item = CHOOSE i \in Items : TRUE)
    /\ PolicyInit /\ (part # "policy" => policy = CHOOSE p \in Policies : TRUE)
    /\ SubscriberInit

MCNext ==
    \/ part = "routing" /\ Next /\ UNCHANGED <<part, repliesVars, policyVars, subscriberVars>>
    \/ part = "replies" /\ RepliesNext /\ UNCHANGED <<part, vars, policyVars, subscriberVars>>
    \/ part = "policy" /\ PolicyNext /\ UNCHANGED <<part, vars, repliesVars, subscriberVars>>
    \/ part = "subscriber" /\ SubscriberNext /\ UNCHANGED <<part, vars, repliesVars, policyVars>>

MCSpec == MCInit /\ [][MCNext]_<<part, vars, repliesVars, policyVars, subscriberVars>>
=============================================================================
