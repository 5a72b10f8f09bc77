------------------------------- MODULE Replies -------------------------------
(***************************************************************************)
(* What becomes of a frame the server sends, on a RESP2 and on a RESP3     *)
(* connection: the codec turns it into a RESP3 frame, pubsub messages are  *)
(* taken out, the frame of a response becomes a RedisValue in the way the  *)
(* command asks for, and the value becomes the type the caller asks for.   *)
(*                                                                         *)
(* Frames, values and types are tuples whose first element is their kind.  *)
(* A string is a model string; Binary stands for bytes that are not UTF-8. *)
(***************************************************************************)
EXTENDS Integers, Sequences, FiniteSets, SequencesExt, TLC

CONSTANTS
    Items   \* what servers send: a reply, message, pmessage or smessage, its frame, its
            \* layout (plain, scores, streams), how it is read and the type wanted

VARIABLES
    item,    \* a member of Items
    at,      \* how far it is, for each protocol
    held     \* what it has become

repliesVars == <<item, at, held>>

Protocols == {2, 3}
Binary == "\\xff"
Numbers == -1..3

Failed(x) == x[1] = "Err"
Err(kind) == <<"Err", kind>>

(* The first error of a sequence of results, or what f makes of them. *)
Collect(results, f(_)) ==
    IF \E i \in DOMAIN results : Failed(results[i])
    THEN results[CHOOSE i \in DOMAIN results : Failed(results[i]) /\ \A j \in 1..(i - 1) : ~Failed(results[j])]
    ELSE f(results)

Each(f(_), s) == [i \in DOMAIN s |-> f(s[i])]

(* str::parse for numbers *)
IsNumber(s) == \E n \in Numbers : ToString(n) = s
ParsedNumber(s) == CHOOSE n \in Numbers : ToString(n) = s
-----------------------------------------------------------------------------
(* From the wire to a RESP3 frame.                                         *)

(* How a server writes a RESP3 reply for a RESP2 client.  Scores are not paired with
   their members there, and streams are paired with their entries. *)
RECURSIVE Resp2Form(_)
Resp2Form(f) ==
    CASE f[1] = "Double" -> <<"Blob", ToString(f[2])>>
      [] f[1] = "Boolean" -> <<"Number", IF f[2] THEN 1 ELSE 0>>
      [] f[1] \in {"Array", "Set", "Push"} -> <<"Array", Each(Resp2Form, f[2])>>
      [] f[1] = "Map" -> <<"Array", FlattenSeq(Each(LAMBDA kv : <<Resp2Form(kv[1]), Resp2Form(kv[2])>>, f[2]))>>
      [] OTHER -> f

OnWire(i, p) ==
    CASE p = 3 -> i.frame
      [] p = 2 /\ i.layout = "plain" -> Resp2Form(i.frame)
      [] p = 2 /\ i.layout = "scores" -> <<"Array", FlattenSeq(Each(LAMBDA pair : Resp2Form(pair)[2], i.frame[2]))>>
      [] p = 2 /\ i.layout = "streams" -> <<"Array", Each(LAMBDA kv : <<"Array", kv>>, i.frame[2])>>

Head1(f) == IF f[1] \in {"Array", "Push"} /\ f[2] # <<>> /\ f[2][1][1] \in {"Blob", "Simple"} THEN f[2][1][2] ELSE ""

(* redis_protocol: RESP2 messages become push frames with a "pubsub" prefix. *)
resp2_frame_to_resp3(f) ==
    IF \/ Head1(f) = "message" /\ Len(f[2]) = 3
       \/ Head1(f) = "pmessage" /\ Len(f[2]) = 4
    THEN <<"Push", <<<<"Simple", "pubsub">>>> \o f[2]>>
    ELSE f

into_resp3(f, p) == IF p = 2 THEN resp2_frame_to_resp3(f) ELSE f

-----------------------------------------------------------------------------
(* Pubsub messages.                                                        *)

is_pubsub_message(f) == f[1] = "Push" /\ Head1(f) = "pubsub"

(* A slip: only push frames are looked at. *)
check_pubsub_formats_push(f) ==
    [resp3 |-> is_pubsub_message(f),
     resp2 |-> ~is_pubsub_message(f) /\ f[1] = "Push"]

check_pubsub_formats(f) ==
    [resp3 |-> is_pubsub_message(f),
     resp2 |-> /\ ~is_pubsub_message(f)
               /\ Head1(f) \in {"message", "pmessage", "smessage"}
               /\ Len(f[2]) \in {3, 4}]

MessageKinds == {"message", "pmessage", "smessage"}
StrAt(f, i) == IF f[2][i][1] \in {"Blob", "Simple"} THEN f[2][i][2] ELSE ""

(* The last two frames are the channel and the value. *)
parse_message_fields(f, kind) == <<"Message", kind, StrAt(f, Len(f[2]) - 1), StrAt(f, Len(f[2]))>>

IsShard(f) ==
    /\ f[1] \in {"Array", "Push"} /\ Len(f[2]) \in 3..5
    /\ Head1(f) = "smessage" \/ (Head1(f) = "pubsub" /\ StrAt(f, 2) = "smessage")

parse_message_kind(f) ==
    CASE Len(f[2]) = 3 -> StrAt(f, 1)
      [] Len(f[2]) = 4 -> IF StrAt(f, 2) \in MessageKinds THEN StrAt(f, 2) ELSE StrAt(f, 1)
      [] Len(f[2]) = 5 -> IF StrAt(f, 2) \in MessageKinds THEN StrAt(f, 2) ELSE StrAt(f, 3)
      [] OTHER -> ""

frame_to_pubsub(f) ==
    IF IsShard(f) THEN parse_message_fields(f, "smessage")
    ELSE IF parse_message_kind(f) \in MessageKinds THEN parse_message_fields(f, parse_message_kind(f))
    ELSE Err("Protocol")

parse_as_resp2_pubsub(f) ==
    IF IsShard(f) THEN parse_message_fields(f, "smessage")
    ELSE IF f[1] = "Push" THEN frame_to_pubsub(<<"Push", <<<<"Simple", "pubsub">>>> \o f[2]>>)
    ELSE Err("Protocol")

(* parse_keyspace_notification: the listeners of two channels get an event instead. *)
Keyspace == "__keyspace@0__:k"
Keyevent == "__keyevent@0__:set"
Broadcast(m) ==
    CASE m[3] = Keyspace -> <<"KeyspaceEvent", "k", m[4]>>
      [] m[3] = Keyevent -> <<"KeyspaceEvent", m[4], "set">>
      [] OTHER -> m

-----------------------------------------------------------------------------
(* From a frame to a RedisValue.                                           *)

string_or_bytes(d) == IF d = Binary THEN <<"Bytes", d>> ELSE <<"Str", d>>

Scalar(f) ==
    CASE f[1] = "Null" -> <<"Null">>
      [] f[1] = "Simple" -> IF f[2] = "QUEUED" THEN <<"Queued">> ELSE string_or_bytes(f[2])
      [] f[1] = "Error" -> Err("server")
      [] f[1] = "Blob" -> string_or_bytes(f[2])
      [] f[1] = "Number" -> <<"Int", f[2]>>
      [] f[1] = "Double" -> <<"Dbl", f[2]>>
      [] f[1] = "Boolean" -> <<"Bool", f[2]>>

Aggregate(f) == f[1] \in {"Array", "Push", "Set", "Map"}

RECURSIVE frame_to_single_result(_)
frame_to_single_result(f) ==
    CASE ~Aggregate(f) -> Scalar(f)
      [] f[1] \in {"Map", "Set"} -> Err("Protocol")
      [] f[1] \in {"Array", "Push"} ->
           IF Len(f[2]) = 0 THEN <<"Null">>
           ELSE IF Len(f[2]) > 1 \/ f[2][1][1] \in {"Array", "Error"} THEN Err("Protocol")
           ELSE frame_to_single_result(f[2][1])

(* TryFrom<RedisValue> for RedisKey *)
IntoKey(v) ==
    CASE v[1] \in {"Str", "Bytes"} -> <<"Key", v[2]>>
      [] v[1] \in {"Int", "Dbl"} -> <<"Key", ToString(v[2])>>
      [] v[1] = "Bool" -> <<"Key", IF v[2] THEN "true" ELSE "false">>
      [] v[1] = "Queued" -> <<"Key", "QUEUED">>
      [] v[1] = "Err" -> v
      [] OTHER -> Err("InvalidArgument")

(* A map of the pairs of a sequence; of equal keys the first one counts where pairs are
   taken from the end. *)
RedisMap(pairs) ==
    <<"Map", [k \in {pairs[i][1] : i \in DOMAIN pairs} |->
                pairs[CHOOSE i \in DOMAIN pairs : pairs[i][1] = k /\ \A j \in 1..(i - 1) : pairs[j][1] # k][2]]>>

MapOf(keys, values) ==
    Collect(keys \o values, LAMBDA all : RedisMap([i \in DOMAIN keys |-> <<keys[i][2], values[i]>>]))

Odds(s) == [i \in 1..(Len(s) \div 2) |-> s[(2 * i) - 1]]
Evens(s) == [i \in 1..(Len(s) \div 2) |-> s[2 * i]]

(* frame_to_results and frame_to_results_raw differ in arrays of one element only. *)
RECURSIVE Results(_, _)
Results(f, unwrap) ==
    CASE ~Aggregate(f) -> Scalar(f)
      [] f[1] \in {"Array", "Push"} ->
           Collect(Each(LAMBDA g : Results(g, unwrap), f[2]),
                   LAMBDA out : IF unwrap /\ Len(out) = 1 THEN out[1] ELSE <<"Arr", out>>)
      [] f[1] = "Set" -> Collect(Each(LAMBDA g : Results(g, unwrap), f[2]), LAMBDA out : <<"Arr", out>>)
      [] f[1] = "Map" -> MapOf(Each(LAMBDA kv : IntoKey(frame_to_single_result(kv[1])), f[2]),
                               Each(LAMBDA kv : Results(kv[2], unwrap), f[2]))

frame_to_results(f) == Results(f, TRUE)

(* A slip: the single entry of a stream is unwrapped. *)
frame_to_results_unwrapping(f) == Results(f, TRUE)

frame_to_results_raw(f) == Results(f, FALSE)

frame_to_map(f) ==
    CASE f[1] = "Array" -> IF Len(f[2]) % 2 # 0 THEN Err("Protocol")
                           ELSE MapOf(Each(LAMBDA k : IntoKey(frame_to_single_result(k)), Odds(f[2])),
                                      Each(frame_to_results, Evens(f[2])))
      [] f[1] = "Map" -> frame_to_results(f)
      [] OTHER -> Err("Protocol")

(* expect_ok: a QUEUED status has become another value by now. *)
expect_ok(v) == IF v[1] = "Str" /\ v[2] \in {"OK", "QUEUED"} THEN <<"Ok">> ELSE Err("Unknown")

(* What the command makes of its response. *)
ToValue(f, how) ==
    CASE how = "results" -> frame_to_results(f)
      [] how = "raw" -> frame_to_results_raw(f)
      [] how = "single" -> frame_to_single_result(f)
      [] how = "map" -> frame_to_map(f)
      [] how = "ok" -> expect_ok(frame_to_results(f))

-----------------------------------------------------------------------------
(* From a RedisValue to the type of the caller.                            *)

Only(v) == IF v[1] = "Arr" /\ Len(v[2]) = 1 THEN v[2][1] ELSE v

(* to_signed_number *)
ToNumber(v) ==
    LET w == Only(v)
    IN  CASE w[1] = "Int" -> w
          [] w[1] = "Dbl" /\ v[1] = "Dbl" -> <<"Int", w[2]>>
          [] w[1] = "Str" -> IF IsNumber(w[2]) THEN <<"Int", ParsedNumber(w[2])>> ELSE Err("Parse")
          [] w[1] = "Null" -> Err("NotFound")
          [] OTHER -> Err("Parse")

RECURSIVE as_f64(_)
as_f64(v) ==
    CASE v[1] \in {"Dbl", "Int"} -> <<"Dbl", v[2]>>
      [] v[1] = "Str" -> IF IsNumber(v[2]) THEN <<"Dbl", ParsedNumber(v[2])>> ELSE Err("Parse")
      [] v[1] = "Arr" /\ Len(v[2]) = 1 -> as_f64(v[2][1])
      [] OTHER -> Err("Parse")

RECURSIVE as_bool(_)
as_bool(v) ==
    CASE v[1] = "Bool" -> v
      [] v[1] = "Int" /\ v[2] \in {0, 1} -> <<"Bool", v[2] = 1>>
      [] v[1] = "Str" /\ v[2] \in {"true", "1"} -> <<"Bool", TRUE>>
      [] v[1] = "Str" /\ v[2] \in {"false", "0"} -> <<"Bool", FALSE>>
      [] v[1] = "Null" -> <<"Bool", FALSE>>
      [] v[1] = "Arr" /\ Len(v[2]) = 1 -> as_bool(v[2][1])
      [] OTHER -> Err("Parse")

RECURSIVE into_string(_)
into_string(v) ==
    CASE v[1] = "Str" -> v
      [] v[1] \in {"Int", "Dbl"} -> <<"Str", ToString(v[2])>>
      [] v[1] = "Bool" -> <<"Str", IF v[2] THEN "true" ELSE "false">>
      [] v[1] = "Queued" -> <<"Str", "QUEUED">>
      [] v[1] = "Arr" /\ Len(v[2]) = 1 -> into_string(v[2][1])
      [] OTHER -> Err("Parse")

RECURSIVE into_bytes(_)
into_bytes(v) ==
    CASE v[1] \in {"Str", "Bytes"} -> <<"Bytes", v[2]>>
      [] v[1] = "Int" -> <<"Bytes", ToString(v[2])>>
      [] v[1] = "Null" -> <<"Bytes", "NULL">>
      [] v[1] = "Queued" -> <<"Bytes", "QUEUED">>
      [] v[1] = "Arr" /\ Len(v[2]) = 1 -> into_bytes(v[2][1])
      [] OTHER -> Err("Parse")

KeyValue(k) == IF k = Binary THEN <<"Bytes", k>> ELSE <<"Str", k>>

into_map(v) ==
    CASE v[1] = "Map" -> v
      [] v[1] = "Arr" /\ Len(v[2]) % 2 = 0 -> MapOf(Each(IntoKey, Odds(v[2])), Evens(v[2]))
      [] OTHER -> Err("Parse")

into_array(v) ==
    CASE v[1] = "Arr" -> v[2]
      [] v[1] = "Map" -> FlattenSeq(Each(LAMBDA k : <<KeyValue(k), v[2][k]>>, SetToSeq(DOMAIN v[2])))
      [] OTHER -> <<v>>

RECURSIVE flatten_nested_array_values(_, _)
flatten_nested_array_values(v, depth) ==
    IF depth = 0 THEN v
    ELSE CASE v[1] = "Arr" ->
                <<"Arr", FlattenSeq(Each(LAMBDA w : IF w[1] = "Arr"
                                                   THEN Each(LAMBDA x : flatten_nested_array_values(x, depth - 1), w[2])
                                                   ELSE <<w>>, v[2]))>>
           [] v[1] = "Map" ->
                <<"Map", [k \in DOMAIN v[2] |-> IF v[2][k][1] = "Arr"
                                               THEN flatten_nested_array_values(v[2][k], depth - 1) ELSE v[2][k]]>>
           [] OTHER -> v

RECURSIVE flatten_redis_value(_)
flatten_redis_value(v) ==
    IF v[1] # "Arr" THEN v
    ELSE <<"Arr", FlattenSeq(Each(LAMBDA w : into_array(flatten_redis_value(w)), v[2]))>>

(* Pairs of a value and its score are taken from the end, so the last one comes first. *)
value_to_zset_result(v) ==
    LET flat == flatten_redis_value(v)
    IN  IF flat[1] # "Arr" \/ Len(flat[2]) % 2 # 0 THEN Err("Unknown")
        ELSE Collect(Each(as_f64, Evens(flat[2])),
                     LAMBDA scores : <<"Vec", Reverse([i \in DOMAIN scores |->
                                                         <<"Pair", Odds(flat[2])[i], scores[i]>>])>>)

(* FromRedis *)
RECURSIVE from_value(_, _)
from_value(t, v) ==
    LET from_values(values) ==
            IF t[2][1] # "Pair" THEN Collect(Each(LAMBDA w : from_value(t[2], w), values), LAMBDA s : <<"Vec", s>>)
            ELSE IF Len(values) % 2 # 0 THEN Err("Parse")
            ELSE Collect([i \in 1..(Len(values) \div 2) |->
                            from_value(t[2], <<"Arr", <<values[(2 * i) - 1], values[2 * i]>>>>)],
                         LAMBDA s : <<"Vec", s>>)
    IN
    IF Failed(v) THEN v ELSE
    CASE t[1] = "Value" -> v
      [] t[1] = "i64" -> ToNumber(v)
      [] t[1] = "f64" -> IF v[1] = "Null" THEN Err("NotFound") ELSE as_f64(v)
      [] t[1] = "bool" -> IF v[1] = "Null" THEN Err("NotFound") ELSE as_bool(v)
      [] t[1] = "String" -> IF v[1] = "Null" THEN <<"Str", "nil">> ELSE into_string(v)
      [] t[1] = "Bytes" -> into_bytes(v)
      [] t[1] = "Opt" -> IF v[1] = "Null" THEN <<"None">> ELSE from_value(t[2], v)
      [] t[1] = "Vec" ->
           CASE v[1] = "Arr" -> from_values(v[2])
             [] v[1] = "Map" -> from_values(into_array(v))
             [] v[1] = "Null" -> <<"Vec", <<>>>>
             [] v[1] = "Bytes" -> Err("Parse")
             [] v[1] = "Queued" -> from_values(<<<<"Str", "QUEUED">>>>)
             [] OTHER -> Collect(<<from_value(t[2], v)>>, LAMBDA s : <<"Vec", s>>)
      [] t[1] = "Set" -> Collect(Each(LAMBDA w : from_value(t[2], w), into_array(v)),
                                 LAMBDA s : <<"Set", ToSet(s)>>)
      [] t[1] = "Map" ->
           CASE v[1] = "Null" -> Err("NotFound")
             [] v[1] \in {"Arr", "Map"} ->
                  LET m == into_map(v)
                  IN  IF Failed(m) THEN Err("Parse")
                      ELSE LET vs == [k \in DOMAIN m[2] |-> from_value(t[2], m[2][k])]
                           IN  IF \E k \in DOMAIN vs : Failed(vs[k]) THEN Err("Parse") ELSE <<"Map", vs>>
             [] OTHER -> Err("Parse")
      [] t[1] = "Pair" ->
           IF v[1] # "Arr" \/ Len(v[2]) # 2 THEN Err("Parse")
           ELSE Collect(<<from_value(t[2], v[2][1]), from_value(t[3], v[2][2])>>, LAMBDA s : <<"Pair", s[1], s[2]>>)
      [] t[1] = "zset" -> value_to_zset_result(v)
      [] t[1] = "xread" -> from_value(<<"Map", <<"Vec", <<"Pair", t[2], <<"Map", t[3]>>>>>>>>,
                                      flatten_nested_array_values(v, 2))

-----------------------------------------------------------------------------
RepliesInit ==
    /\ item \in Items
    /\ at = [p \in Protocols |-> "wire"]
    /\ held = [p \in Protocols |-> OnWire(item, p)]

Becomes(p, from, to, x) ==
    /\ at[p] = from
    /\ at' = [at EXCEPT ![p] = to]
    /\ held' = [held EXCEPT ![p] = x]
    /\ UNCHANGED item

decode(p) == Becomes(p, "wire", "frame", into_resp3(held[p], p))

(* check_pubsub_message: a message that cannot be parsed is dropped. *)
check_pubsub_message(p) ==
    LET formats == check_pubsub_formats(held[p])
        parsed == IF formats.resp3 THEN frame_to_pubsub(held[p]) ELSE parse_as_resp2_pubsub(held[p])
    IN  /\ at[p] = "frame"
        /\ IF ~formats.resp3 /\ ~formats.resp2 THEN Becomes(p, "frame", "response", held[p])
           ELSE IF Failed(parsed) THEN Becomes(p, "frame", "dropped", held[p])
           ELSE Becomes(p, "frame", "broadcast", Broadcast(parsed))

Respond(p) == at[p] = "response" /\ Becomes(p, "response", "value", ToValue(held[p], item.how))

convert(p) == at[p] = "value" /\ Becomes(p, "value", "done", from_value(item.want, held[p]))

RepliesNext == \E p \in Protocols : decode(p) \/ check_pubsub_message(p) \/ Respond(p) \/ convert(p)

RepliesSpec == RepliesInit /\ [][RepliesNext]_repliesVars
-----------------------------------------------------------------------------
(* The caller gets the same from a RESP2 and from a RESP3 connection for the ways
   commands read maps, sets, scores, streams, doubles and booleans: protocol/types.rs
   turns every frame into RESP3 and leaves the rest to the conversions. *)
ProtocolsAgree ==
    at[2] = "done" /\ at[3] = "done" => held[2] = held[3] /\ ~Failed(held[2])

LooksLikeMessage(f) == f[1] = "Array" /\ Head1(f) \in MessageKinds /\ Len(f[2]) \in {3, 4}

(* Every message a server publishes reaches the listeners with its kind, channel and
   value in both protocols, and a response reaches its command unless it is an array
   that reads like a message. *)
MessagesDelivered ==
    \A p \in Protocols :
        /\ item.kind # "reply" =>
             /\ at[p] \notin {"response", "dropped", "value", "done"}
             /\ at[p] = "broadcast" =>
                  held[p] = Broadcast(<<"Message", item.kind, item.frame[2][Len(item.frame[2]) - 1][2],
                                        item.frame[2][Len(item.frame[2])][2]>>)
        /\ item.kind = "reply" /\ ~LooksLikeMessage(item.frame) => at[p] \notin {"broadcast", "dropped"}

=============================================================================
