-------------------------- MODULE CommandBuilders --------------------------
(***************************************************************************)
(* The functions of src/commands/impls that turn a caller's keys, values   *)
(* and options into a command: for each of them the set of argument lists  *)
(* it can build, with the cluster hashing policy and the pipelining flag   *)
(* it sets.  A function that refuses its inputs returns an error before it *)
(* sends anything; those inputs are left out of its set.                   *)
(*                                                                         *)
(* An argument is a pair <<type, content>>.  Keys are told apart; every    *)
(* other string or blob of the caller is the one argument Str, every       *)
(* keyword is itself, integers matter where they count keys.               *)
(***************************************************************************)
EXTENDS Integers, Sequences, FiniteSets

CONSTANTS
  Keys,         \* the keys a caller uses
  KeySlot,      \* [Keys -> slots 1..], redis_keyslot of a key
  ClientSlot,   \* redis_keyslot of the client's id
  OtherSlot     \* the slot every string that is not a key hashes to

(***************************************************************************)
(* Languages: sets of argument lists.                                      *)
(***************************************************************************)
A ** B == {a \o b : a \in A, b \in B}

Arg(type, x) == {<<<<type, x>>>>}

Opt(A) == A \cup {<<>>}

Some(A) == A \cup A ** A

Many(A) == Opt(Some(A))

None == {<<>>}

Key == UNION {Arg("key", k) : k \in Keys}

Str == Arg("str", "any")

W(word) == Arg("str", word)

Num == Arg("int", 0)

Double == Arg("double", 0)

\* Mutant of Counted: the count counts itself.
CountedOneMore(lists) == UNION {Arg("int", Len(ks) + 1) ** {ks} : ks \in lists}

\* The number of keys, then the keys.
Counted(lists) == UNION {Arg("int", Len(ks)) ** {ks} : ks \in lists}

CountedWithDest == Key ** Counted(Some(Key))

(***************************************************************************)
(* Commands.  A custom command carries a policy and a blocking flag of its *)
(* own inside its kind; a SCAN may carry a hash slot in its responder.     *)
(***************************************************************************)
FirstKey == <<"FirstKey", 0>>

FirstValue == <<"FirstValue", 0>>

Random == <<"Random", 0>>

Offset(n) == <<"Offset", n>>

Custom(slot) == <<"Custom", slot>>

NoSlot == 0

Default == [policy |-> FirstKey, blocking |-> FALSE]

Command(kind, args, hasher, canPipeline) ==
  [kind |-> kind, args |-> args, hasher |-> hasher,
   can_pipeline |-> canPipeline, custom |-> Default, scan_slot |-> NoSlot]

Commands(kinds, lists) ==
  {Command(kind, args, FirstKey, TRUE) : kind \in kinds, args \in lists}

(***************************************************************************)
(* acl.rs, client.rs, cluster.rs, config.rs, memory.rs, slowlog.rs: server *)
(* administration.  A first string argument is hashed like a key although  *)
(* it is none.                                                             *)
(***************************************************************************)
AclCommands ==
  Commands({"AclLoad", "AclSave", "AclList", "AclUsers", "AclWhoAmI"}, None)
    \cup Commands({"AclSetUser"}, Str ** Many(Str))
    \cup Commands({"AclGetUser"}, Str)
    \cup Commands({"AclDelUser"}, Many(Str))
    \cup Commands({"AclCat"}, Opt(Str))
    \cup Commands({"AclGenPass"}, Opt(Num))
    \cup Commands({"AclLog"}, W("RESET") \cup Opt(Num))

ClientCommands ==
  Commands({"ClientID", "ClientInfo", "ClientGetName", "ClientUnpause"}, None)
    \cup Commands({"ClientKill"}, Many(Str ** Str))
    \cup Commands({"ClientList"}, Opt(W("TYPE") ** Str) ** Opt(W("ID") ** Some(Str)))
    \cup Commands({"ClientPause"}, Num ** Opt(Str))
    \cup Commands({"ClientSetname", "ClientReply"}, Str)

ClusterCommands ==
  Commands({"ClusterBumpEpoch", "ClusterFlushSlots", "ClusterMyID",
            "ClusterNodes", "ClusterSaveConfig", "ClusterSlots", "ClusterInfo"}, None)
    \cup Commands({"ClusterAddSlots", "ClusterDelSlots"}, Many(Num))
    \cup Commands({"ClusterCountFailureReports", "ClusterForget"}, Str)
    \cup Commands({"ClusterCountKeysInSlot"}, Num)
    \cup Commands({"ClusterFailOver"}, Opt(Str))
    \cup Commands({"ClusterGetKeysInSlot"}, Num ** Num)

ClusterNodeCommands ==
  Commands({"ClusterKeySlot"}, Key)
    \cup Commands({"ClusterMeet"}, Str ** Num)
    \cup Commands({"ClusterReplicate", "ClusterReplicas"}, Str)
    \cup Commands({"ClusterReset"}, Opt(Str))
    \cup Commands({"ClusterSetConfigEpoch"}, Num)
    \cup Commands({"ClusterSetSlot"}, Num ** Str ** Opt(Str))

ConfigCommands ==
  Commands({"ConfigResetStat", "ConfigRewrite"}, None)
    \cup Commands({"ConfigGet"}, Str)
    \cup Commands({"ConfigSet"}, Str ** Str)

MemoryCommands ==
  Commands({"MemoryDoctor", "MemoryMallocStats", "MemoryPurge", "MemoryStats"}, None)
    \cup Commands({"MemoryUsage"}, Key ** Opt(W("SAMPLES") ** Num))

SlowlogCommands ==
  Commands({"Slowlog"}, W("GET") ** Opt(Num) \cup W("LEN") \cup W("RESET"))

(***************************************************************************)
(* geo.rs                                                                  *)
(***************************************************************************)
CountAny == Opt(W("COUNT") ** Num ** Opt(W("ANY")))

GeoWith == Opt(W("WITHCOORD")) ** Opt(W("WITHDIST")) ** Opt(W("WITHHASH"))

GeoMemberCommands ==
  Commands({"GeoAdd"}, Key ** Opt(Str) ** Opt(W("CH")) ** Some(Double ** Double ** Str))
    \cup Commands({"GeoHash", "GeoPos"}, Key ** Many(Str))
    \cup Commands({"GeoDist"}, Key ** Str ** Str ** Opt(Str))

GeoRadiusOptions ==
  GeoWith ** CountAny ** Opt(Str) ** Opt(W("STORE") ** Key) ** Opt(W("STOREDIST") ** Key)

GeoRadiusCommands ==
  Commands({"GeoRadius"}, Key ** Double ** Double ** Double ** Str ** GeoRadiusOptions)
    \cup Commands({"GeoRadiusByMember"}, Key ** Str ** Double ** Str ** GeoRadiusOptions)

GeoSearchFrom ==
  Opt(W("FROMMEMBER") ** Str) ** Opt(W("FROMLONLAT") ** Double ** Double)
    ** Opt(W("BYRADIUS") ** Double ** Str) ** Opt(W("BYBOX") ** Double ** Double ** Str)
    ** Opt(Str) ** CountAny

GeoSearchCommands ==
  Commands({"GeoSearch"}, Key ** GeoSearchFrom ** GeoWith)
    \cup Commands({"GeoSearchStore"}, Key ** Key ** GeoSearchFrom ** Opt(W("STOREDIST")))

(***************************************************************************)
(* hashes.rs, hyperloglog.rs, keys.rs                                      *)
(***************************************************************************)
HashFieldCommands ==
  Commands({"HDel", "HMGet"}, Key ** Many(Str))
    \cup Commands({"HExists", "HGet"}, Key ** Str)
    \cup Commands({"HGetAll", "HKeys", "HLen"}, Key)
    \cup Commands({"HIncrBy"}, Key ** Str ** Num)
    \cup Commands({"HIncrByFloat"}, Key ** Str ** Double)
    \cup Commands({"HMSet", "HSet"}, Key ** Many(Str ** Str))

HashCommands ==
  Commands({"HSetNx"}, Key ** Str ** Str)
    \cup Commands({"HRandField"}, Key ** Opt(Num ** Opt(W("WITHVALUES"))))
    \cup Commands({"HStrLen"}, Key ** Str)
    \cup Commands({"HVals"}, Key)

HyperloglogCommands ==
  Commands({"Pfadd"}, Key ** Many(Str))
    \cup Commands({"Pfcount"}, Many(Key))
    \cup Commands({"Pfmerge"}, Key ** Many(Key))

\* del, unlink, exists, mget, mset and msetnx refuse an empty list.
StringCommands ==
  Commands({"Randomkey"}, None)
    \cup Commands({"Set"}, Key ** Str ** Opt(Str ** Opt(Num)) ** Opt(Str) ** Opt(W("GET")))
    \cup Commands({"Del", "Unlink", "Exists"}, Some(Key))
    \cup Commands({"Append"}, Key ** Str)
    \cup Commands({"Get", "Incr", "Decr", "Ttl", "Pttl", "Persist"}, Key)
    \cup Commands({"IncrBy", "DecrBy", "Expire", "ExpireAt"}, Key ** Num)
    \cup Commands({"IncrByFloat"}, Key ** Double)

KeyCommands ==
  Commands({"Dump", "GetDel", "Strlen"}, Key)
    \cup Commands({"Restore"}, Key ** Num ** Str ** Opt(W("REPLACE")) ** Opt(W("ABSTTL"))
                                   ** Opt(W("IDLETIME") ** Num) ** Opt(W("FREQ") ** Num))
    \cup Commands({"GetRange"}, Key ** Num ** Num)
    \cup Commands({"Setrange"}, Key ** Num ** Str)
    \cup Commands({"GetSet"}, Key ** Str)
    \cup Commands({"Rename", "Renamenx"}, Key ** Key)
    \cup Commands({"Mget"}, Some(Key))

MultiKeyCommands ==
  Commands({"Mset", "Msetnx"}, Some(Key ** Str))
    \cup Commands({"Copy"}, Key ** Key ** Opt(W("DB") ** Num) ** Opt(W("REPLACE")))
    \cup Commands({"Watch"}, Many(Key))
    \cup Commands({"Unwatch"}, None)
    \cup Commands({"Lcs"}, Key ** Key ** Opt(W("LEN")) ** Opt(W("IDX"))
                               ** Opt(W("MINMATCHLEN") ** Num) ** Opt(W("WITHMATCHLEN")))

(***************************************************************************)
(* lists.rs, sets.rs                                                       *)
(***************************************************************************)
MpopOptions == Str ** Opt(W("COUNT") ** Num)

ListBlockingCommands ==
  Commands({"BlmPop"}, Double ** Counted(Some(Key)) ** MpopOptions)
    \cup Commands({"BlPop", "BrPop"}, Some(Key) ** Double)
    \cup Commands({"BrPopLPush"}, Key ** Key ** Double)
    \cup Commands({"BlMove"}, Key ** Key ** Str ** Str ** Double)
    \cup Commands({"LMPop"}, Counted(Some(Key)) ** MpopOptions)

ListCommands ==
  Commands({"LIndex"}, Key ** Num)
    \cup Commands({"LInsert"}, Key ** Str ** Str ** Str)
    \cup Commands({"LLen"}, Key)
    \cup Commands({"LPop"}, Key ** Opt(Num))
    \cup Commands({"LPos"}, Key ** Str ** Opt(W("RANK") ** Num) ** Opt(W("COUNT") ** Num)
                                ** Opt(W("MAXLEN") ** Num))
    \cup Commands({"LPush", "LPushX"}, Key ** Many(Str))

ListEndCommands ==
  Commands({"LRange", "LTrim"}, Key ** Num ** Num)
    \cup Commands({"LRem", "LSet"}, Key ** Num ** Str)
    \cup Commands({"Rpop"}, Key ** Opt(Num))
    \cup Commands({"Rpoplpush"}, Key ** Key)
    \cup Commands({"LMove"}, Key ** Key ** Str ** Str)
    \cup Commands({"Rpush", "Rpushx"}, Key ** Many(Str))

SetMemberCommands ==
  Commands({"Sadd", "Smismember"}, Key ** Many(Str))
    \cup Commands({"Scard", "Smembers"}, Key)
    \cup Commands({"Sdiff", "Sinter"}, Many(Key))
    \cup Commands({"Sdiffstore", "Sinterstore"}, Key ** Many(Key))
    \cup Commands({"Sismember"}, Key ** Str)
    \cup Commands({"Smove"}, Key ** Key ** Str)

SetCommands ==
  Commands({"Spop", "Srandmember"}, Key ** Opt(Num))
    \cup Commands({"Srem"}, Key ** Many(Str))
    \cup Commands({"Sunion"}, Many(Key))
    \cup Commands({"Sunionstore"}, Key ** Many(Key))

(***************************************************************************)
(* sorted_sets.rs.  A bound is an index, a score or a lexical bound; the   *)
(* functions that call check_range_types refuse bounds of another type     *)
(* than their sort.                                                        *)
(***************************************************************************)
BoundTypes == {"index", "score", "lex"}

Bounds(types) == UNION {Arg("bound", t) : t \in types}

AnyBounds == Bounds(BoundTypes) ** Bounds(BoundTypes)

BoundOf(sort) == IF sort = "BYLEX" THEN "lex" ELSE IF sort = "BYSCORE" THEN "score" ELSE "index"

check_range_types(sort) == Bounds({BoundOf(sort)}) ** Bounds({BoundOf(sort)})

Sorted ==
  UNION {check_range_types(sort) ** (IF sort = "none" THEN None ELSE W(sort))
           : sort \in {"BYLEX", "BYSCORE", "none"}}

Limit == Opt(W("LIMIT") ** Num ** Num)

ZsetPopCommands ==
  Commands({"BzmPop"}, Double ** Counted(Some(Key)) ** MpopOptions)
    \cup Commands({"BzPopMin", "BzPopMax"}, Some(Key) ** Double)
    \cup Commands({"Zadd"}, Key ** Opt(Str) ** Opt(Str) ** Opt(W("CH")) ** Opt(W("INCR"))
                                ** Some(Double ** Str))

ZsetWeights == Opt(W("WEIGHTS") ** Some(Double)) ** Opt(W("AGGREGATE") ** Str)

ZsetAlgebraCommands ==
  Commands({"Zcard"}, Key)
    \cup Commands({"Zcount"}, Key ** Double ** Double)
    \cup Commands({"Zdiff"}, Counted(Some(Key)) ** Opt(W("WITHSCORES")))
    \cup Commands({"Zdiffstore"}, CountedWithDest)
    \cup Commands({"Zincrby"}, Key ** Double ** Str)
    \cup Commands({"Zinter"}, Counted(Some(Key)) ** ZsetWeights ** Opt(W("WITHSCORES")))
    \cup Commands({"Zinterstore"}, CountedWithDest ** ZsetWeights)

ZsetRangeStoreCommands ==
  Commands({"Zlexcount"}, Key ** check_range_types("BYLEX"))
    \cup Commands({"Zpopmax", "Zpopmin"}, Key ** Opt(Num))
    \cup Commands({"Zmpop"}, Counted(Some(Key)) ** MpopOptions)
    \cup Commands({"Zrandmember"}, Key ** Opt(Num ** Opt(W("WITHSCORES"))))
    \cup Commands({"Zrangestore"}, Key ** Key ** Sorted ** Opt(W("REV")) ** Limit)

\* zrangebyscore and zrevrangebyscore pass on whatever bounds they are given.
ZsetRangeCommands ==
  Commands({"Zrange"}, Key ** Sorted ** Opt(W("REV")) ** Limit ** Opt(W("WITHSCORES")))
    \cup Commands({"Zrangebylex", "Zrevrangebylex"}, Key ** check_range_types("BYLEX") ** Limit)
    \cup Commands({"Zrangebyscore", "Zrevrangebyscore"},
                  Key ** AnyBounds ** Opt(W("WITHSCORES")) ** Limit)

ZsetRankCommands ==
  Commands({"Zrank", "Zrevrank", "Zscore"}, Key ** Str)
    \cup Commands({"Zrem"}, Key ** Many(Str))
    \cup Commands({"Zremrangebylex"}, Key ** check_range_types("BYLEX"))
    \cup Commands({"Zremrangebyrank"}, Key ** Num ** Num)
    \cup Commands({"Zremrangebyscore"}, Key ** check_range_types("BYSCORE"))
    \cup Commands({"Zrevrange"}, Key ** Num ** Num ** Opt(W("WITHSCORES")))

ZsetUnionCommands ==
  Commands({"Zunion"}, Counted(Some(Key)) ** ZsetWeights ** Opt(W("WITHSCORES")))
    \cup Commands({"Zunionstore"}, CountedWithDest ** ZsetWeights)
    \cup Commands({"Zmscore"}, Key ** Many(Str))

(***************************************************************************)
(* streams.rs.  The two reads do not start with a key: they record where   *)
(* the first key is when the client is clustered, and do not let a         *)
(* blocking read be pipelined.  A read names as many ids as keys.          *)
(***************************************************************************)
Cap == Opt(Str ** Str ** Str ** Opt(W("LIMIT") ** Num))

StreamInfoCommands ==
  Commands({"XinfoConsumers"}, Key ** Str)
    \cup Commands({"XinfoGroups"}, Key)
    \cup Commands({"XinfoStream"}, Key ** Opt(W("FULL") ** Opt(W("COUNT") ** Num)))
    \cup Commands({"Xadd"}, Key ** Opt(W("NOMKSTREAM")) ** Cap ** Str ** Some(Str ** Str))
    \cup Commands({"Xtrim"}, Key ** Cap)
    \cup Commands({"Xdel"}, Key ** Many(Str))

StreamRangeCommands ==
  Commands({"Xrange", "Xrevrange"}, Key ** Str ** Str ** Opt(W("COUNT") ** Num))
    \cup Commands({"Xlen"}, Key)

\* The index of the first key after STREAMS, counted from 0 as in the code.
FirstKeyOffset(args, clustered, keys) ==
  IF clustered /\ keys # <<>> THEN Offset(Len(args)) ELSE Random

StreamRead(kind, prefix, block, keys, clustered) ==
  {Command(kind, a \o ks \o [i \in DOMAIN ks |-> <<"str", "any">>],
           FirstKeyOffset(a, clustered, ks), ~block) :
     a \in prefix ** W("STREAMS"), ks \in keys}

xread(clustered) ==
  UNION {StreamRead("Xread",
                    Opt(W("COUNT") ** Num) ** (IF block THEN W("BLOCK") ** Num ELSE None),
                    block, Many(Key), clustered) : block \in BOOLEAN}

StreamGroupCommands ==
  Commands({"Xgroupcreate"}, Key ** Str ** Str ** Opt(W("MKSTREAM")))
    \cup Commands({"XgroupCreateConsumer", "XgroupDelConsumer", "XgroupSetId"}, Key ** Str ** Str)
    \cup Commands({"XgroupDestroy"}, Key ** Str)

xreadgroup(clustered) ==
  UNION {StreamRead("Xreadgroup",
                    W("GROUP") ** Str ** Str ** Opt(W("COUNT") ** Num)
                      ** (IF block THEN W("BLOCK") ** Num ELSE None) ** Opt(W("NOACK")),
                    block, Many(Key), clustered) : block \in BOOLEAN}

StreamPendingCommands ==
  Commands({"Xack"}, Key ** Str ** Many(Str))
    \cup Commands({"Xclaim"}, Key ** Str ** Str ** Num ** Many(Str) ** Opt(W("IDLE") ** Num)
                                  ** Opt(W("TIME") ** Num) ** Opt(W("RETRYCOUNT") ** Num)
                                  ** Opt(W("FORCE")) ** Opt(W("JUSTID")))
    \cup Commands({"Xautoclaim"}, Key ** Str ** Str ** Num ** Str ** Opt(W("COUNT") ** Num)
                                      ** Opt(W("JUSTID")))
    \cup Commands({"Xpending"}, Key ** Str ** Opt(Opt(W("IDLE") ** Num) ** Str ** Str ** Num
                                                     ** Opt(Str)))

(***************************************************************************)
(* lua.rs.  A script call is hashed by the slot of its keys: eval and      *)
(* evalsha first check in the cached routing table, `owner`, that one node *)
(* owns them all; fcall takes the last key.  The `_cluster` variants are   *)
(* sent to every node, or are the plain command without a cluster.         *)
(***************************************************************************)
SlotOf(arg) == KeySlot[arg[2]]

NoNode == "none"

check_key_slot(ks, owner) ==
  LET servers == {owner[SlotOf(ks[i])] : i \in DOMAIN ks}
  IN  Cardinality(servers) <= 1 /\ NoNode \notin servers

ByKeySlot(clustered, ks, i) ==
  IF clustered /\ ks # <<>> THEN Custom(SlotOf(ks[i])) ELSE Random

eval(clustered, owner) ==
  UNION {{Command(kind, args, ByKeySlot(clustered, ks, 1), FALSE) :
            kind \in {"EvalSha", "Eval"}, args \in Str ** Counted({ks}) ** Many(Str)} :
         ks \in {l \in Many(Key) : clustered => check_key_slot(l, owner)}}

fcall ==
  UNION {{Command(kind, args, ByKeySlot(TRUE, ks, Len(ks)), FALSE) :
            kind \in {"Fcall", "FcallRO"}, args \in Str ** Counted({ks}) ** Many(Str)} :
         ks \in Many(Key)}

OrCluster(clustered, kind, clusterKind, lists) ==
  Commands({kind} \cup (IF clustered THEN {clusterKind} ELSE {}), lists)

ScriptCommands(clustered) ==
  OrCluster(clustered, "ScriptLoad", "_ScriptLoadCluster", Str)
    \cup OrCluster(clustered, "ScriptKill", "_ScriptKillCluster", None)
    \cup OrCluster(clustered, "ScriptFlush", "_ScriptFlushCluster", W("ASYNC") \cup W("SYNC"))
    \cup Commands({"ScriptExists"}, Many(Str))
    \cup Commands({"ScriptDebug"}, Str)

FunctionCommands(clustered) ==
  OrCluster(clustered, "FunctionDelete", "_FunctionDeleteCluster", Str)
    \cup OrCluster(clustered, "FunctionFlush", "_FunctionFlushCluster", W("ASYNC") \cup W("SYNC"))
    \cup Commands({"FunctionList"}, Opt(W("LIBRARYNAME") ** Str) ** Opt(W("WITHCODE")))
    \cup OrCluster(clustered, "FunctionLoad", "_FunctionLoadCluster", Opt(W("REPLACE")) ** Str)

FunctionRestoreCommands(clustered) ==
  OrCluster(clustered, "FunctionRestore", "_FunctionRestoreCluster", Str ** Str)
    \cup Commands({"FunctionDump"}, None)

(***************************************************************************)
(* pubsub.rs.  The commands of classic pubsub all hash to the slot of the  *)
(* client's id.  A shard channel hashes like a key and is one of Keys.     *)
(* subscribe and its variants return at once when no channel is given.     *)
(***************************************************************************)

cluster_hash_legacy_command(clustered) == IF clustered THEN Custom(ClientSlot) ELSE FirstKey

LegacyPubsub == {"Subscribe", "Unsubscribe", "Psubscribe", "Punsubscribe"}

PubsubCommands(clustered) ==
  {Command(kind, args, cluster_hash_legacy_command(clustered), TRUE) :
     kind \in LegacyPubsub, args \in Some(Str)}
    \cup {Command(kind, <<>>, cluster_hash_legacy_command(clustered), TRUE) :
            kind \in {"Unsubscribe", "Punsubscribe"}}
    \cup Commands({"Publish"}, Str ** Str)

ShardPubsubCommands ==
  Commands({"Spublish"}, Key ** Str)
    \cup Commands({"Ssubscribe", "Sunsubscribe"}, Some(Key))
    \cup {Command("Sunsubscribe", <<>>, Random, TRUE)}

(***************************************************************************)
(* scan.rs.  SCAN names no key.  scan_cluster sends one SCAN for a slot of *)
(* every node, scan one for the slot of the pattern's hash tag, if any; a  *)
(* pattern with the tag of a key hashes to that key's slot.                *)
(***************************************************************************)
ScanArgs == W("0") ** W("MATCH") ** Str ** Opt(W("COUNT") ** Num) ** Opt(W("TYPE") ** Str)

ScanCommands(clustered, owner) ==
  {[Command("Scan", args, FirstKey, TRUE) EXCEPT !.scan_slot = slot] :
     args \in ScanArgs,
     slot \in {NoSlot} \cup IF clustered THEN DOMAIN owner ELSE {}}

values_args == Key ** W("0") ** W("MATCH") ** Str ** Opt(W("COUNT") ** Num)

ValueScanCommands == Commands({"Hscan", "Sscan", "Zscan"}, values_args)

(***************************************************************************)
(* server.rs and sentinel.rs.  hello forgets the credentials and auth does *)
(* not when the command goes to every node.  Of a custom command the       *)
(* caller chooses the arguments, the policy and the blocking flag.         *)
(***************************************************************************)
ServerCommands(clustered) ==
  Commands({"Quit"}, None)
    \cup Commands({"Shutdown"}, Opt(Str))
    \cup Commands({"FlushAll"}, Opt(W("ASYNC")))
    \cup (IF clustered THEN Commands({"_FlushAllCluster"}, None) ELSE {})
    \cup Commands({"Ping", "DBSize", "BgreWriteAof", "BgSave", "LastSave"}, None)
    \cup Commands({"Select"}, Num)
    \cup Commands({"Info"}, Opt(Str))

AuthCommands(clustered) ==
  IF clustered
    THEN Commands({"_HelloAllCluster"}, None) \cup Commands({"_AuthAllCluster"}, Opt(Str) ** Str)
    ELSE Commands({"_Hello"}, Opt(Str ** Str)) \cup Commands({"Auth"}, Opt(Str) ** Str)

custom ==
  {[Command("_Custom", args, FirstKey, TRUE)
      EXCEPT !.custom = [policy |-> policy, blocking |-> blocking]] :
     args \in Key ** Opt(Str) \cup Str ** Key \cup Num ** Key,
     policy \in {FirstKey, FirstValue, Random, Offset(1), Custom(ClientSlot)},
     blocking \in BOOLEAN}

FailoverCommands ==
  Commands({"Failover"}, Opt(W("TO") ** Str ** Num) ** Opt(W("FORCE")) ** Opt(W("ABORT"))
                           ** Opt(W("TIMEOUT") ** Num))
    \cup Commands({"Wait"}, Num ** Num)

SentinelConfigCommands ==
  Commands({"Sentinel"},
    W("CONFIG") ** (W("GET") ** Str \cup W("SET") ** Str ** Str)
      \cup W("CKQUORUM") ** Str \cup W("FLUSHCONFIG") \cup W("FAILOVER") ** Str
      \cup W("GET-MASTER-ADDR-BY-NAME") ** Str \cup W("INFO-CACHE")
      \cup W("MASTERS") \cup W("MASTER") ** Str \cup W("MONITOR") ** Str ** Str ** Num ** Num)

SentinelCommands ==
  Commands({"Sentinel"},
    W("MYID") \cup W("PENDING-SCRIPTS")
      \cup UNION {W(w) ** Str : w \in {"REMOVE", "REPLICAS", "SENTINELS", "SIMULATE-FAILURE", "RESET"}}
      \cup W("SET") ** Str ** Many(Str ** Str))
=============================================================================
