----------------------------- MODULE KeyRouting -----------------------------
(***************************************************************************)
(* From a caller's call to the node that serves it: the command builders,  *)
(* the cluster hashing policies (src/protocol/hashers.rs), the kinds that  *)
(* block, that are pipelined or go to every node                           *)
(* (src/protocol/command.rs) and the choice of the node                    *)
(* (src/router/clustered.rs, src/router/mod.rs), while hash slots move     *)
(* between the nodes from one call to the next.                            *)
(*                                                                         *)
(* The server side is external: where Redis looks for the keys of a        *)
(* command it receives, by position only, and which commands it may hold   *)
(* back.  Redirections are the subject of module ClusterRouter.            *)
(***************************************************************************)
EXTENDS CommandBuilders, SequencesExt, TLC

CONSTANTS
  Nodes,      \* the primary nodes of the cluster
  Tables      \* the routing tables that occur, [slots -> Nodes \cup {NoNode}]

VARIABLES
  clustered,  \* ServerConfig::is_clustered
  owner,      \* the cached ClusterRouting; the cluster agrees with it
  phase,      \* "idle", "queued" (in the command channel) or "written"
  command,    \* the command of the call in progress
  nodes       \* the nodes the command was written to

vars == <<clustered, owner, phase, command, nodes>>

NoCommand == Command("none", <<>>, Random, TRUE)

Centralized == "centralized"    \* the one server of a client that is not clustered

(***************************************************************************)
(* Cluster hashing.  The result is a slot or NoSlot.                       *)
(***************************************************************************)
IsString(arg) == arg[1] \in {"key", "str"}

HashArg(arg) == IF arg[1] = "key" THEN KeySlot[arg[2]] ELSE OtherSlot

hash_value(args, i) == IF i \in DOMAIN args THEN HashArg(args[i]) ELSE NoSlot

hash_key(args) ==
  LET strings == {i \in DOMAIN args : IsString(args[i])}
  IN  IF strings = {} THEN NoSlot
      ELSE HashArg(args[CHOOSE i \in strings : \A j \in strings : i <= j])

\* ClusterHash::hash; an offset counts from 0.
Hash(policy, args) ==
  CASE policy[1] = "FirstKey" -> hash_key(args)
    [] policy[1] = "FirstValue" -> hash_value(args, 1)
    [] policy[1] = "Random" -> NoSlot
    [] policy[1] = "Offset" -> hash_value(args, policy[2] + 1)
    [] policy[1] = "Custom" -> policy[2]

custom_hash_slot(c) ==
  IF c.kind = "_Custom" /\ c.custom.policy[1] = "Custom" THEN c.custom.policy[2] ELSE NoSlot

\* Mutant of cluster_hash: the default policy whatever the builder set.
cluster_hash_ignores_hasher(c) ==
  IF custom_hash_slot(c) # NoSlot THEN custom_hash_slot(c)
  ELSE IF c.scan_slot # NoSlot THEN c.scan_slot
  ELSE Hash(FirstKey, c.args)

cluster_hash(c) ==
  IF custom_hash_slot(c) # NoSlot THEN custom_hash_slot(c)
  ELSE IF c.scan_slot # NoSlot THEN c.scan_slot
  ELSE Hash(c.hasher, c.args)

(***************************************************************************)
(* RedisCommandKind.                                                       *)
(***************************************************************************)
is_blocking(c) ==
  \/ c.kind \in {"BlPop", "BrPop", "BrPopLPush", "BlMove", "BzPopMin", "BzPopMax",
                 "BlmPop", "BzmPop", "Fcall", "FcallRO", "Wait"}
  \/ c.kind = "_Custom" /\ c.custom.blocking

closes_connection(c) == c.kind \in {"Quit", "Shutdown"}

is_all_cluster_nodes(c) ==
  c.kind \in {"_FlushAllCluster", "_AuthAllCluster", "_ScriptFlushCluster",
             "_ScriptKillCluster", "_HelloAllCluster", "_ScriptLoadCluster",
             "_FunctionFlushCluster", "_FunctionDeleteCluster",
             "_FunctionRestoreCluster", "_FunctionLoadCluster"}

can_pipeline(c) ==
  /\ ~is_blocking(c)
  /\ ~closes_connection(c)
  /\ c.kind \notin {"Psubscribe", "Punsubscribe", "Ssubscribe", "Sunsubscribe", "Eval",
                   "EvalSha", "Auth", "Fcall", "FcallRO", "_Hello"}

\* Mutant of blocks_connection: a blocking stream read is forgotten.
blocks_connection_by_kind(c) == is_blocking(c)

blocks_connection(c) ==
  is_blocking(c) \/ (c.kind \in {"Xread", "Xreadgroup"} /\ ~c.can_pipeline)

\* With `auto_pipeline` on, and outside a transaction and a manual pipeline.
should_auto_pipeline(c) ==
  c.can_pipeline /\ can_pipeline(c) /\ ~blocks_connection(c) /\ ~is_all_cluster_nodes(c)

(***************************************************************************)
(* Actions: a call of one of the functions of an impls file, the write of  *)
(* the queued command, and a change of the routing table.                  *)
(***************************************************************************)
Init ==
  /\ clustered \in BOOLEAN
  /\ owner \in Tables
  /\ phase = "idle"
  /\ command = NoCommand
  /\ nodes = {}

\* request_response, or send_command where a function builds its own responder.
Call(commands) ==
  /\ phase = "idle"
  /\ \E c \in commands : command' = c
  /\ phase' = "queued"
  /\ UNCHANGED <<clustered, owner, nodes>>

CallAdmin ==
  Call(AclCommands \cup ClientCommands \cup ClusterCommands \cup ClusterNodeCommands
         \cup ConfigCommands \cup MemoryCommands \cup SlowlogCommands)

CallGeo == Call(GeoMemberCommands \cup GeoRadiusCommands \cup GeoSearchCommands)

CallHashes == Call(HashFieldCommands \cup HashCommands \cup HyperloglogCommands)

CallKeys == Call(StringCommands \cup KeyCommands \cup MultiKeyCommands)

CallLists == Call(ListBlockingCommands \cup ListCommands \cup ListEndCommands)

CallSets == Call(SetMemberCommands \cup SetCommands)

CallSortedSets ==
  Call(ZsetPopCommands \cup ZsetAlgebraCommands \cup ZsetRangeStoreCommands
         \cup ZsetRangeCommands \cup ZsetRankCommands \cup ZsetUnionCommands)

CallStreams ==
  Call(StreamInfoCommands \cup StreamRangeCommands \cup xread(clustered)
         \cup StreamGroupCommands \cup xreadgroup(clustered) \cup StreamPendingCommands)

CallLua ==
  Call(eval(clustered, owner) \cup fcall \cup ScriptCommands(clustered)
         \cup FunctionCommands(clustered) \cup FunctionRestoreCommands(clustered))

CallPubsub == Call(PubsubCommands(clustered) \cup ShardPubsubCommands)

CallScan == Call(ScanCommands(clustered, owner) \cup ValueScanCommands)

CallServer ==
  Call(ServerCommands(clustered) \cup AuthCommands(clustered) \cup custom
         \cup FailoverCommands \cup SentinelConfigCommands \cup SentinelCommands)

CachedNodes == {owner[s] : s \in DOMAIN owner} \ {NoNode}

\* The owner of the command's slot, or any node of the table.
find_cluster_node(c) ==
  LET slot == cluster_hash(c)
  IN  IF slot # NoSlot /\ owner[slot] # NoNode THEN {owner[slot]} ELSE CachedNodes

Targets(c) ==
  IF ~clustered THEN {{Centralized}}
  ELSE IF is_all_cluster_nodes(c) \/ closes_connection(c) THEN {CachedNodes}
  ELSE {{n} : n \in find_cluster_node(c)}

WriteCommand ==
  /\ phase = "queued"
  /\ nodes' \in Targets(command)
  /\ phase' = "written"
  /\ UNCHANGED <<clustered, owner, command>>

Answered ==
  /\ phase = "written"
  /\ phase' = "idle"
  /\ command' = NoCommand
  /\ nodes' = {}
  /\ UNCHANGED <<clustered, owner>>

Rebalance ==
  /\ clustered
  /\ phase # "written"
  /\ owner' \in Tables \ {owner}
  /\ UNCHANGED <<clustered, phase, command, nodes>>

Next ==
  \/ CallAdmin \/ CallGeo \/ CallHashes \/ CallKeys \/ CallLists \/ CallSets
  \/ CallSortedSets \/ CallStreams \/ CallLua \/ CallPubsub \/ CallScan \/ CallServer
  \/ WriteCommand \/ Answered \/ Rebalance

Spec == Init /\ [][Next]_vars

(***************************************************************************)
(* The server.                                                             *)
(***************************************************************************)
KeysOf(args) == SelectSeq(args, LAMBDA a : a[1] = "key")

NoKeyKinds ==
  {"Randomkey", "Unwatch", "Scan", "Wait", "Publish", "Sentinel", "Slowlog", "Failover"}

AllKeyKinds ==
  {"Del", "Unlink", "Exists", "Mget", "Watch", "Pfcount", "Pfmerge", "Sdiff", "Sinter",
   "Sunion", "Sdiffstore", "Sinterstore", "Sunionstore", "Ssubscribe", "Sunsubscribe"}

TwoKeyKinds ==
  {"Rename", "Renamenx", "Copy", "Lcs", "BrPopLPush", "BlMove", "Rpoplpush", "LMove",
   "Smove", "Zrangestore", "GeoSearchStore"}

AllButLastKinds == {"BlPop", "BrPop", "BzPopMin", "BzPopMax"}

\* Where the number of keys is, and so what follows.
NumKeysAt ==
  [k \in {"LMPop", "Zmpop", "Zdiff", "Zinter", "Zunion"} |-> 1]
    @@ [k \in {"BlmPop", "BzmPop", "Eval", "EvalSha", "Fcall", "FcallRO", "Zdiffstore",
               "Zinterstore", "Zunionstore"} |-> 2]

Words(args, words) == {i \in DOMAIN args : args[i][1] = "str" /\ args[i][2] \in words}

\* The positions of the keys, by the key specifications of the commands.
KeyPositions(c) ==
  LET n == Len(c.args)
  IN  CASE c.kind \in NoKeyKinds -> {}
        [] c.kind \in AllKeyKinds -> 1..n
        [] c.kind \in TwoKeyKinds -> {1, 2}
        [] c.kind \in AllButLastKinds -> 1..(n - 1)
        [] c.kind \in {"Mset", "Msetnx"} -> {i \in 1..n : i % 2 = 1}
        [] c.kind \in DOMAIN NumKeysAt ->
             LET p == NumKeysAt[c.kind]
             IN  (p + 1)..(p + c.args[p][2])
                   \cup IF c.kind \in {"Zdiffstore", "Zinterstore", "Zunionstore"} THEN {1} ELSE {}
        [] c.kind \in {"Xread", "Xreadgroup"} ->
             LET p == CHOOSE i \in Words(c.args, {"STREAMS"}) : TRUE
             IN  (p + 1)..(p + (n - p) \div 2)
        [] c.kind \in {"GeoRadius", "GeoRadiusByMember"} ->
             {1} \cup {i + 1 : i \in Words(c.args, {"STORE", "STOREDIST"})}
        [] OTHER -> {1}

\* The kinds whose first argument is no key and that are not in a class above.
Keyless(c) == KeysOf(c.args) = <<>> /\ c.kind \notin AllKeyKinds \cup DOMAIN NumKeysAt

\* Redis may hold the answer back: a timeout, or a stream read with BLOCK.
MayHold(c) ==
  \/ c.kind \in {"BlPop", "BrPop", "BrPopLPush", "BlMove", "BzPopMin", "BzPopMax",
                 "BlmPop", "BzmPop", "Wait"}
  \/ c.kind \in {"Xread", "Xreadgroup"} /\ Words(c.args, {"BLOCK"}) # {}

(***************************************************************************)
(* Properties.                                                             *)
(***************************************************************************)

\* A command whose keys all hash to one slot is written to the node that owns
\* the slot when it is written, whatever stands before its keys (a count, a
\* timeout, a script, COUNT, BLOCK or GROUP options), and also when the slot
\* moved after the command was built (ClusterHash::hash, Offset and Custom in
\* streams.rs and lua.rs).
RoutedToOwner ==
  LET slots == {SlotOf(a) : a \in ToSet(KeysOf(command.args))}
  IN  phase = "written" /\ clustered /\ command.kind # "_Custom" =>
        \A s \in slots : slots = {s} /\ owner[s] # NoNode => nodes = {owner[s]}

\* The server finds the caller's keys, all of them and nothing else, where it
\* looks for them: the counts pushed before the keys are right and no option
\* comes where a key is expected (the argument orders of src/commands/impls).
KeysWhereExpected ==
  phase = "written" /\ command.kind # "_Custom" /\ ~Keyless(command) =>
    KeyPositions(command) = {i \in DOMAIN command.args : command.args[i][1] = "key"}

\* A command whose answer the server may hold back blocks the connection for the
\* router and is not pipelined, so that nothing waits behind it unseen
\* (RedisCommand::blocks_connection, should_auto_pipeline).
HeldBackAlone ==
  phase = "written" /\ MayHold(command) =>
    blocks_connection(command) /\ ~should_auto_pipeline(command)

=============================================================================
