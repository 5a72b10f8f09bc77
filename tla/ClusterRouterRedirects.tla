----------------------- MODULE ClusterRouterRedirects -----------------------
(***************************************************************************)
(* Theorems about ClusterRouter, third part: pipelined commands through    *)
(* one migration. The inductive invariant CalmInv says what the router,    *)
(* the connections and the nodes can be doing while nothing fails, and how *)
(* often a pipelined command has been written, by the place it is in.      *)
(***************************************************************************)
EXTENDS ClusterRouterProofs

(* What PipelinedFollowed is about: nothing fails, and the slot migrates at most once,
   to a node that owns another slot too. *)
Calm == faults = 0 /\ migrations <= 1 /\ MaxAttempts >= 3 /\ Cardinality(Nodes \ others) <= 1

(* The node that owned the slot at first: the one that owns no other slot. *)
home == CHOOSE h \in Nodes : h \notin others

Slot ==
    /\ home \in Nodes /\ \A n \in Nodes : n = home <=> n \notin others
    /\ owner = home \/ MigrationOver
    /\ importer # home
    /\ migrations = 1 => Dest # home
    /\ cache = home \/ cache = owner

(* The one connection that is closed is that of the former owner; its Reconnect message
   makes the router reconnect once. *)
Replaced == link[home] = "none" /\ home \notin Reported /\ at \notin {"policy", "reconnect"}
ReportedOnce ==
    \A i, j \in DOMAIN queue : queue[i].type = "reconnect" /\ queue[i] = queue[j] => i = j
Links ==
    /\ \A n \in Nodes : n # home => link[n] = "up"
    /\ link[home] = "up" \/ (link[home] = "none" /\ owner # home /\ cache = owner)
    /\ link[home] = "up" =>
          home \notin Reported /\ retry = <<>> /\ at \notin {"policy", "reconnect", "retry"}
    /\ at \in {"policy", "reconnect"} => home \notin Reported
    /\ ReportedOnce
Course ==
    /\ at \notin {"ended", "once"} /\ (at # "reconnect" => reconnects = 0)
    /\ rx # None => rx.kind # "closed"
    /\ at \in {"sync", "retry", "policy", "reconnect"} => next \in {"idle", "write", "direct"}
    /\ at \in {"write", "wait", "ask", "askwrite", "asked", "direct"} => next = "idle"
    /\ next = "direct" => goal = "moved"
    /\ at = "direct" => goal \in {"ask", "moved"}
    /\ at \in {"ask", "askwrite", "asked"} => goal \in {"ask", "write"}
    /\ at = "sync" => owner # home

(* Only the former owner redirects, and MOVED only after the migration. *)
Moves ==
    /\ \A n \in Nodes : \A r \in Range(replies[n]) :
          /\ n # home => r.kind = "ok"
          /\ r.kind = "moved" => owner # home /\ r.server = owner
    /\ \A m \in Range(queue) : m.type = "moved" => owner # home /\ m.server = owner
    /\ rx # None /\ rx.kind = "moved" => owner # home
    /\ goal = "moved" => owner # home /\ target = owner

(* A command that follows ASKING finds the flag it has set. *)
Flagged(n) ==
    \A i \in DOMAIN requests[n] : requests[n][i] \in Commands => i = 1 /\ asking[n]
Awaited ==
    /\ requests[target] = <<>> => asking[target]
    /\ requests[target] # <<>> => requests[target][Len(requests[target])] = Asking
    /\ inflight[target] # <<>> /\ inflight[target][Len(inflight[target])] = Asking
AskingFirst ==
    /\ asking \in [Nodes -> BOOLEAN]
    /\ \A n \in Nodes : n # home /\ requests[n] # <<>> => n = Dest
    /\ owner = home => \A n \in Nodes : n # home => Flagged(n)
    /\ at = "asked" /\ rx = None => Awaited
    /\ (at = "asked" /\ rx # None) \/ (at = "direct" /\ goal = "ask") =>
          requests[target] = <<>> /\ asking[target]

(* How often a pipelined command has been written, by the place it is in. *)
Tries(k) == 0..k
InFlightTries == IF Replaced THEN Tries(3) ELSE Tries(2)
RetryTries == IF Replaced THEN Tries(2) ELSE Tries(1)
Paid(c) ==
    /\ answer[c] \notin {"error", "canceled"}
    /\ answer[c] = "unsent" => attempted[c] \in Tries(0)
    /\ at = "write" /\ cmd = c => attempted[c] \in Tries(0)
    /\ goal # "none" /\ cmd = c => attempted[c] \in Tries(1)
    /\ \A m \in Range(queue) : m.cmd = c => attempted[c] \in Tries(1)
    /\ \A m \in Range(queue) : m.cmd = c /\ m.type = "command" => attempted[c] \in Tries(0)
    /\ c \in Range(inflight[home]) => attempted[c] \in Tries(1)
    /\ \A n \in Nodes : c \in Range(inflight[n]) => attempted[c] \in InFlightTries
    /\ c \in Range(retry) => attempted[c] \in RetryTries
Budget ==
    /\ at = "wait" \/ next = "write" \/ goal = "write" => cmd \notin pipelined
    /\ \A c \in pipelined : c \notin channel /\ Paid(c)

CalmParts == Slot /\ Links /\ Course /\ Moves /\ AskingFirst /\ Budget
CalmInv == faults \in Nat /\ pipelined \subseteq Commands /\ (Calm => CalmParts)

LEMMA TriesFacts ==
    /\ \A x \in Tries(0) : x \in Tries(1) /\ x + 1 \in Tries(1)
    /\ \A x \in Tries(1) : x \in Tries(2) /\ x + 1 \in Tries(2)
    /\ \A x \in Tries(2) : x \in Tries(3) /\ x + 1 \in Tries(3)
    /\ MaxAttempts >= 3 => \A x \in Tries(2) : ~(x >= MaxAttempts)
    BY ClusterRouterAssumption DEF Tries

(* Faults and migrations only add up, and the rest of the deployment stays. *)
LEMMA FaultsAddUp ==
    ASSUME [Next]_vars
    PROVE  /\ others' = others /\ pipelined' = pipelined
           /\ migrations' = migrations \/ migrations' = migrations + 1
           /\ faults' = faults \/ faults' = faults + 1
<1>1. others' = others /\ pipelined' = pipelined /\ (migrations' = migrations \/ migrations' = migrations + 1)
  <2>1. CASE Migrate
      BY <2>1, Zenon DEF Migrate
  <2>2. CASE \/ UNCHANGED vars \/ MigrationEnds
             \/ \E c \in Commands : Submit(c)
             \/ \E n \in Nodes : Serve(n) \/ Break(n) \/ ReadReply(n) \/ ReaderEnds(n)
      BY <2>2, Zenon DEF vars, MigrationEnds, Submit, Serve, Break, ReadReply, ReaderEnds, nodeVars
  <2>3. CASE Take \/ Write \/ Wait \/ Retry
      BY <2>3, Zenon DEF Take, Write, GiveUp, WriteSent, WriteFails, WriteMissing, Ends, Wait,
          Retry, RetryDone, RetryTooMany, RetrySent, RetryFails, nodeVars
  <2>4. CASE Sync \/ Policy \/ Reconnect
      BY <2>4, Zenon DEF Sync, SyncDone, SyncFails, Policy, Reconnect, ReconnectDone, ReconnectFails,
          Exhausted, Ends, nodeVars
  <2>5. CASE AskCheck \/ AskWrite \/ Asked \/ Direct
      BY <2>5, Zenon DEF AskCheck, AskWrite, Asked, Direct, GiveUp, DirectSent, DirectFails, nodeVars
  <2> QED
      BY <2>1, <2>2, <2>3, <2>4, <2>5, Zenon DEF Next, Router
<1>2. faults' = faults \/ faults' = faults + 1
  <2>1. CASE Migrate \/ MigrationEnds
      BY <2>1, Zenon DEF Migrate, MigrationEnds
  <2>2. CASE \/ UNCHANGED vars
             \/ \E c \in Commands : Submit(c)
             \/ \E n \in Nodes : Serve(n) \/ Break(n) \/ ReadReply(n) \/ ReaderEnds(n)
      BY <2>2, Zenon DEF vars, Submit, Serve, Break, ReadReply, ReaderEnds
  <2>3. CASE Take \/ Write \/ Wait \/ Retry
      BY <2>3, Zenon DEF Take, Write, GiveUp, WriteSent, WriteFails, WriteMissing, Ends, Wait,
          Retry, RetryDone, RetryTooMany, RetrySent, RetryFails
  <2>4. CASE Sync \/ Policy \/ Reconnect
      BY <2>4, Zenon DEF Sync, SyncDone, SyncFails, Policy, Reconnect, ReconnectDone, ReconnectFails
  <2>5. CASE AskCheck \/ AskWrite \/ Asked \/ Direct
      BY <2>5, Zenon DEF AskCheck, AskWrite, Asked, Direct, GiveUp, DirectSent, DirectFails
  <2> QED
      BY <2>1, <2>2, <2>3, <2>4, <2>5, Zenon DEF Next, Router
<1> QED
    BY <1>1, <1>2, Zenon

LEMMA CalmBefore ==
    ASSUME RepairInv, CalmInv, [Next]_vars, Calm'
    PROVE  /\ Calm /\ CalmParts /\ faults' = 0 /\ migrations \in {0, 1} /\ migrations' \in {0, 1}
           /\ others' = others /\ home' = home /\ pipelined' = pipelined
           /\ importer # None => migrations = 1
<1>1. others' = others /\ pipelined' = pipelined /\ (migrations' = migrations \/ migrations' = migrations + 1)
    BY FaultsAddUp, Zenon
<1>2. faults' = faults \/ faults' = faults + 1
    BY FaultsAddUp, Zenon
<1>3. faults \in Nat /\ migrations \in Nat /\ (importer # None => migrations # 0)
    BY Zenon DEF CalmInv, RepairInv
<1>4. faults' = 0 /\ migrations' <= 1 /\ MaxAttempts >= 3 /\ Cardinality(Nodes \ others) <= 1
    BY <1>1, Zenon DEF Calm
<1>5. faults = 0 /\ migrations \in {0, 1} /\ migrations' \in {0, 1} /\ migrations <= 1
    BY <1>1, <1>2, <1>3, <1>4
<1>6. Calm
    BY <1>4, <1>5, Zenon DEF Calm
<1>7. home' = home
    BY <1>1, Zenon DEF home
<1> QED
    BY <1>1, <1>3, <1>4, <1>5, <1>6, <1>7, Zenon DEF CalmInv

(* Each node is reported once. *)
LEMMA ReportsOnce ==
    ASSUME NEW order \in Seq(Nodes), IsInjective(order), NEW reports \in Reports(order)
    PROVE  /\ IsInjective(reports)
           /\ \A m \in Range(reports) :
                 /\ m.type = "reconnect" /\ m.server \in Range(order)
                 /\ link[m.server] \in Working /\ m.server \notin Reported
<1> DEFINE ended == {k \in DOMAIN order : link[order[k]] \in Working /\ order[k] \notin Reported}
<1>1. PICK f \in Ascending(ended \X {0}) :
            reports = [i \in DOMAIN f |-> Message("reconnect", None, order[f[i][1]])]
    BY Zenon DEF Reports
<1>2. f \in Orders(ended \X {0})
    BY Zenon DEF Ascending
<1>3. IsFiniteSet(ended \X {0})
  <2>1. IsFiniteSet(DOMAIN order)
      BY FS_Interval
  <2>2. IsFiniteSet(ended) /\ IsFiniteSet({0})
      BY <2>1, FS_Subset, FS_Singleton
  <2> QED
      BY <2>2, FS_Product
<1>4. IsInjective(f) /\ Range(f) = ended \X {0}
    BY <1>2, <1>3, OrderFacts, Zenon
<1>5. \A i \in DOMAIN f : f[i] \in ended \X {0}
    BY <1>4, Zenon DEF Range
<1>6. \A i \in DOMAIN f : f[i][1] \in ended /\ f[i] = <<f[i][1], 0>>
    BY <1>5
<1>7. \A k \in ended : k \in DOMAIN order /\ link[order[k]] \in Working /\ order[k] \notin Reported
    BY Zenon
<1> HIDE DEF ended
<1>8. DOMAIN reports = DOMAIN f /\ \A i \in DOMAIN f : reports[i] = Message("reconnect", None, order[f[i][1]])
    BY <1>1, Zenon
<1>9. \A n : Message("reconnect", None, n).type = "reconnect" /\ Message("reconnect", None, n).server = n
    BY DEF Message
<1>10. ASSUME NEW i \in DOMAIN reports, NEW j \in DOMAIN reports, reports[i] = reports[j]
      PROVE  i = j
  <2>1. order[f[i][1]] = order[f[j][1]]
    <3>1. reports[i].server = order[f[i][1]] /\ reports[j].server = order[f[j][1]]
        BY <1>8, <1>9, Zenon
    <3> QED
        BY <1>10, <3>1
  <2>2. f[i][1] = f[j][1]
      BY <1>6, <1>8, <1>7, <2>1, Zenon DEF IsInjective
  <2>3. f[i] = f[j]
    <3>1. f[i] = <<f[i][1], 0>> /\ f[j] = <<f[j][1], 0>>
        BY <1>6, <1>8, Zenon
    <3> QED
        BY <2>2, <3>1
  <2> QED
      BY <1>4, <1>8, <2>3, Zenon DEF IsInjective
<1>11. ASSUME NEW i \in DOMAIN reports
       PROVE  /\ reports[i].type = "reconnect" /\ reports[i].server \in Range(order)
              /\ link[reports[i].server] \in Working /\ reports[i].server \notin Reported
  <2>1. f[i][1] \in DOMAIN order /\ link[order[f[i][1]]] \in Working /\ order[f[i][1]] \notin Reported
      BY <1>6, <1>8, <1>7, Zenon
  <2>2. reports[i].type = "reconnect" /\ reports[i].server = order[f[i][1]]
      BY <1>8, <1>9
  <2> QED
      BY <2>1, <2>2 DEF Range
<1> QED
    BY <1>10, <1>11, Zenon DEF IsInjective, Range

(* What a step starts from when nothing fails and the slot migrates at most once. *)
CalmStep ==
    /\ ClusterInv /\ RepairInv /\ Asks /\ CalmParts
    /\ MaxAttempts >= 3 /\ faults' = faults /\ migrations \in {0, 1}
    /\ others' = others /\ home' = home /\ pipelined' = pipelined /\ pipelined \subseteq Commands
    /\ importer # None => migrations = 1

LEMMA CalmStarts ==
    ASSUME ClusterInv, RepairInv, CalmInv, [Next]_vars, Calm'
    PROVE  CalmStep
<1>1. /\ Calm /\ CalmParts /\ faults' = 0 /\ migrations \in {0, 1}
      /\ others' = others /\ home' = home /\ pipelined' = pipelined
      /\ importer # None => migrations = 1
    BY CalmBefore, Zenon
<1>2. faults = 0 /\ migrations <= 1 /\ MaxAttempts >= 3
    BY <1>1, Zenon DEF Calm
<1>3. Asks /\ pipelined \subseteq Commands
    BY <1>2, Zenon DEF RepairInv, CalmInv
<1> QED
    BY <1>1, <1>2, <1>3, Zenon DEF CalmStep

LEMMA SlotKept ==
    ASSUME CalmStep, UNCHANGED <<owner, importer, migrations>>, cache' \in {cache, owner}
    PROVE  Slot'
<1>1. (Dest' = Dest) /\ (MigrationOver' <=> MigrationOver)
    BY Zenon DEF Dest, MigrationOver
<1>2. Slot /\ others' = others /\ home' = home
    BY Zenon DEF CalmStep, CalmParts
<1> QED
    BY <1>1, <1>2, Zenon DEF Slot

(* The connections of the cached owner and of the importing node are there. *)
LEMMA CalmLinks ==
    ASSUME CalmStep
    PROVE  /\ home \in Nodes /\ owner \in Nodes /\ cache \in Nodes
           /\ link[cache] = "up" /\ link[owner] = "up" /\ (migrations = 1 => link[Dest] = "up")
           /\ migrations = 1 => Dest \in Nodes /\ Dest # home
           /\ \A n \in Nodes : link[n] \in {"up", "none"} /\ (link[n] = "none" => n = home)
           /\ owner # home => importer = None /\ migrations = 1 /\ Dest = owner
           /\ owner = home => cache = home /\ link[home] = "up"
<1>1. Slot /\ Links /\ NodeTypes /\ ConnTypes
    BY Zenon DEF CalmStep, CalmParts, ClusterInv
<1>2. home \in Nodes /\ owner \in Nodes /\ cache \in Nodes
    BY <1>1, Zenon DEF Slot, NodeTypes, ConnTypes
<1>3. \A n \in Nodes : link[n] \in {"up", "none"} /\ (link[n] = "none" => n = home)
    BY <1>1, Zenon DEF Links
<1>4. owner # home => importer = None /\ migrations = 1 /\ Dest = owner
    BY <1>1, Zenon DEF Slot, MigrationOver, Dest
<1>5. owner = home => cache = home /\ link[home] = "up"
    BY <1>1, Zenon DEF Slot, Links
<1>6. migrations = 1 => Dest \in Nodes /\ Dest # home
    BY <1>1, Zenon DEF Slot, Dest, NodeTypes
<1>7. link[cache] = "up" /\ link[owner] = "up"
    BY <1>1, <1>2, <1>3, <1>5, Zenon DEF Slot, Links
<1> QED
    BY <1>1, <1>2, <1>3, <1>4, <1>5, <1>6, <1>7, Zenon DEF Links

LEMMA LinksStay ==
    ASSUME CalmStep, UNCHANGED <<owner, cache, link>>, ReportedOnce', Reported' \subseteq Reported,
           link[home] = "up" => retry' = <<>> /\ at' \notin {"policy", "reconnect", "retry"},
           at' \in {"policy", "reconnect"} => home \notin Reported'
    PROVE  Links'
<1>1. Links /\ home' = home
    BY Zenon DEF CalmStep, CalmParts
<1> QED
    BY <1>1, Zenon DEF Links

LEMMA LinksKept ==
    ASSUME CalmStep, UNCHANGED <<owner, cache, link, queue>>,
           link[home] = "up" => retry' = <<>> /\ at' \notin {"policy", "reconnect", "retry"},
           at' \in {"policy", "reconnect"} => at \in {"policy", "reconnect"}
    PROVE  Links'
<1>1. Links
    BY Zenon DEF CalmStep, CalmParts
<1>2. Reported' = Reported /\ (ReportedOnce => ReportedOnce')
    BY Zenon DEF Reported, ReportedOnce
<1> QED
    BY <1>1, <1>2, LinksStay, Zenon DEF Links

LEMMA MovesKept ==
    ASSUME CalmStep, owner' = owner,
           \A n \in Nodes : Range(replies'[n]) \subseteq Range(replies[n]),
           \A m \in Range(queue') : m.type = "moved" => m \in Range(queue),
           rx' = rx \/ rx' = None \/ rx'.kind # "moved",
           goal' = "moved" => goal = "moved" /\ target' = target
    PROVE  Moves'
<1>1. Moves /\ home' = home
    BY Zenon DEF CalmStep, CalmParts
<1> QED
    BY <1>1, Zenon DEF Moves

LEMMA AskingFirstKept ==
    ASSUME CalmStep, UNCHANGED <<owner, importer, requests, asking, inflight>>,
           at' = "asked" => at = "asked" /\ rx' = rx /\ target' = target,
           at' = "direct" /\ goal' = "ask" =>
               ((at = "asked" /\ rx # None) \/ (at = "direct" /\ goal = "ask")) /\ target' = target
    PROVE  AskingFirst'
<1>1. AskingFirst /\ home' = home
    BY Zenon DEF CalmStep, CalmParts
<1>2. Dest' = Dest /\ (\A n \in Nodes : Flagged(n) => Flagged(n)') /\ (target' = target => (Awaited <=> Awaited'))
    BY Zenon DEF Dest, Flagged, Awaited
<1> QED
    BY <1>1, <1>2, Zenon DEF AskingFirst

(* A pipelined command that a step leaves where it is. *)
LEMMA PaidKept ==
    ASSUME CalmStep, NEW c, Paid(c), attempted'[c] = attempted[c],
           answer'[c] \in {answer[c], "ok"}, Replaced => Replaced',
           at' = "write" /\ cmd' = c => attempted[c] \in Tries(0),
           goal' # "none" /\ cmd' = c => attempted[c] \in Tries(1),
           \A m \in Range(queue') : m.cmd = c => m \in Range(queue),
           \A n \in Nodes : c \in Range(inflight'[n]) => c \in Range(inflight[n]),
           c \in Range(retry') => c \in Range(retry)
    PROVE  Paid(c)'
<1>1. home' = home /\ home \in Nodes
    BY Zenon DEF CalmStep, CalmParts, Slot
<1>2. /\ attempted[c] \in InFlightTries => attempted[c] \in InFlightTries'
      /\ attempted[c] \in RetryTries => attempted[c] \in RetryTries'
    BY TriesFacts DEF InFlightTries, RetryTries
<1> QED
    BY <1>1, <1>2, Zenon DEF Paid

LEMMA ReplacedKept ==
    ASSUME CalmStep, UNCHANGED <<link, queue>>,
           at' \in {"policy", "reconnect"} => at \in {"policy", "reconnect"}
    PROVE  Replaced => Replaced'
<1>1. home' = home /\ Reported' = Reported
    BY Zenon DEF CalmStep, Reported
<1> QED
    BY <1>1, Zenon DEF Replaced

(* A step of the router that only moves on. *)
LEMMA QuietCalm ==
    ASSUME CalmStep, UNCHANGED <<nodeVars, wireVars, connVars, cache, queue, cmdVars>>, Course',
           rx' = rx \/ rx' = None,
           at' \in {"policy", "reconnect"} => at \in {"policy", "reconnect"},
           at' = "retry" => at = "retry",
           at' = "asked" => at = "asked" /\ rx' = rx /\ target' = target,
           at' = "direct" /\ goal' = "ask" =>
               ((at = "asked" /\ rx # None) \/ (at = "direct" /\ goal = "ask")) /\ target' = target,
           goal' = "moved" => goal = "moved" /\ target' = target,
           at' \in {"write", "wait"} \/ next' = "write" \/ goal' = "write" => cmd' \notin pipelined,
           goal' # "none" /\ cmd' \in pipelined => goal # "none" /\ cmd' = cmd
    PROVE  CalmParts'
<1>1. /\ UNCHANGED <<owner, importer, migrations, requests, replies, asking, link, inflight, retry,
                     attempted, channel, answer>>
    BY Zenon DEF nodeVars, wireVars, connVars, cmdVars
<1>2. Links /\ Budget /\ pipelined' = pipelined
    BY Zenon DEF CalmStep, CalmParts
<1>3. link[home] = "up" => retry' = <<>> /\ at' \notin {"policy", "reconnect", "retry"}
    BY <1>1, <1>2, Zenon DEF Links
<1>4. Slot'
    BY <1>1, SlotKept, Zenon
<1>5. Links'
    BY <1>1, <1>3, LinksKept, Zenon
<1>6. Moves'
    BY <1>1, MovesKept, Zenon
<1>7. AskingFirst'
    BY <1>1, AskingFirstKept, Zenon
<1>8. Replaced => Replaced'
    BY <1>1, ReplacedKept, Zenon
<1>9. ASSUME NEW c \in pipelined
      PROVE  Paid(c)'
  <2>1. Paid(c)
      BY <1>2, Zenon DEF Budget
  <2>2. /\ ~(at' = "write" /\ cmd' = c)
        /\ goal' # "none" /\ cmd' = c => attempted[c] \in Tries(1)
      BY <2>1, Zenon DEF Paid
  <2>3. /\ attempted'[c] = attempted[c] /\ answer'[c] \in {answer[c], "ok"}
        /\ \A m \in Range(queue') : m.cmd = c => m \in Range(queue)
        /\ \A n \in Nodes : c \in Range(inflight'[n]) => c \in Range(inflight[n])
        /\ c \in Range(retry') => c \in Range(retry)
      BY <1>1, Zenon
  <2> QED
      BY <1>8, <2>1, <2>2, <2>3, PaidKept, Zenon
<1>10. Budget'
    BY <1>1, <1>2, <1>9, Zenon DEF Budget
<1> QED
    BY <1>4, <1>5, <1>6, <1>7, <1>10, Zenon DEF CalmParts

LEMMA CalmFacts ==
    ASSUME CalmStep
    PROVE  /\ Slot /\ Links /\ Course /\ Moves /\ AskingFirst /\ Budget /\ Asks
           /\ NodeTypes /\ ConnTypes /\ RouterTypes /\ CommandTypes /\ Control /\ Wires /\ Distinct
           /\ Placement /\ home' = home /\ others' = others /\ pipelined' = pipelined
           /\ pipelined \subseteq Commands
    BY Zenon DEF CalmStep, CalmParts, ClusterInv

LEMMA RetryDoneCalm ==
    ASSUME CalmStep, at = "retry", RetryDone
    PROVE  CalmParts'
<1>1. /\ at' = next /\ next' = "idle" /\ UNCHANGED <<goal, cmd, target, rx, reconnects>>
      /\ UNCHANGED <<nodeVars, wireVars, connVars, cache, queue, cmdVars>>
    BY Zenon DEF RetryDone
<1>2. Course /\ Budget /\ home' = home /\ owner' = owner
    BY <1>1, CalmFacts, Zenon DEF nodeVars
<1>3. next \in {"idle", "write", "direct"} /\ (next = "direct" => goal = "moved")
    BY <1>2, Zenon DEF Course
<1>4. Course'
    BY <1>1, <1>2, <1>3, Zenon DEF Course
<1>5. next = "write" \/ goal = "write" => cmd \notin pipelined
    BY <1>2, Zenon DEF Budget
<1> QED
    BY <1>1, <1>3, <1>4, <1>5, QuietCalm, Zenon

LEMMA AskCheckCalm ==
    ASSUME CalmStep, AskCheck
    PROVE  CalmParts'
<1>1. at = "ask" /\ UNCHANGED <<nodeVars, wireVars, connVars, cache, queue, cmdVars, rx, reconnects>>
    BY Zenon DEF AskCheck
<1>2. Course /\ Budget /\ Asks /\ home' = home /\ owner' = owner
    BY <1>1, CalmFacts, Zenon DEF nodeVars
<1>3. target = Dest /\ migrations = 1
    BY <1>1, <1>2, Zenon DEF Asks, Redirecting
<1>4. link[target] \in Working
    BY <1>3, CalmLinks, Zenon DEF Working
<1>5. at' = "askwrite" /\ UNCHANGED <<next, goal, cmd, target>>
    BY <1>4, Zenon DEF AskCheck, Goto
<1>6. next = "idle" /\ (goal = "write" => cmd \notin pipelined)
    BY <1>1, <1>2, Zenon DEF Course, Budget
<1>7. Course'
    BY <1>1, <1>2, <1>5, <1>6, Zenon DEF Course
<1> QED
    BY <1>1, <1>5, <1>6, <1>7, QuietCalm, Zenon

LEMMA AskedCalm ==
    ASSUME CalmStep, Asked
    PROVE  CalmParts'
<1>1. /\ at = "asked" /\ rx # None /\ rx' = None /\ reconnects' = 0
      /\ Goto(IF goal = "write" THEN "write" ELSE "direct")
      /\ UNCHANGED <<nodeVars, wireVars, connVars, cache, queue, cmdVars>>
    BY Zenon DEF Asked
<1>2. Course /\ Budget /\ home' = home /\ owner' = owner
    BY <1>1, CalmFacts, Zenon DEF nodeVars
<1>3. next = "idle" /\ goal \in {"ask", "write"} /\ (goal = "write" => cmd \notin pipelined)
    BY <1>1, <1>2, Zenon DEF Course, Budget
<1>4. /\ UNCHANGED <<next, goal, cmd, target>> /\ (goal = "write" => at' = "write")
      /\ goal = "ask" => at' = "direct"
    BY <1>1 DEF Goto
<1>5. Course'
    BY <1>1, <1>2, <1>3, <1>4, Zenon DEF Course
<1> QED
    BY <1>1, <1>3, <1>4, <1>5, QuietCalm, Zenon

LEMMA PolicyCalm ==
    ASSUME CalmStep, Policy
    PROVE  CalmParts'
<1>1. at = "policy" /\ Course /\ Budget /\ home' = home
    BY CalmFacts, Zenon DEF Policy
<1>2. reconnects = 0
    BY <1>1, Zenon DEF Course
<1>3. ~(reconnects >= MaxReconnects)
    BY <1>2, ClusterRouterAssumption
<1>4. PolicyOr("reconnect") /\ UNCHANGED <<nodeVars, wireVars, connVars, cache, queue, cmdVars>>
    BY <1>3, Zenon DEF Policy, Exhausted
<1>5. at' = "reconnect" /\ UNCHANGED <<next, goal, cmd, target, rx>>
    BY <1>4 DEF PolicyOr, Goto
<1>6. owner' = owner
    BY <1>4, Zenon DEF nodeVars
<1>7. Course'
    BY <1>1, <1>5, <1>6, Zenon DEF Course
<1>8. next = "write" \/ goal = "write" => cmd \notin pipelined
    BY <1>1, Zenon DEF Budget
<1> QED
    BY <1>1, <1>4, <1>5, <1>7, <1>8, QuietCalm, Zenon

LEMMA WaitCalm ==
    ASSUME CalmStep, Wait
    PROVE  CalmParts'
<1>1. /\ at = "wait" /\ rx # None /\ rx' = None
      /\ WaitContinue \/ WaitMoved \/ WaitAsk \/ WaitClosed
      /\ UNCHANGED <<nodeVars, wireVars, connVars, cache, queue, reconnects, attempted, channel>>
    BY Zenon DEF Wait
<1>2. Course /\ Budget /\ Moves /\ home' = home /\ owner' = owner /\ pipelined \subseteq Commands
    BY <1>1, CalmFacts, Zenon DEF nodeVars
<1>3. cmd \notin pipelined /\ next = "idle" /\ rx.kind # "closed" /\ None \notin pipelined
    BY <1>1, <1>2, Different, Zenon DEF Course, Budget
<1>4. answer' = answer
    BY <1>1, <1>3, Zenon DEF WaitContinue, WaitMoved, WaitAsk, WaitClosed
<1>5. UNCHANGED cmdVars
    BY <1>1, <1>4, Zenon DEF cmdVars
<1>6. CASE WaitContinue
  <2>1. at' = "idle" /\ next' = "idle" /\ goal' = "none" /\ cmd' = None
      BY <1>6, Zenon DEF WaitContinue, Idle
  <2>2. Course'
      BY <1>1, <1>2, <2>1, Zenon DEF Course
  <2> QED
      BY <1>1, <1>3, <1>5, <2>1, <2>2, QuietCalm, Zenon
<1>7. CASE WaitMoved
  <2>1. /\ UNCHANGED <<goal, cmd, target>>
        /\ (at' = "write" /\ next' = next) \/ (at' = "sync" /\ next' = "write")
      BY <1>7, Zenon DEF WaitMoved
  <2>2. owner # home
      BY <1>1, <1>2, <1>7, Zenon DEF WaitMoved, Moves
  <2>3. Course'
      BY <1>1, <1>2, <1>3, <2>1, <2>2, Zenon DEF Course
  <2> QED
      BY <1>1, <1>3, <1>5, <2>1, <2>3, QuietCalm, Zenon
<1>8. CASE WaitAsk
  <2>1. at' = "ask" /\ goal' = "write" /\ UNCHANGED <<next, cmd>>
      BY <1>8, Zenon DEF WaitAsk
  <2>2. Course'
      BY <1>1, <1>2, <1>3, <2>1, Zenon DEF Course
  <2> QED
      BY <1>1, <1>3, <1>5, <2>1, <2>2, QuietCalm, Zenon
<1> QED
    BY <1>1, <1>3, <1>6, <1>7, <1>8, Zenon DEF WaitClosed

LEMMA QueueGrown ==
    ASSUME queue \in Seq(Messages), NEW m \in Messages, m.type # "reconnect", queue' = Append(queue, m)
    PROVE  /\ Reported' = Reported /\ Range(queue') = Range(queue) \cup {m}
           /\ ReportedOnce => ReportedOnce'
<1>1. Range(queue') = Range(queue) \cup {m}
    BY AppendFacts, Zenon
<1>2. /\ DOMAIN queue' = DOMAIN queue \cup {Len(queue) + 1} /\ queue'[Len(queue) + 1] = m
      /\ \A i \in DOMAIN queue : queue'[i] = queue[i]
    OBVIOUS
<1>3. ReportedOnce => ReportedOnce'
    BY <1>2 DEF ReportedOnce
<1>4. \A x : x \in Range(queue') /\ x.type = "reconnect" <=> x \in Range(queue) /\ x.type = "reconnect"
    BY <1>1, Zenon
<1>5. Reported' = Reported
    BY <1>4 DEF Reported
<1> QED
    BY <1>1, <1>3, <1>5, Zenon

LEMMA SubmitCalm ==
    ASSUME CalmStep, NEW c \in Commands, Submit(c)
    PROVE  CalmParts'
<1> DEFINE m == Message("command", c, None)
<1>1. /\ answer[c] = "unsent" /\ answer' = [answer EXCEPT ![c] = "pending"] /\ queue' = Append(queue, m)
      /\ UNCHANGED <<owner, importer, migrations, requests, replies, asking, link, inflight, retry, cache,
                     at, next, goal, cmd, target, rx, reconnects, attempted, channel>>
    BY Zenon DEF Submit, nodeVars, wireVars, connVars, pcVars
<1>2. /\ Links /\ Course /\ Budget /\ Moves /\ RouterTypes /\ CommandTypes /\ home' = home
      /\ pipelined' = pipelined /\ pipelined \subseteq Commands
    BY CalmFacts, Zenon
<1>3. queue \in Seq(Messages) /\ answer \in [Commands -> {"unsent", "pending", "ok", "error", "canceled"}]
    BY <1>2, Zenon DEF RouterTypes, CommandTypes
<1>4. m \in Messages /\ m.type = "command" /\ m.cmd = c
    BY DEF Message, Messages
<1> HIDE DEF m
<1>5. /\ Reported' = Reported /\ Range(queue') = Range(queue) \cup {m}
      /\ ReportedOnce => ReportedOnce'
    BY <1>1, <1>3, <1>4, QueueGrown, Zenon
<1>6. Slot'
    BY <1>1, SlotKept, Zenon
<1>7. Links'
    BY <1>1, <1>2, <1>5, LinksStay, Zenon DEF Links
<1>8. Course'
    BY <1>1, <1>2, Zenon DEF Course
<1>9. Moves'
  <2>1. \A x \in Range(queue') : x.type = "moved" => x \in Range(queue)
      BY <1>4, <1>5, Zenon
  <2> QED
      BY <1>1, <2>1, MovesKept, Zenon
<1>10. AskingFirst'
    BY <1>1, AskingFirstKept, Zenon
<1>11. Replaced => Replaced'
    BY <1>1, <1>2, <1>5, Zenon DEF Replaced
<1>12. ASSUME NEW d \in pipelined
       PROVE  Paid(d)'
  <2>1. Paid(d)
      BY <1>2, Zenon DEF Budget
  <2>2. CASE d # c
    <3>1. answer'[d] = answer[d] /\ \A x \in Range(queue') : x.cmd = d => x \in Range(queue)
        BY <1>1, <1>2, <1>3, <1>4, <1>5, <2>2, Zenon
    <3>2. /\ at' = "write" /\ cmd' = d => attempted[d] \in Tries(0)
          /\ goal' # "none" /\ cmd' = d => attempted[d] \in Tries(1)
        BY <1>1, <2>1, Zenon DEF Paid
    <3>3. /\ attempted'[d] = attempted[d] /\ answer'[d] \in {answer[d], "ok"}
          /\ \A n \in Nodes : d \in Range(inflight'[n]) => d \in Range(inflight[n])
          /\ d \in Range(retry') => d \in Range(retry)
        BY <1>1, <3>1, Zenon
    <3> QED
        BY <1>11, <2>1, <3>1, <3>2, <3>3, PaidKept, Zenon
  <2>3. CASE d = c
    <3>1. attempted'[c] \in Tries(0) /\ attempted'[c] \in Tries(1)
        BY <1>1, <2>1, <2>3, TriesFacts, Zenon DEF Paid
    <3>2. attempted'[c] \in InFlightTries' /\ attempted'[c] \in RetryTries'
        BY <3>1, TriesFacts DEF InFlightTries, RetryTries
    <3>3. answer'[c] = "pending"
        BY <1>1, <1>3, Zenon
    <3> QED
        BY <2>3, <3>1, <3>2, <3>3, Zenon DEF Paid
  <2> QED
      BY <2>2, <2>3, Zenon
<1>13. Budget'
    BY <1>1, <1>2, <1>12, Zenon DEF Budget
<1> QED
    BY <1>6, <1>7, <1>8, <1>9, <1>10, <1>13, Zenon DEF CalmParts

(* Nothing happens to the commands. *)
LEMMA BudgetKept ==
    ASSUME CalmStep, UNCHANGED <<at, next, goal, cmd, attempted, channel, answer, queue, inflight, retry, link>>
    PROVE  Budget'
<1>1. Budget /\ pipelined' = pipelined
    BY CalmFacts, Zenon
<1>2. Replaced => Replaced'
    BY ReplacedKept, Zenon
<1>3. ASSUME NEW c \in pipelined
      PROVE  Paid(c)'
  <2>1. Paid(c)
      BY <1>1, Zenon DEF Budget
  <2>2. /\ at' = "write" /\ cmd' = c => attempted[c] \in Tries(0)
        /\ goal' # "none" /\ cmd' = c => attempted[c] \in Tries(1)
      BY <2>1, Zenon DEF Paid
  <2>3. /\ attempted'[c] = attempted[c] /\ answer'[c] \in {answer[c], "ok"}
        /\ \A m \in Range(queue') : m.cmd = c => m \in Range(queue)
        /\ \A n \in Nodes : c \in Range(inflight'[n]) => c \in Range(inflight[n])
        /\ c \in Range(retry') => c \in Range(retry)
      BY Zenon
  <2> QED
      BY <1>2, <2>1, <2>2, <2>3, PaidKept, Zenon
<1> QED
    BY <1>1, <1>3, Zenon DEF Budget

(* The slot starts to migrate. *)
LEMMA MigrateCalm ==
    ASSUME CalmStep, Migrate, migrations' \in {0, 1}
    PROVE  CalmParts'
<1>1. /\ importer = None /\ importer' \in Nodes \ {owner} /\ migrations' = migrations + 1
      /\ UNCHANGED <<owner, requests, replies, asking, link, inflight, retry, cache, queue,
                     at, next, goal, cmd, target, rx, reconnects, attempted, channel, answer>>
    BY Zenon DEF Migrate, wireVars, connVars, pcVars, cmdVars
<1>2. /\ Slot /\ Links /\ Course /\ Budget /\ Moves /\ AskingFirst /\ Asks /\ home' = home
      /\ pipelined' = pipelined /\ others' = others
    BY CalmFacts, Zenon
<1>3. migrations # 1 /\ migrations' = 1
  <2>1. migrations \in {0, 1}
      BY Zenon DEF CalmStep
  <2> QED
      BY <1>1, <2>1
<1>4. owner = home /\ importer' # None /\ importer' # home /\ Dest' = importer' /\ Dest = owner
    BY <1>1, <1>2, <1>3, Different, Zenon DEF Slot, MigrationOver, Dest
<1>5. Slot'
    BY <1>1, <1>2, <1>4, Zenon DEF Slot
<1>6. Links'
    BY <1>1, <1>2, LinksKept, Zenon DEF Links
<1>7. Course'
    BY <1>1, <1>2, Zenon DEF Course
<1>8. Moves'
    BY <1>1, MovesKept, Zenon
<1>9. at # "asked" /\ goal # "ask"
    BY <1>2, <1>3, Zenon DEF Asks, Redirecting
<1>10. AskingFirst'
  <2>1. \A n \in Nodes : n # home => requests[n] = <<>>
      BY <1>2, <1>4, Zenon DEF AskingFirst
  <2>2. \A n \in Nodes : Flagged(n) => Flagged(n)'
      BY <1>1, Zenon DEF Flagged
  <2> QED
      BY <1>1, <1>2, <1>9, <2>1, <2>2, Zenon DEF AskingFirst
<1>11. Budget'
    BY <1>1, BudgetKept, Zenon
<1> QED
    BY <1>5, <1>6, <1>7, <1>8, <1>10, <1>11, Zenon DEF CalmParts

(* ... and has migrated. *)
LEMMA MigrationEndsCalm ==
    ASSUME CalmStep, MigrationEnds
    PROVE  CalmParts'
<1>1. /\ importer # None /\ owner' = importer /\ importer' = None
      /\ UNCHANGED <<migrations, requests, replies, asking, link, inflight, retry, cache, queue,
                     at, next, goal, cmd, target, rx, reconnects, attempted, channel, answer>>
    BY Zenon DEF MigrationEnds, wireVars, connVars, pcVars, cmdVars
<1>2. /\ Slot /\ Links /\ Course /\ Budget /\ Moves /\ AskingFirst /\ home' = home
      /\ pipelined' = pipelined /\ others' = others
    BY CalmFacts, Zenon
<1>3. migrations = 1
    BY <1>1, Zenon DEF CalmStep
<1>4. owner = home /\ owner' # home /\ Dest' = importer /\ Dest = importer /\ cache = home
      /\ link[home] = "up"
    BY <1>1, <1>2, Zenon DEF Slot, MigrationOver, Dest, Links
<1>5. Slot'
    BY <1>1, <1>2, <1>3, <1>4, Different, Zenon DEF Slot, MigrationOver
<1>6. Links'
  <2>1. Reported' = Reported /\ (ReportedOnce => ReportedOnce')
      BY <1>1, Zenon DEF Reported, ReportedOnce
  <2> QED
      BY <1>1, <1>2, <1>4, <2>1, Zenon DEF Links
<1>7. Course'
    BY <1>1, <1>2, <1>4, Zenon DEF Course
<1>8. Moves'
    BY <1>1, <1>2, <1>4, Zenon DEF Moves
<1>9. AskingFirst'
  <2>1. Awaited => Awaited'
      BY <1>1, Zenon DEF Awaited
  <2> QED
      BY <1>1, <1>2, <1>4, <2>1, Zenon DEF AskingFirst
<1>10. Budget'
    BY <1>1, BudgetKept, Zenon
<1> QED
    BY <1>5, <1>6, <1>7, <1>8, <1>9, <1>10, Zenon DEF CalmParts

(* A command that may still be written twice more is not given up. *)
LEMMA NotGivenUp ==
    ASSUME CalmStep, NEW c \in pipelined, attempted[c] \in Tries(1) \/ attempted[c] \in Tries(2)
    PROVE  ~TooMany(c)
<1>1. MaxAttempts >= 3
    BY Zenon DEF CalmStep
<1>2. attempted[c] \in Tries(2)
    BY TriesFacts, Zenon
<1> QED
    BY <1>1, <1>2, TriesFacts, Zenon DEF TooMany

LEMMA GiveUpCalm ==
    ASSUME CalmStep, at \in {"write", "direct"}, GiveUp
    PROVE  CalmParts'
<1>1. /\ TooMany(cmd) /\ answer' = [answer EXCEPT ![cmd] = "error"]
      /\ at' = "idle" /\ next' = "idle" /\ goal' = "none" /\ cmd' = None
      /\ UNCHANGED <<owner, importer, migrations, requests, replies, asking, link, inflight, retry, cache,
                     queue, rx, reconnects, attempted, channel>>
    BY Zenon DEF GiveUp, Answered, Idle, nodeVars, wireVars, connVars
<1>2. /\ Links /\ Course /\ Budget /\ CommandTypes /\ Control /\ home' = home
      /\ pipelined' = pipelined /\ pipelined \subseteq Commands
    BY CalmFacts, Zenon
<1>3. cmd \notin pipelined
  <2>1. ASSUME cmd \in pipelined
        PROVE  FALSE
    <3>1. Paid(cmd)
        BY <1>2, <2>1, Zenon DEF Budget
    <3>2. at = "direct" => goal # "none"
        BY <1>2, Zenon DEF Course
    <3>3. attempted[cmd] \in Tries(0) \/ attempted[cmd] \in Tries(1)
        BY <3>1, <3>2, Zenon DEF Paid
    <3>4. attempted[cmd] \in Tries(1)
        BY <3>3, TriesFacts, Zenon
    <3> QED
        BY <1>1, <2>1, <3>4, NotGivenUp, Zenon
  <2> QED
      BY <2>1, Zenon
<1>4. \A c \in pipelined : answer'[c] = answer[c]
    BY <1>1, <1>2, <1>3, Zenon DEF CommandTypes
<1>5. Slot'
    BY <1>1, SlotKept, Zenon
<1>6. Links'
    BY <1>1, <1>2, LinksKept, Zenon DEF Links
<1>7. Course'
    BY <1>1, <1>2, Zenon DEF Course
<1>8. Moves'
    BY <1>1, MovesKept, Zenon
<1>9. AskingFirst'
    BY <1>1, AskingFirstKept, Zenon
<1>10. Replaced => Replaced'
    BY <1>1, ReplacedKept, Zenon
<1>11. ASSUME NEW c \in pipelined
       PROVE  Paid(c)'
  <2>1. Paid(c)
      BY <1>2, Zenon DEF Budget
  <2>2. /\ attempted'[c] = attempted[c] /\ answer'[c] \in {answer[c], "ok"}
        /\ \A m \in Range(queue') : m.cmd = c => m \in Range(queue)
        /\ \A n \in Nodes : c \in Range(inflight'[n]) => c \in Range(inflight[n])
        /\ c \in Range(retry') => c \in Range(retry)
        /\ at' # "write" /\ goal' = "none"
      BY <1>1, <1>4, Zenon
  <2> QED
      BY <1>10, <2>1, <2>2, PaidKept, Zenon
<1>12. Budget'
    BY <1>1, <1>2, <1>11, Zenon DEF Budget
<1> QED
    BY <1>5, <1>6, <1>7, <1>8, <1>9, <1>12, Zenon DEF CalmParts

LEMMA RetryTooManyCalm ==
    ASSUME CalmStep, at = "retry", RetryTooMany
    PROVE  CalmParts'
<1>0. PICK d : d = Head(retry)
    OBVIOUS
<1>1. /\ retry # <<>> /\ TooMany(d) /\ answer' = [answer EXCEPT ![d] = "error"] /\ retry' = Tail(retry)
      /\ UNCHANGED <<owner, importer, migrations, requests, replies, asking, link, inflight, cache,
                     queue, at, next, goal, cmd, target, rx, reconnects, attempted, channel>>
    BY <1>0, Zenon DEF RetryTooMany, Answered, nodeVars, wireVars, pcVars
<1>2. /\ Links /\ Course /\ Budget /\ ConnTypes /\ CommandTypes /\ home' = home
      /\ pipelined' = pipelined /\ pipelined \subseteq Commands
    BY CalmFacts, Zenon
<1>3. /\ d \in Range(retry) /\ Range(retry') \subseteq Range(retry)
  <2>1. retry \in Seq(Commands)
      BY <1>2, Zenon DEF ConnTypes
  <2>2. Head(retry) \in Range(retry) /\ Range(retry) = Range(Tail(retry)) \cup {Head(retry)}
      BY <1>1, <2>1, TailFacts
  <2> QED
      BY <1>0, <1>1, <2>2
<1>4. d \notin pipelined
  <2>1. ASSUME d \in pipelined
        PROVE  FALSE
    <3>1. Paid(d)
        BY <1>2, <2>1, Zenon DEF Budget
    <3>2. attempted[d] \in RetryTries
        BY <1>3, <3>1, Zenon DEF Paid
    <3>3. attempted[d] \in Tries(1) \/ attempted[d] \in Tries(2)
        BY <3>2 DEF RetryTries
    <3> QED
        BY <1>1, <2>1, <3>3, NotGivenUp, Zenon
  <2> QED
      BY <2>1, Zenon
<1>5. \A c \in pipelined : answer'[c] = answer[c]
    BY <1>1, <1>2, <1>4, Zenon DEF CommandTypes
<1>6. link[home] # "up"
    BY <1>2, Zenon DEF Links
<1>7. Slot'
    BY <1>1, SlotKept, Zenon
<1>8. Links'
    BY <1>1, <1>6, LinksKept, Zenon
<1>9. Course'
    BY <1>1, <1>2, Zenon DEF Course
<1>10. Moves'
    BY <1>1, MovesKept, Zenon
<1>11. AskingFirst'
    BY <1>1, AskingFirstKept, Zenon
<1>12. Replaced => Replaced'
    BY <1>1, ReplacedKept, Zenon
<1>13. ASSUME NEW c \in pipelined
       PROVE  Paid(c)'
  <2>1. Paid(c)
      BY <1>2, Zenon DEF Budget
  <2>2. /\ attempted'[c] = attempted[c] /\ answer'[c] \in {answer[c], "ok"}
        /\ \A m \in Range(queue') : m.cmd = c => m \in Range(queue)
        /\ \A n \in Nodes : c \in Range(inflight'[n]) => c \in Range(inflight[n])
        /\ c \in Range(retry') => c \in Range(retry)
        /\ at' # "write"
      BY <1>1, <1>3, <1>5, Zenon
  <2>3. goal' # "none" /\ cmd' = c => attempted[c] \in Tries(1)
      BY <1>1, <2>1, Zenon DEF Paid
  <2> QED
      BY <1>12, <2>1, <2>2, <2>3, PaidKept, Zenon
<1>14. Budget'
    BY <1>1, <1>2, <1>13, Zenon DEF Budget
<1> QED
    BY <1>7, <1>8, <1>9, <1>10, <1>11, <1>14, Zenon DEF CalmParts

(* Taking a message off the queue; a Reconnect was its node's only one. *)
LEMMA QueueShrunk ==
    ASSUME queue \in Seq(Messages), queue # <<>>, ReportedOnce, queue' = Tail(queue)
    PROVE  /\ Head(queue) \in Range(queue) /\ Range(queue') \subseteq Range(queue)
           /\ Reported' \subseteq Reported /\ ReportedOnce'
           /\ Head(queue).type = "reconnect" => Head(queue).server \notin Reported'
<1>1. Head(queue) \in Range(queue) /\ Range(queue') \subseteq Range(queue)
    BY TailFacts
<1>2. Reported' \subseteq Reported
    BY <1>1, Zenon DEF Reported
<1>3. /\ Head(queue) = queue[1] /\ 1 \in DOMAIN queue
      /\ \A i \in DOMAIN queue' : i + 1 \in DOMAIN queue /\ queue'[i] = queue[i + 1] /\ i + 1 # 1
      /\ \A i, j \in DOMAIN queue' : i + 1 = j + 1 => i = j
    OBVIOUS
<1>4. ReportedOnce'
  <2> SUFFICES ASSUME NEW i \in DOMAIN queue', NEW j \in DOMAIN queue', queue'[i].type = "reconnect",
                      queue'[i] = queue'[j]
               PROVE  i = j
      BY Zenon DEF ReportedOnce
  <2>1. queue[i + 1].type = "reconnect" /\ queue[i + 1] = queue[j + 1]
      BY <1>3
  <2>2. i + 1 = j + 1
      BY <1>3, <2>1, Zenon DEF ReportedOnce
  <2> QED
      BY <1>3, <2>2, Zenon
<1>5. ASSUME Head(queue).type = "reconnect", Head(queue).server \in Reported'
      PROVE  FALSE
  <2>1. PICK m \in Range(queue') : m.type = "reconnect" /\ m.server = Head(queue).server
      BY <1>5, Zenon DEF Reported
  <2>2. Head(queue) \in Messages /\ m \in Messages
    <3>1. queue' \in Seq(Messages) /\ Head(queue) \in Messages
        OBVIOUS
    <3> QED
        BY <3>1 DEF Range
  <2>3. m = Head(queue)
    <3>1. m \in ReconnectMessages /\ Head(queue) \in ReconnectMessages
        BY <1>5, <2>1, <2>2 DEF Messages, ReconnectMessages
    <3>2. m.cmd = Head(queue).cmd /\ m.type = Head(queue).type /\ m.server = Head(queue).server
        BY <2>1, <3>1 DEF ReconnectMessages
    <3> QED
        BY <3>1, <3>2 DEF ReconnectMessages
  <2>4. PICK i \in DOMAIN queue' : queue'[i] = m
      BY Zenon DEF Range
  <2>5. queue[i + 1] = queue[1] /\ queue[1].type = "reconnect"
      BY <1>3, <1>5, <2>3, <2>4
  <2> QED
      BY <1>3, <2>5 DEF ReportedOnce
<1> QED
    BY <1>1, <1>2, <1>4, <1>5, Zenon

LEMMA TakeCalm ==
    ASSUME CalmStep, Take
    PROVE  CalmParts'
<1>0. PICK m : m = Head(queue)
    OBVIOUS
<1>1. /\ at = "idle" /\ queue # <<>> /\ queue' = Tail(queue) /\ cmd' = m.cmd
      /\ goal' = IF m.type \in {"ask", "moved"} THEN m.type ELSE "none"
      /\ next' = IF m.type = "moved" THEN "direct" ELSE "idle"
      /\ target' = IF m.type \in {"ask", "moved"} THEN m.server ELSE None
      /\ UNCHANGED <<owner, importer, migrations, requests, replies, asking, link, inflight, retry,
                     cache, rx, reconnects, attempted, channel, answer>>
    BY <1>0, Zenon DEF Take, nodeVars, wireVars, connVars, cmdVars
<1>2. /\ Links /\ Course /\ Budget /\ Moves /\ RouterTypes /\ home' = home
      /\ pipelined' = pipelined /\ pipelined \subseteq Commands
    BY CalmFacts, Zenon
<1>3. queue \in Seq(Messages) /\ ReportedOnce
    BY <1>2, Zenon DEF RouterTypes, Links
<1>4. /\ m \in Range(queue) /\ Range(queue') \subseteq Range(queue)
      /\ Reported' \subseteq Reported /\ ReportedOnce'
      /\ m.type = "reconnect" => m.server \notin Reported'
    BY <1>0, <1>1, <1>3, QueueShrunk, Zenon
<1>5. m \in Messages
    BY <1>3, <1>4 DEF Range
<1>6. /\ m.type \in {"command", "ask", "moved", "reconnect"}
      /\ m.type = "reconnect" => m.server \in Nodes
    BY <1>5 DEF Messages, ReconnectMessages
<1>7. /\ m.type = "command" => at' = "write"
      /\ m.type = "ask" => at' = "ask"
      /\ m.type = "moved" => at' = "sync"
      /\ m.type = "reconnect" => at' = IF link[m.server] \in Working THEN "idle" ELSE "policy"
  <2>1. at' = CASE m.type = "command" -> "write"
                [] m.type = "ask" -> "ask"
                [] m.type = "moved" -> "sync"
                [] m.type = "reconnect" ->
                     IF m.type = "reconnect" /\ link[m.server] \in Working THEN "idle" ELSE "policy"
      BY <1>0, Zenon DEF Take
  <2> QED
      BY <2>1
<1>8. /\ at' \in {"write", "ask", "sync", "idle", "policy"}
      /\ at' = "policy" => m.type = "reconnect" /\ link[m.server] \notin Working
      /\ at' = "write" => m.type = "command"
      /\ at' = "ask" => goal' = "ask" /\ next' = "idle"
      /\ at' = "sync" => m.type = "moved"
      /\ next' \in {"idle", "direct"} /\ (next' = "direct" => goal' = "moved")
      /\ at' = "write" => next' = "idle"
      /\ goal' = "moved" => m.type = "moved" /\ target' = m.server
      /\ goal' # "write"
    BY <1>1, <1>6, <1>7
<1>9. at' = "policy" => m.server = home /\ link[home] # "up"
  <2>1. link[m.server] \notin Working => link[m.server] # "up"
      BY Zenon DEF Working
  <2> QED
      BY <1>2, <1>6, <1>8, <2>1, Zenon DEF Links
<1>10. m.type = "moved" => owner # home /\ m.server = owner
    BY <1>2, <1>4, Zenon DEF Moves
<1>11. m.type = "reconnect" => m.server \in Reported
    BY <1>4, Zenon DEF Reported
<1>12. Slot'
    BY <1>1, SlotKept, Zenon
<1>13. Links'
  <2>1. link[home] = "up" => retry' = <<>> /\ at' \notin {"policy", "reconnect", "retry"}
      BY <1>1, <1>2, <1>8, <1>9, Zenon DEF Links
  <2>2. at' \in {"policy", "reconnect"} => home \notin Reported'
      BY <1>4, <1>8, <1>9, Zenon
  <2> QED
      BY <1>1, <1>4, <2>1, <2>2, LinksStay, Zenon
<1>14. Course'
    BY <1>1, <1>2, <1>8, <1>10, Zenon DEF Course
<1>15. Moves'
    BY <1>1, <1>2, <1>4, <1>8, <1>10, Zenon DEF Moves
<1>16. AskingFirst'
    BY <1>1, <1>8, AskingFirstKept, Zenon
<1>17. Replaced => Replaced'
    BY <1>1, <1>2, <1>4, <1>8, <1>9, <1>11, Zenon DEF Replaced
<1>18. ASSUME NEW c \in pipelined
       PROVE  Paid(c)'
  <2>1. Paid(c)
      BY <1>2, Zenon DEF Budget
  <2>2. /\ at' = "write" /\ cmd' = c => attempted[c] \in Tries(0)
        /\ goal' # "none" /\ cmd' = c => attempted[c] \in Tries(1)
      BY <1>1, <1>4, <1>8, <2>1, Zenon DEF Paid
  <2>3. /\ attempted'[c] = attempted[c] /\ answer'[c] \in {answer[c], "ok"}
        /\ \A x \in Range(queue') : x.cmd = c => x \in Range(queue)
        /\ \A n \in Nodes : c \in Range(inflight'[n]) => c \in Range(inflight[n])
        /\ c \in Range(retry') => c \in Range(retry)
      BY <1>1, <1>4, Zenon
  <2> QED
      BY <1>17, <2>1, <2>2, <2>3, PaidKept, Zenon
<1>19. Budget'
    BY <1>1, <1>2, <1>8, <1>18, Zenon DEF Budget
<1> QED
    BY <1>12, <1>13, <1>14, <1>15, <1>16, <1>19, Zenon DEF CalmParts

(* A frame that the router writes to a node it is connected to. *)
LEMMA SentCalm ==
    ASSUME CalmStep, NEW c \in Frames, NEW n \in Nodes, link[n] = "up", Sent(c, n)
    PROVE  /\ Range(inflight'[n]) = Range(inflight[n]) \cup {c}
           /\ requests'[n] = Append(requests[n], c) /\ requests[n] \in Seq(Frames)
           /\ \A m \in Nodes : m # n => inflight'[m] = inflight[m] /\ requests'[m] = requests[m]
           /\ UNCHANGED <<link, replies, asking>>
<1>1. /\ inflight' = [inflight EXCEPT ![n] = Append(@, c)]
      /\ requests' = [requests EXCEPT ![n] = Append(@, c)]
      /\ UNCHANGED <<link, replies, asking>>
    BY DEF Sent
<1>2. inflight \in [Nodes -> Seq(Frames)] /\ requests \in [Nodes -> Seq(Frames)]
    BY CalmFacts, Zenon DEF NodeTypes, ConnTypes
<1>3. /\ inflight'[n] = Append(inflight[n], c) /\ requests'[n] = Append(requests[n], c)
      /\ \A m \in Nodes : m # n => inflight'[m] = inflight[m] /\ requests'[m] = requests[m]
      /\ inflight[n] \in Seq(Frames) /\ requests[n] \in Seq(Frames)
    BY <1>1, <1>2, Zenon
<1>4. Range(inflight'[n]) = Range(inflight[n]) \cup {c}
  <2>1. Range(Append(inflight[n], c)) = Range(inflight[n]) \cup {c}
      BY <1>3, AppendFacts
  <2> QED
      BY <1>3, <2>1
<1> QED
    BY <1>1, <1>3, <1>4, Zenon

LEMMA SentBudget ==
    ASSUME CalmStep, NEW c \in Commands, NEW n \in Nodes, link[n] = "up", Sent(c, n),
           attempted' = [attempted EXCEPT ![c] = @ + 1], UNCHANGED <<answer, queue>>,
           answer[c] = "pending", ~Queued(c), ~Flying(c), c \notin Range(retry'),
           Range(retry') \subseteq Range(retry), Replaced => Replaced', at' # "write",
           goal' # "none" /\ cmd' \in pipelined => cmd' # c /\ goal # "none" /\ cmd' = cmd,
           c \in pipelined =>
               (n = home => attempted[c] + 1 \in Tries(1)) /\ attempted[c] + 1 \in InFlightTries'
    PROVE  \A d \in pipelined : Paid(d)'
<1>0. c \in Frames
    BY Zenon DEF Frames
<1>1. /\ Range(inflight'[n]) = Range(inflight[n]) \cup {c}
      /\ \A m \in Nodes : m # n => inflight'[m] = inflight[m]
    BY <1>0, SentCalm, Zenon
<1>2. /\ Budget /\ CommandTypes /\ home' = home /\ home \in Nodes /\ pipelined \subseteq Commands
    BY CalmFacts, Zenon DEF Slot
<1>3. attempted \in [Commands -> Nat]
    BY <1>2, Zenon DEF CommandTypes
<1> SUFFICES ASSUME NEW d \in pipelined
             PROVE  Paid(d)'
    OBVIOUS
<1>4. Paid(d)
    BY <1>2, Zenon DEF Budget
<1>5. CASE d # c
  <2>1. attempted'[d] = attempted[d] /\ \A m \in Nodes : d \in Range(inflight'[m]) => d \in Range(inflight[m])
      BY <1>1, <1>2, <1>3, <1>5, Zenon
  <2>2. goal' # "none" /\ cmd' = d => attempted[d] \in Tries(1)
      BY <1>4, Zenon DEF Paid
  <2>3. /\ answer'[d] \in {answer[d], "ok"}
        /\ \A m \in Range(queue') : m.cmd = d => m \in Range(queue)
        /\ d \in Range(retry') => d \in Range(retry)
      BY Zenon
  <2> QED
      BY <1>4, <2>1, <2>2, <2>3, PaidKept, Zenon
<1>6. CASE d = c
  <2>1. attempted'[c] = attempted[c] + 1
      BY <1>3, Zenon
  <2>2. \A m \in Nodes : c \in Range(inflight'[m]) => m = n
      BY <1>1, Zenon DEF Flying
  <2>3. \A m \in Range(queue') : m.cmd # c
      BY Zenon DEF Queued, Range
  <2>4. answer'[c] = "pending" /\ ~(goal' # "none" /\ cmd' = c)
      BY <1>6, Zenon
  <2> QED
      BY <1>2, <1>6, <2>1, <2>2, <2>3, <2>4, Zenon DEF Paid
<1> QED
    BY <1>5, <1>6, Zenon

(* A command sent to the importing node finds the ASKING flag. *)
LEMMA SentAsked ==
    ASSUME CalmStep, NEW c \in Commands, NEW n \in Nodes, link[n] = "up", Sent(c, n),
           UNCHANGED <<owner, importer>>, n # home => n = Dest,
           n # home /\ owner = home => requests[n] = <<>> /\ asking[n],
           at' # "asked", ~(at' = "direct" /\ goal' = "ask")
    PROVE  AskingFirst'
<1>0. c \in Frames
    BY Zenon DEF Frames
<1>1. /\ requests'[n] = Append(requests[n], c) /\ asking' = asking
      /\ \A m \in Nodes : m # n => requests'[m] = requests[m]
    BY <1>0, SentCalm, Zenon
<1>2. AskingFirst /\ home' = home /\ Dest' = Dest
    BY CalmFacts, Zenon DEF Dest
<1>3. \A m \in Nodes : m # home /\ requests'[m] # <<>> => m = Dest
    BY <1>1, <1>2, Zenon DEF AskingFirst
<1>4. ASSUME owner = home, NEW m \in Nodes, m # home
      PROVE  Flagged(m)'
  <2>1. CASE m # n
    <3>1. Flagged(m) /\ requests'[m] = requests[m]
        BY <1>1, <1>2, <1>4, <2>1, Zenon DEF AskingFirst
    <3> QED
        BY <1>1, <3>1, Zenon DEF Flagged
  <2>2. CASE m = n
    <3>1. requests'[n] = Append(<<>>, c) /\ asking'[n]
        BY <1>1, <1>4, <2>2, Zenon
    <3>2. DOMAIN Append(<<>>, c) = {1}
        OBVIOUS
    <3> QED
        BY <2>2, <3>1, <3>2 DEF Flagged
  <2> QED
      BY <2>1, <2>2, Zenon
<1> QED
    BY <1>1, <1>2, <1>3, <1>4, Zenon DEF AskingFirst

LEMMA HandFacts ==
    ASSUME CalmStep, at \notin {"wait", "asked"}, cmd \in Commands
    PROVE  answer[cmd] = "pending" /\ ~Queued(cmd) /\ ~Flying(cmd) /\ cmd \notin Range(retry)
<1>1. answer[cmd] = "pending"
    BY InHand, Zenon DEF CalmStep
<1>2. Placed(cmd) /\ HeldByRouter(cmd)
    BY <1>1, CalmFacts, Zenon DEF Placement, HeldByRouter
<1> QED
    BY <1>1, <1>2, Zenon DEF Placed

LEMMA FewerTries ==
    /\ \A x \in Tries(1) : x \in InFlightTries' /\ x \in InFlightTries
    /\ \A x \in Tries(2) : x \in InFlightTries'
    BY TriesFacts DEF InFlightTries

LEMMA WriteCalm ==
    ASSUME CalmStep, Write
    PROVE  CalmParts'
<1>1. at = "write" /\ cmd \in Commands /\ link[cache] = "up" /\ cache \in Nodes
    BY CalmFacts, CalmLinks, Zenon DEF Write, Control
<1>2. CASE GiveUp
    BY <1>1, <1>2, GiveUpCalm, Zenon
<1>3. CASE WriteSent
  <2>1. /\ attempted' = [attempted EXCEPT ![cmd] = @ + 1] /\ Sent(cmd, cache)
        /\ channel' = IF cmd \in pipelined THEN channel ELSE channel \cup {cmd}
        /\ IF cmd \in pipelined THEN Idle ELSE Goto("wait")
        /\ UNCHANGED <<owner, importer, migrations, retry, cache, queue, rx, reconnects, answer>>
      BY <1>3, Zenon DEF WriteSent, nodeVars
  <2>2. UNCHANGED <<link, replies, asking>>
      BY <2>1, Zenon DEF Sent
  <2>3. /\ Slot /\ Links /\ Course /\ Budget /\ home' = home /\ pipelined' = pipelined
        /\ pipelined \subseteq Commands
      BY CalmFacts, Zenon
  <2>4. /\ cmd \in pipelined =>
              channel' = channel /\ at' = "idle" /\ next' = "idle" /\ goal' = "none" /\ cmd' = None
        /\ cmd \notin pipelined =>
              channel' = channel \cup {cmd} /\ at' = "wait" /\ UNCHANGED <<next, goal, cmd, target>>
      BY <2>1 DEF Idle, Goto
  <2>5. at' \in {"idle", "wait"} /\ None \notin pipelined
      BY <2>3, <2>4, Different, Zenon
  <2>6. Slot'
      BY <2>1, SlotKept, Zenon
  <2>7. Links'
      BY <2>1, <2>2, <2>3, <2>5, LinksKept, Zenon DEF Links
  <2>8. Course'
      BY <1>1, <2>1, <2>3, <2>4, Zenon DEF Course
  <2>9. Moves'
      BY <2>1, <2>2, <2>4, MovesKept, Zenon
  <2>10. AskingFirst'
    <3>1. cache # home => cache = Dest /\ owner # home
        BY <2>3, CalmLinks, Zenon DEF Slot
    <3> QED
        BY <1>1, <2>1, <2>5, <3>1, SentAsked, Zenon
  <2>11. \A d \in pipelined : Paid(d)'
    <3>1. answer[cmd] = "pending" /\ ~Queued(cmd) /\ ~Flying(cmd) /\ cmd \notin Range(retry)
        BY <1>1, HandFacts, Zenon
    <3>2. Replaced => Replaced'
        BY <2>1, <2>2, <2>5, ReplacedKept, Zenon
    <3>3. cmd \in pipelined =>
             (cache = home => attempted[cmd] + 1 \in Tries(1)) /\ attempted[cmd] + 1 \in InFlightTries'
      <4>1. cmd \in pipelined => attempted[cmd] \in Tries(0)
          BY <1>1, <2>3, Zenon DEF Budget, Paid
      <4> QED
          BY <4>1, TriesFacts, FewerTries, Zenon
    <3>4. at' # "write" /\ ~(goal' # "none" /\ cmd' \in pipelined)
        BY <2>4, <2>5, Zenon
    <3>5. cmd \notin Range(retry') /\ Range(retry') \subseteq Range(retry)
        BY <2>1, <3>1, Zenon
    <3> QED
        BY <1>1, <2>1, <3>1, <3>2, <3>3, <3>4, <3>5, SentBudget, Zenon
  <2>12. Budget'
    <3>1. \A d \in pipelined : d \notin channel'
        BY <2>3, <2>4, Zenon DEF Budget
    <3>2. at' = "wait" \/ next' = "write" \/ goal' = "write" => cmd' \notin pipelined
        BY <2>4, <2>5, Zenon
    <3> QED
        BY <2>3, <2>11, <3>1, <3>2, Zenon DEF Budget
  <2> QED
      BY <2>6, <2>7, <2>8, <2>9, <2>10, <2>12, Zenon DEF CalmParts
<1>4. ~Refuses(cache) /\ link[cache] # "none"
    BY <1>1, Zenon DEF Refuses
<1> QED
    BY <1>2, <1>3, <1>4, Zenon DEF Write, WriteFails, WriteMissing

LEMMA RetryCalm ==
    ASSUME CalmStep, Retry
    PROVE  CalmParts'
<1>1. at = "retry" /\ link[cache] = "up" /\ cache \in Nodes
    BY CalmLinks, Zenon DEF Retry
<1>2. CASE RetryDone
    BY <1>1, <1>2, RetryDoneCalm, Zenon
<1>3. CASE RetryTooMany
    BY <1>1, <1>3, RetryTooManyCalm, Zenon
<1>4. CASE RetrySent
  <2>0. PICK c : c = Head(retry)
      OBVIOUS
  <2>1. /\ retry # <<>> /\ attempted' = [attempted EXCEPT ![c] = @ + 1] /\ Sent(c, cache)
        /\ retry' = Tail(retry)
        /\ UNCHANGED <<owner, importer, migrations, cache, queue, at, next, goal, cmd, target, rx,
                       reconnects, channel, answer>>
      BY <1>4, <2>0, Zenon DEF RetrySent, nodeVars, pcVars
  <2>2. UNCHANGED <<link, replies, asking>>
      BY <2>1, Zenon DEF Sent
  <2>3. /\ Slot /\ Links /\ Course /\ Budget /\ ConnTypes /\ Distinct /\ Placement /\ Control
        /\ home' = home /\ pipelined' = pipelined /\ pipelined \subseteq Commands
      BY CalmFacts, Zenon
  <2>4. /\ c \in Commands /\ c \in Range(retry) /\ Range(retry') \subseteq Range(retry)
        /\ c \notin Range(retry')
    <3>1. retry \in Seq(Commands) /\ IsInjective(retry)
        BY <2>3, Zenon DEF ConnTypes, Distinct
    <3>2. /\ Head(retry) \in Commands /\ Head(retry) \in Range(retry)
          /\ Range(retry) = Range(Tail(retry)) \cup {Head(retry)} /\ Head(retry) \notin Range(Tail(retry))
        BY <2>1, <3>1, TailFacts, Zenon
    <3> QED
        BY <2>0, <2>1, <3>2
  <2>5. link[home] = "none" /\ owner # home /\ cache = owner /\ cache # home
      BY <1>1, <2>3, Zenon DEF Links
  <2>6. Slot'
      BY <2>1, SlotKept, Zenon
  <2>7. Links'
      BY <2>1, <2>2, <2>5, LinksKept, Zenon
  <2>8. Course'
      BY <1>1, <2>1, <2>3, Zenon DEF Course
  <2>9. Moves'
      BY <2>1, <2>2, MovesKept, Zenon
  <2>10. AskingFirst'
    <3>1. cache = Dest
        BY <2>5, CalmLinks, Zenon
    <3> QED
        BY <1>1, <2>1, <2>4, <2>5, <3>1, SentAsked, Zenon
  <2>11. \A d \in pipelined : Paid(d)'
    <3>1. Placed(c)
        BY <2>3, <2>4, Zenon DEF Placement
    <3>2. answer[c] = "pending" /\ ~Queued(c) /\ ~Flying(c) /\ ~HeldByRouter(c)
        BY <2>4, <3>1, Zenon DEF Placed
    <3>3. cmd # c
        BY <1>1, <3>2, Zenon DEF HeldByRouter
    <3>4. Replaced => Replaced'
        BY <2>1, <2>2, ReplacedKept, Zenon
    <3>5. c \in pipelined => attempted[c] + 1 \in InFlightTries'
      <4>1. c \in pipelined => attempted[c] \in RetryTries
          BY <2>3, <2>4, Zenon DEF Budget, Paid
      <4> QED
          BY <3>4, <4>1, TriesFacts DEF RetryTries, InFlightTries
    <3>6. c \in pipelined =>
             (cache = home => attempted[c] + 1 \in Tries(1)) /\ attempted[c] + 1 \in InFlightTries'
        BY <2>5, <3>5, Zenon
    <3>7. at' # "write" /\ (goal' # "none" /\ cmd' \in pipelined => cmd' # c /\ goal # "none" /\ cmd' = cmd)
        BY <1>1, <2>1, <3>3, Zenon
    <3> QED
        BY <1>1, <2>1, <2>4, <3>2, <3>4, <3>6, <3>7, SentBudget, Zenon
  <2>12. Budget'
      BY <2>1, <2>3, <2>11, Zenon DEF Budget
  <2> QED
      BY <2>6, <2>7, <2>8, <2>9, <2>10, <2>12, Zenon DEF CalmParts
<1> QED
    BY <1>1, <1>2, <1>3, <1>4, Zenon DEF Retry, RetryFails

LEMMA DirectCalm ==
    ASSUME CalmStep, Direct
    PROVE  CalmParts'
<1>1. at = "direct" /\ cmd \in Commands /\ target \in Nodes /\ goal \in {"ask", "moved"}
    BY CalmFacts, Zenon DEF Direct, Control, Course
<1>2. target = Dest /\ target # home /\ link[target] = "up" /\ (owner = home => goal = "ask")
  <2>1. goal = "ask" => target = Dest /\ migrations = 1
      BY CalmFacts, Zenon DEF Asks, Redirecting
  <2>2. goal = "moved" => owner # home /\ target = owner
      BY CalmFacts, Zenon DEF Moves
  <2> QED
      BY <1>1, <2>1, <2>2, CalmLinks, Zenon
<1>3. CASE GiveUp
    BY <1>1, <1>3, GiveUpCalm, Zenon
<1>4. CASE DirectSent
  <2>1. /\ attempted' = [attempted EXCEPT ![cmd] = @ + 1] /\ Sent(cmd, target)
        /\ at' = "idle" /\ next' = "idle" /\ goal' = "none" /\ cmd' = None
        /\ UNCHANGED <<owner, importer, migrations, retry, cache, queue, rx, reconnects, channel, answer>>
      BY <1>4, Zenon DEF DirectSent, Idle, nodeVars
  <2>2. UNCHANGED <<link, replies, asking>>
      BY <2>1, Zenon DEF Sent
  <2>3. /\ Links /\ Course /\ Budget /\ AskingFirst /\ home' = home /\ pipelined' = pipelined
      BY CalmFacts, Zenon
  <2>4. Slot'
      BY <2>1, SlotKept, Zenon
  <2>5. Links'
      BY <2>1, <2>2, <2>3, LinksKept, Zenon DEF Links
  <2>6. Course'
      BY <1>1, <2>1, <2>3, Zenon DEF Course
  <2>7. Moves'
      BY <2>1, <2>2, MovesKept, Zenon
  <2>8. AskingFirst'
    <3>1. owner = home => requests[target] = <<>> /\ asking[target]
        BY <1>1, <1>2, <2>3, Zenon DEF AskingFirst
    <3> QED
        BY <1>1, <1>2, <2>1, <3>1, SentAsked, Zenon
  <2>9. \A d \in pipelined : Paid(d)'
    <3>1. answer[cmd] = "pending" /\ ~Queued(cmd) /\ ~Flying(cmd) /\ cmd \notin Range(retry)
        BY <1>1, HandFacts, Zenon
    <3>2. Replaced => Replaced'
        BY <2>1, <2>2, ReplacedKept, Zenon
    <3>3. cmd \in pipelined =>
             (target = home => attempted[cmd] + 1 \in Tries(1)) /\ attempted[cmd] + 1 \in InFlightTries'
      <4>1. cmd \in pipelined => attempted[cmd] \in Tries(1)
          BY <1>1, <2>3, Zenon DEF Budget, Paid
      <4> QED
          BY <1>2, <4>1, TriesFacts, FewerTries, Zenon
    <3>4. cmd \notin Range(retry') /\ Range(retry') \subseteq Range(retry)
        BY <2>1, <3>1, Zenon
    <3> QED
        BY <1>1, <1>2, <2>1, <3>1, <3>2, <3>3, <3>4, SentBudget, Zenon
  <2>10. Budget'
      BY <2>1, <2>3, <2>9, Zenon DEF Budget
  <2> QED
      BY <2>4, <2>5, <2>6, <2>7, <2>8, <2>10, Zenon DEF CalmParts
<1> QED
    BY <1>2, <1>3, <1>4, Zenon DEF Direct, DirectFails

LEMMA AppendLast ==
    ASSUME NEW S, NEW s \in Seq(S), NEW x \in S
    PROVE  /\ Append(s, x) # <<>> /\ Append(s, x)[Len(Append(s, x))] = x
           /\ \A i \in DOMAIN Append(s, x) : (i \in DOMAIN s /\ Append(s, x)[i] = s[i]) \/ Append(s, x)[i] = x
    OBVIOUS

(* ASKING goes ahead of the command. *)
LEMMA AskWriteCalm ==
    ASSUME CalmStep, AskWrite
    PROVE  CalmParts'
<1>1. at = "askwrite" /\ target \in Nodes /\ rx = None
    BY CalmFacts, Zenon DEF AskWrite, Control
<1>2. target = Dest /\ target # home /\ link[target] = "up"
  <2>1. target = Dest /\ migrations = 1
      BY <1>1, CalmFacts, Zenon DEF Asks, Redirecting
  <2> QED
      BY <2>1, CalmLinks, Zenon
<1>3. ~Refuses(target) /\ link[target] # "none"
    BY <1>2, Zenon DEF Refuses
<1>4. /\ Sent(Asking, target) /\ at' = "asked" /\ UNCHANGED <<next, goal, cmd, target>>
      /\ UNCHANGED <<owner, importer, migrations, retry, queue, attempted, channel, answer, cache, rx,
                     reconnects>>
    BY <1>3, Zenon DEF AskWrite, Goto, nodeVars, cmdVars
<1>5. Asking \in Frames /\ Asking \notin Commands
    BY Different, Zenon DEF Frames
<1>6. /\ Range(inflight'[target]) = Range(inflight[target]) \cup {Asking}
      /\ requests'[target] = Append(requests[target], Asking) /\ requests[target] \in Seq(Frames)
      /\ \A m \in Nodes : m # target => inflight'[m] = inflight[m] /\ requests'[m] = requests[m]
      /\ UNCHANGED <<link, replies, asking>>
    BY <1>1, <1>2, <1>4, <1>5, SentCalm, Zenon
<1>7. /\ Links /\ Course /\ Budget /\ AskingFirst /\ ConnTypes /\ home' = home
      /\ pipelined' = pipelined /\ pipelined \subseteq Commands
    BY CalmFacts, Zenon
<1>8. inflight'[target] = Append(inflight[target], Asking) /\ inflight[target] \in Seq(Frames)
  <2>1. inflight \in [Nodes -> Seq(Frames)]
      BY <1>7, Zenon DEF ConnTypes
  <2> QED
      BY <1>1, <1>4, <2>1, Zenon DEF Sent
<1>9. Slot'
    BY <1>4, SlotKept, Zenon
<1>10. Links'
    BY <1>1, <1>4, <1>6, <1>7, LinksKept, Zenon DEF Links
<1>11. Course'
    BY <1>1, <1>4, <1>7, Zenon DEF Course
<1>12. Moves'
    BY <1>4, <1>6, MovesKept, Zenon
<1>13. AskingFirst'
  <2>1. Dest' = Dest
      BY <1>4, Zenon DEF Dest
  <2>2. /\ requests'[target] # <<>> /\ requests'[target][Len(requests'[target])] = Asking
        /\ \A i \in DOMAIN requests'[target] :
              (i \in DOMAIN requests[target] /\ requests'[target][i] = requests[target][i])
              \/ requests'[target][i] = Asking
    <3>1. PICK s : s = Append(requests[target], Asking)
        OBVIOUS
    <3>2. /\ s # <<>> /\ s[Len(s)] = Asking
          /\ \A i \in DOMAIN s : (i \in DOMAIN requests[target] /\ s[i] = requests[target][i]) \/ s[i] = Asking
        BY <1>5, <1>6, <3>1, AppendLast
    <3>3. requests'[target] = s
        BY <1>6, <3>1, Zenon
    <3> QED
        BY <3>2, <3>3
  <2>3. inflight'[target] # <<>> /\ inflight'[target][Len(inflight'[target])] = Asking
      BY <1>5, <1>8, AppendLast, Zenon
  <2>4. Awaited'
      BY <1>4, <2>2, <2>3, Zenon DEF Awaited
  <2>5. ASSUME NEW m \in Nodes, Flagged(m)
        PROVE  Flagged(m)'
    <3>1. CASE m # target
        BY <1>6, <2>5, <3>1, Zenon DEF Flagged
    <3>2. CASE m = target
        BY <1>5, <1>6, <2>2, <2>5, <3>2, Zenon DEF Flagged
    <3> QED
        BY <3>1, <3>2, Zenon
  <2>6. \A m \in Nodes : m # home /\ requests'[m] # <<>> => m = Dest
      BY <1>2, <1>6, <1>7, Zenon DEF AskingFirst
  <2> QED
      BY <1>1, <1>4, <1>6, <1>7, <2>1, <2>4, <2>5, <2>6, Zenon DEF AskingFirst
<1>14. ASSUME NEW c \in pipelined
       PROVE  Paid(c)'
  <2>1. Paid(c) /\ c # Asking
      BY <1>5, <1>7, Zenon DEF Budget
  <2>2. Replaced => Replaced'
      BY <1>1, <1>4, <1>6, ReplacedKept, Zenon
  <2>3. goal' # "none" /\ cmd' = c => attempted[c] \in Tries(1)
      BY <1>4, <2>1, Zenon DEF Paid
  <2>4. /\ attempted'[c] = attempted[c] /\ answer'[c] \in {answer[c], "ok"} /\ at' # "write"
        /\ \A m \in Range(queue') : m.cmd = c => m \in Range(queue)
        /\ \A n \in Nodes : c \in Range(inflight'[n]) => c \in Range(inflight[n])
        /\ c \in Range(retry') => c \in Range(retry)
      BY <1>4, <1>6, <2>1, Zenon
  <2> QED
      BY <2>1, <2>2, <2>3, <2>4, PaidKept, Zenon
<1>15. Budget'
    BY <1>1, <1>4, <1>7, <1>14, Zenon DEF Budget
<1> QED
    BY <1>9, <1>10, <1>11, <1>12, <1>13, <1>15, Zenon DEF CalmParts

(* Only the former owner sends a redirection. *)
LEMMA AnswerCalm ==
    ASSUME CalmStep, NEW n \in Nodes, requests[n] # <<>>, Head(requests[n]) = requests[n][1],
           1 \in DOMAIN requests[n], Head(requests[n]) \in Frames,
           NEW r \in IF Head(requests[n]) = Asking THEN {Reply("ok", n)} ELSE NodeReplies(n)
    PROVE  (n # home => r.kind = "ok") /\ (r.kind = "moved" => owner # home /\ r.server = owner)
<1>1. Slot /\ AskingFirst
    BY CalmFacts, Zenon
<1>2. /\ Reply("ok", n).kind = "ok" /\ Reply("ask", importer).kind = "ask"
      /\ Reply("moved", owner).kind = "moved" /\ Reply("moved", owner).server = owner
    BY DEF Reply
<1>3. CASE Head(requests[n]) = Asking
  <2>1. r = Reply("ok", n)
      BY <1>3
  <2> QED
      BY <1>2, <2>1
<1>4. CASE Head(requests[n]) # Asking
  <2>1. r \in NodeReplies(n)
      BY <1>4
  <2>2. \/ r = Reply("ok", n)
        \/ n = owner /\ importer # None /\ r = Reply("ask", importer)
        \/ n # owner /\ ~(n = importer /\ asking[n]) /\ r = Reply("moved", owner)
      BY <2>1 DEF NodeReplies
  <2>3. CASE n = home
    <3>1. r.kind = "moved" => r = Reply("moved", owner) /\ owner # home
        BY <1>2, <2>2, <2>3
    <3> QED
        BY <1>2, <2>3, <3>1
  <2>4. CASE n # home
    <3>1. n = Dest
        BY <1>1, <2>4, Zenon DEF AskingFirst
    <3>2. CASE owner # home
      <4>1. importer = None /\ n = owner
          BY <3>1, <3>2, CalmLinks, Zenon
      <4> QED
          BY <1>2, <2>2, <4>1
    <3>3. CASE owner = home
      <4>1. n = importer /\ n # owner
          BY <2>4, <3>1, <3>3, Zenon DEF Dest
      <4>2. requests[n][1] \in Commands
          BY <1>4, Zenon DEF Frames
      <4>3. asking[n]
          BY <1>1, <2>4, <3>3, <4>2, Zenon DEF AskingFirst, Flagged
      <4> QED
          BY <1>2, <2>2, <4>1, <4>3
    <3> QED
        BY <3>2, <3>3, Zenon
  <2> QED
      BY <2>3, <2>4, Zenon
<1> QED
    BY <1>3, <1>4, Zenon

LEMMA TailLast ==
    ASSUME NEW S, NEW s \in Seq(S), s # <<>>
    PROVE  /\ Head(s) = s[1] /\ 1 \in DOMAIN s
           /\ \A i \in DOMAIN Tail(s) : i + 1 \in DOMAIN s /\ Tail(s)[i] = s[i + 1] /\ i + 1 # 1
           /\ Tail(s) = <<>> => Head(s) = s[Len(s)]
           /\ Tail(s) # <<>> => Tail(s)[Len(Tail(s))] = s[Len(s)]
<1>1. /\ Head(s) = s[1] /\ 1 \in DOMAIN s /\ Len(s) \in Nat /\ Len(s) > 0
      /\ Len(Tail(s)) = Len(s) - 1 /\ DOMAIN Tail(s) = 1..(Len(s) - 1) /\ Tail(s) \in Seq(S)
      /\ \A i \in 1..(Len(s) - 1) : Tail(s)[i] = s[i + 1]
    OBVIOUS
<1>2. \A i \in DOMAIN Tail(s) : i + 1 \in DOMAIN s /\ Tail(s)[i] = s[i + 1] /\ i + 1 # 1
    BY <1>1
<1>3. Tail(s) = <<>> => Head(s) = s[Len(s)]
  <2>1. Tail(s) = <<>> => Len(Tail(s)) = 0
      BY EmptyFacts, Zenon
  <2>2. Tail(s) = <<>> => Len(s) = 1
      BY <1>1, <2>1
  <2> QED
      BY <1>1, <2>2
<1>4. Tail(s) # <<>> => Tail(s)[Len(Tail(s))] = s[Len(s)]
  <2>1. Tail(s) # <<>> => Len(Tail(s)) # 0
      BY <1>1
  <2>2. Tail(s) # <<>> => Len(s) - 1 \in 1..(Len(s) - 1) /\ (Len(s) - 1) + 1 = Len(s)
      BY <1>1, <2>1
  <2> QED
      BY <1>1, <2>2
<1> QED
    BY <1>1, <1>2, <1>3, <1>4, Zenon

LEMMA ServeCalm ==
    ASSUME CalmStep, NEW n \in Nodes, Serve(n)
    PROVE  CalmParts'
<1>0. PICK c : c = Head(requests[n])
    OBVIOUS
<1>1. /\ requests[n] # <<>> /\ requests' = [requests EXCEPT ![n] = Tail(@)]
      /\ asking' = [asking EXCEPT ![n] = c = Asking]
      /\ UNCHANGED <<owner, importer, migrations, link, inflight, retry, cache, queue, at, next, goal,
                     cmd, target, rx, reconnects, attempted, channel, answer>>
    BY <1>0, Zenon DEF Serve, connVars, pcVars, cmdVars
<1>2. PICK r \in IF Head(requests[n]) = Asking THEN {Reply("ok", n)} ELSE NodeReplies(n) :
            replies' = [replies EXCEPT ![n] = Append(@, r)]
    BY Zenon DEF Serve
<1>3. /\ Links /\ Course /\ Moves /\ AskingFirst /\ NodeTypes /\ Control /\ home' = home
    BY CalmFacts, Zenon
<1>4. /\ requests \in [Nodes -> Seq(Frames)] /\ requests[n] \in Seq(Frames)
      /\ replies \in [Nodes -> Seq(Replies)] /\ replies[n] \in Seq(Replies)
    BY <1>3, Zenon DEF NodeTypes
<1>5. /\ c = requests[n][1] /\ 1 \in DOMAIN requests[n] /\ c \in Frames
      /\ \A i \in DOMAIN Tail(requests[n]) :
            i + 1 \in DOMAIN requests[n] /\ Tail(requests[n])[i] = requests[n][i + 1] /\ i + 1 # 1
      /\ Tail(requests[n]) = <<>> => c = requests[n][Len(requests[n])]
      /\ Tail(requests[n]) # <<>> => Tail(requests[n])[Len(Tail(requests[n]))] = requests[n][Len(requests[n])]
  <2>1. Head(requests[n]) \in Frames
      BY <1>1, <1>4, TailFacts, Zenon
  <2> QED
      BY <1>0, <1>1, <1>4, <2>1, TailLast, Zenon
<1>6. (n # home => r.kind = "ok") /\ (r.kind = "moved" => owner # home /\ r.server = owner)
    BY <1>0, <1>1, <1>5, AnswerCalm, Zenon
<1>7. Slot'
    BY <1>1, SlotKept, Zenon
<1>8. Links'
    BY <1>1, <1>3, LinksKept, Zenon DEF Links
<1>9. Course'
    BY <1>1, <1>3, Zenon DEF Course
<1>10. Moves'
  <2>1. replies'[n] = Append(replies[n], r) /\ \A m \in Nodes : m # n => replies'[m] = replies[m]
      BY <1>2, <1>4, Zenon
  <2>2. \A x \in Range(replies'[n]) : x \in Range(replies[n]) \/ x = r
    <3>1. \A x \in Range(Append(replies[n], r)) : x \in Range(replies[n]) \/ x = r
        BY <1>4 DEF Range
    <3> QED
        BY <2>1, <3>1
  <2>3. \A m \in Nodes : \A x \in Range(replies'[m]) :
           (m # home => x.kind = "ok") /\ (x.kind = "moved" => owner # home /\ x.server = owner)
    <3> SUFFICES ASSUME NEW m \in Nodes, NEW x \in Range(replies'[m])
                 PROVE  (m # home => x.kind = "ok") /\ (x.kind = "moved" => owner # home /\ x.server = owner)
        BY Zenon
    <3>1. CASE m = n /\ x = r
        BY <1>6, <3>1, Zenon
    <3>2. CASE x \in Range(replies[m])
        BY <1>3, <3>2, Zenon DEF Moves
    <3> QED
        BY <2>1, <2>2, <3>1, <3>2, Zenon
  <2> QED
      BY <1>1, <1>3, <2>3, Zenon DEF Moves
<1>11. AskingFirst'
  <2>0. asking \in [Nodes -> BOOLEAN] /\ asking' \in [Nodes -> BOOLEAN]
    <3>1. asking \in [Nodes -> BOOLEAN]
        BY <1>3, Zenon DEF AskingFirst
    <3> QED
        BY <1>1, <3>1
  <2>1. /\ requests'[n] = Tail(requests[n]) /\ \A m \in Nodes : m # n => requests'[m] = requests[m]
        /\ \A m \in Nodes : m # n => asking'[m] = asking[m]
      BY <1>1, <1>4, <2>0, Zenon
  <2>2. ASSUME at = "asked", Awaited
        PROVE  Awaited'
    <3>1. CASE n # target
      <4>1. target \in Nodes
          BY <1>3, <2>2, Zenon DEF Control
      <4> QED
          BY <1>1, <2>1, <2>2, <3>1, <4>1, Zenon DEF Awaited
    <3>2. CASE n = target
      <4>1. requests[n][Len(requests[n])] = Asking
          BY <1>1, <2>2, <3>2, Zenon DEF Awaited
      <4>2. c = Asking => asking'[n]
          BY <1>1, <2>0, Zenon
      <4>3. requests'[n] = <<>> => asking'[n]
          BY <1>5, <2>1, <4>1, <4>2, Zenon
      <4>4. requests'[n] # <<>> => requests'[n][Len(requests'[n])] = Asking
          BY <1>5, <2>1, <4>1, Zenon
      <4> QED
          BY <1>1, <2>2, <3>2, <4>3, <4>4, Zenon DEF Awaited
    <3> QED
        BY <3>1, <3>2, Zenon
  <2>3. Dest' = Dest
      BY <1>1, Zenon DEF Dest
  <2>4. \A m \in Nodes : m # home /\ requests'[m] # <<>> => m = Dest
      BY <1>1, <1>3, <2>1, Zenon DEF AskingFirst
  <2>5. ASSUME NEW m \in Nodes, Flagged(m)
        PROVE  Flagged(m)'
    <3>1. CASE m # n
        BY <2>1, <2>5, <3>1, Zenon DEF Flagged
    <3>2. CASE m = n
      <4>1. \A i \in DOMAIN Tail(requests[n]) : Tail(requests[n])[i] \notin Commands
          BY <1>5, <2>5, <3>2 DEF Flagged
      <4> QED
          BY <2>1, <3>2, <4>1, Zenon DEF Flagged
    <3> QED
        BY <3>1, <3>2, Zenon
  <2>6. (at = "asked" /\ rx # None) \/ (at = "direct" /\ goal = "ask") =>
           requests'[target] = <<>> /\ asking'[target]
    <3>1. (at = "asked" /\ rx # None) \/ (at = "direct" /\ goal = "ask") =>
             requests[target] = <<>> /\ asking[target]
        BY <1>3, Zenon DEF AskingFirst
    <3>2. (at = "asked" /\ rx # None) \/ (at = "direct" /\ goal = "ask") => target \in Nodes
        BY <1>3, Zenon DEF Control
    <3> QED
        BY <1>1, <2>1, <3>1, <3>2, Zenon
  <2> QED
      BY <1>1, <1>3, <2>0, <2>2, <2>3, <2>4, <2>5, <2>6, Zenon DEF AskingFirst
<1>12. Budget'
    BY <1>1, BudgetKept, Zenon
<1> QED
    BY <1>7, <1>8, <1>9, <1>10, <1>11, <1>12, Zenon DEF CalmParts

(* What a reader task tells the router, and what it puts into the queue. *)
LEMMA ReadCalm ==
    ASSUME CalmStep, NEW n \in Nodes, ReadReply(n), NEW c, c = Head(inflight[n])
    PROVE  /\ UNCHANGED <<owner, importer, migrations, asking, requests, link, retry, cache, at, next,
                          goal, cmd, target, reconnects, attempted>>
           /\ \A m \in Nodes : Range(replies'[m]) \subseteq Range(replies[m])
           /\ channel' \subseteq channel
           /\ \A d \in Commands : answer'[d] \in {answer[d], "ok"}
           /\ c = Asking => rx' = Reply("asked", n)
           /\ rx' = rx \/ (rx' # None /\ rx'.kind # "closed" /\ (rx'.kind = "moved" => owner # home)
                           /\ (at = "asked" => c = Asking))
           /\ queue' = queue \/ (c \in Commands /\ n = home /\ answer' = answer
                 /\ \E m \in Messages : m.cmd = c /\ m.type \in {"ask", "moved"}
                       /\ (m.type = "moved" => owner # home /\ m.server = owner)
                       /\ queue' = Append(queue, m))
<1>0. PICK r : r = Head(replies[n])
    OBVIOUS
<1>1. /\ UNCHANGED <<owner, importer, migrations, asking, requests, link, retry, cache, at, next,
                     goal, cmd, target, reconnects, attempted>>
      /\ replies[n] # <<>> /\ replies' = [replies EXCEPT ![n] = Tail(@)]
      /\ IF c = Asking THEN rx' = Reply("asked", n) /\ UNCHANGED <<queue, channel, answer>>
         ELSE IF r.kind = "ok" THEN Responded(c, r) ELSE Redirected(c, r)
    BY <1>0, Zenon DEF ReadReply, nodeVars, pcVars
<1>2. Moves /\ NodeTypes /\ CommandTypes
    BY CalmFacts, Zenon
<1>3. /\ r \in Range(replies[n]) /\ r \in Replies
      /\ \A m \in Nodes : Range(replies'[m]) \subseteq Range(replies[m])
  <2>1. replies \in [Nodes -> Seq(Replies)] /\ replies[n] \in Seq(Replies)
      BY <1>2, Zenon DEF NodeTypes
  <2>2. Head(replies[n]) \in Range(replies[n]) /\ Head(replies[n]) \in Replies
      BY <1>1, <2>1, TailFacts, Zenon
  <2>3. Range(Tail(replies[n])) \subseteq Range(replies[n])
      BY <1>1, <2>1, TailFacts
  <2>4. replies'[n] = Tail(replies[n]) /\ \A m \in Nodes : m # n => replies'[m] = replies[m]
      BY <1>1, <2>1, Zenon
  <2> QED
      BY <1>0, <2>2, <2>3, <2>4, Zenon
<1>4. (n # home => r.kind = "ok") /\ (r.kind = "moved" => owner # home /\ r.server = owner)
    BY <1>2, <1>3, Zenon DEF Moves
<1>5. c \in Frames
    BY ReadFacts, Zenon DEF CalmStep
<1>6. r.kind \in {"ok", "ask", "moved"} /\ r.server \in Nodes /\ r # None
  <2>1. r.kind \in {"ok", "ask", "moved"} /\ r.server \in Nodes
      BY <1>3 DEF Replies
  <2>2. None \notin [kind : {"ok", "ask", "moved"}, server : Nodes]
      BY ClusterRouterAssumption DEF Kinds
  <2> QED
      BY <1>3, <2>1, <2>2, Zenon DEF Replies
<1>7. /\ Reply("asked", n) # None /\ Reply("asked", n).kind = "asked"
      /\ Reply("continue", None) # None /\ Reply("continue", None).kind = "continue"
    BY ClusterRouterAssumption DEF Kinds, Reply
<1>8. answer \in [Commands -> {"unsent", "pending", "ok", "error", "canceled"}]
    BY <1>2, Zenon DEF CommandTypes
<1>9. CASE c = Asking
  <2>1. rx' = Reply("asked", n) /\ UNCHANGED <<queue, channel, answer>>
      BY <1>1, <1>9, Zenon
  <2>2. rx' # None /\ rx'.kind = "asked"
      BY <1>7, <2>1
  <2> QED
      BY <1>1, <1>3, <1>9, <2>1, <2>2, Zenon
<1>10. CASE c # Asking /\ r.kind = "ok"
  <2>1. /\ answer' = [answer EXCEPT ![c] = "ok"] /\ channel' \subseteq channel /\ queue' = queue
        /\ rx' = IF c \in channel /\ WaitsFor(c) THEN Reply("continue", None) ELSE rx
      BY <1>1, <1>10, Zenon DEF Responded
  <2>2. rx' = rx \/ (rx' # None /\ rx'.kind = "continue" /\ at = "wait")
      BY <1>7, <2>1 DEF WaitsFor
  <2>3. \A d \in Commands : answer'[d] \in {answer[d], "ok"}
      BY <1>8, <2>1
  <2> QED
      BY <1>1, <1>3, <1>10, <2>1, <2>2, <2>3, Zenon
<1>11. CASE c # Asking /\ r.kind # "ok"
  <2>1. /\ answer' = answer /\ channel' \subseteq channel
        /\ \/ rx' = r /\ queue' = queue /\ at = "wait"
           \/ rx' = rx /\ queue' = Append(queue, Message(r.kind, c, r.server))
      BY <1>1, <1>11, Zenon DEF Redirected, WaitsFor
  <2>2. c \in Commands
      BY <1>5, <1>11, Zenon DEF Frames
  <2>3. /\ Message(r.kind, c, r.server) \in Messages /\ Message(r.kind, c, r.server).cmd = c
        /\ Message(r.kind, c, r.server).type = r.kind /\ Message(r.kind, c, r.server).server = r.server
    <3>1. r.kind \in {"ask", "moved"} /\ r.server \in Nodes
        BY <1>6, <1>11
    <3> QED
        BY <2>2, <3>1 DEF Message, Messages
  <2>4. CASE rx' = r /\ queue' = queue /\ at = "wait"
    <3>1. rx' # None /\ rx'.kind # "closed" /\ (rx'.kind = "moved" => owner # home) /\ at # "asked"
        BY <1>4, <1>6, <2>4
    <3> QED
        BY <1>1, <1>3, <1>11, <2>1, <2>4, <3>1, Zenon
  <2>5. CASE rx' = rx /\ queue' = Append(queue, Message(r.kind, c, r.server))
    <3>1. PICK m : m = Message(r.kind, c, r.server)
        OBVIOUS
    <3>2. /\ m \in Messages /\ m.cmd = c /\ m.type \in {"ask", "moved"}
          /\ (m.type = "moved" => owner # home /\ m.server = owner) /\ queue' = Append(queue, m)
        BY <1>4, <1>6, <1>11, <2>3, <2>5, <3>1
    <3>3. n = home
        BY <1>4, <1>11, Zenon
    <3> QED
        BY <1>1, <1>3, <1>11, <2>1, <2>2, <2>5, <3>2, <3>3, Zenon
  <2> QED
      BY <2>1, <2>4, <2>5, Zenon
<1> QED
    BY <1>9, <1>10, <1>11, Zenon

LEMMA OnlyOne ==
    ASSUME NEW S, NEW s \in Seq(S), s # <<>>, IsInjective(s), Head(s) = s[Len(s)]
    PROVE  Len(s) = 1
<1>1. Head(s) = s[1] /\ 1 \in DOMAIN s /\ Len(s) \in DOMAIN s
    OBVIOUS
<1> QED
    BY <1>1, Zenon DEF IsInjective

LEMMA NothingLeft ==
    ASSUME NEW S, NEW T, NEW s \in Seq(S), NEW t \in Seq(T), t # <<>>, 1 = Len(s) + Len(t)
    PROVE  s = <<>>
    OBVIOUS

(* The reply to ASKING is the last one due from its node. *)
LEMMA ReadAsking ==
    ASSUME CalmStep, NEW n \in Nodes, ReadReply(n)
    PROVE  AskingFirst'
<1>0. PICK c : c = Head(inflight[n])
    OBVIOUS
<1>1. /\ UNCHANGED <<owner, importer, migrations, asking, requests, link, retry, cache, at, next,
                     goal, cmd, target, reconnects, attempted>>
      /\ c = Asking => rx' = Reply("asked", n)
      /\ rx' = rx \/ (rx' # None /\ rx'.kind # "closed" /\ (rx'.kind = "moved" => owner # home)
                      /\ (at = "asked" => c = Asking))
    BY <1>0, ReadCalm
<1>2. AskingFirst /\ Wires /\ Distinct /\ NodeTypes /\ ConnTypes /\ home' = home /\ Control
    BY CalmFacts, Zenon
<1>3. link[n] = "up" /\ replies[n] # <<>> /\ inflight' = [inflight EXCEPT ![n] = Tail(@)]
    BY Zenon DEF ReadReply
<1>4. /\ inflight \in [Nodes -> Seq(Frames)] /\ inflight[n] \in Seq(Frames) /\ IsInjective(inflight[n])
      /\ replies[n] \in Seq(Replies) /\ requests[n] \in Seq(Frames)
    BY <1>2, Zenon DEF ConnTypes, NodeTypes, Distinct
<1>5. inflight[n] # <<>>
    BY ReadFacts, Zenon DEF CalmStep
<1>6. inflight'[n] = Tail(inflight[n]) /\ \A m \in Nodes : m # n => inflight'[m] = inflight[m]
    BY <1>3, <1>4, Zenon
<1>7. /\ Tail(inflight[n]) = <<>> => c = inflight[n][Len(inflight[n])]
      /\ Tail(inflight[n]) # <<>> =>
            Tail(inflight[n])[Len(Tail(inflight[n]))] = inflight[n][Len(inflight[n])]
    BY <1>0, <1>4, <1>5, TailLast, Zenon
<1>8. c \in Range(inflight[n])
    BY <1>0, <1>4, <1>5, TailFacts, Zenon
<1>9. ASSUME at = "asked", rx' = None
      PROVE  Awaited'
  <2>1. rx = None /\ c # Asking
    <3>1. Reply("asked", n) # None
        BY ClusterRouterAssumption DEF Kinds, Reply
    <3> QED
        BY <1>1, <1>9, <3>1, Zenon
  <2>2. Awaited /\ target \in Nodes
      BY <1>2, <1>9, <2>1, Zenon DEF AskingFirst, Control
  <2>3. CASE n = target
    <3>1. Tail(inflight[n]) # <<>> /\ inflight[n][Len(inflight[n])] = Asking
        BY <1>7, <2>1, <2>2, <2>3, Zenon DEF Awaited
    <3>2. inflight'[n] # <<>> /\ inflight'[n][Len(inflight'[n])] = Asking
        BY <1>6, <1>7, <3>1, Zenon
    <3> QED
        BY <1>1, <2>2, <2>3, <3>2, Zenon DEF Awaited
  <2>4. CASE n # target
      BY <1>1, <1>6, <2>2, <2>4, Zenon DEF Awaited
  <2> QED
      BY <2>3, <2>4, Zenon
<1>10. ASSUME at = "asked", rx' # None
       PROVE  requests[target] = <<>> /\ asking[target]
  <2>1. CASE rx # None
      BY <1>2, <1>10, <2>1, Zenon DEF AskingFirst
  <2>2. CASE rx = None
    <3>1. c = Asking /\ Awaited
        BY <1>1, <1>2, <1>10, <2>2, Zenon DEF AskingFirst
    <3>2. n = target
        BY <1>2, <1>8, <3>1, Zenon DEF Wires
    <3>3. Head(inflight[n]) = inflight[n][Len(inflight[n])]
        BY <1>0, <3>1, <3>2, Zenon DEF Awaited
    <3>4. Len(inflight[n]) = 1
        BY <1>4, <1>5, <3>3, OnlyOne, Zenon
    <3>5. Len(inflight[n]) = Len(requests[n]) + Len(replies[n])
        BY <1>2, <1>3, Zenon DEF Wires
    <3>6. requests[n] = <<>>
      <4>1. 1 = Len(requests[n]) + Len(replies[n])
          BY <3>4, <3>5, Zenon
      <4> QED
          BY <1>3, <1>4, <4>1, NothingLeft, Zenon
    <3> QED
        BY <3>1, <3>2, <3>6, Zenon DEF Awaited
  <2> QED
      BY <2>1, <2>2, Zenon
<1>11. Dest' = Dest /\ \A m \in Nodes : Flagged(m) => Flagged(m)'
    BY <1>1, Zenon DEF Dest, Flagged
<1> QED
    BY <1>1, <1>2, <1>9, <1>10, <1>11, Zenon DEF AskingFirst

LEMMA ReadReplyCalm ==
    ASSUME CalmStep, NEW n \in Nodes, ReadReply(n)
    PROVE  CalmParts'
<1>0. PICK c : c = Head(inflight[n])
    OBVIOUS
<1>1. /\ UNCHANGED <<owner, importer, migrations, asking, requests, link, retry, cache, at, next,
                     goal, cmd, target, reconnects, attempted>>
      /\ \A m \in Nodes : Range(replies'[m]) \subseteq Range(replies[m])
      /\ channel' \subseteq channel
      /\ \A d \in Commands : answer'[d] \in {answer[d], "ok"}
      /\ rx' = rx \/ (rx' # None /\ rx'.kind # "closed" /\ (rx'.kind = "moved" => owner # home))
      /\ queue' = queue \/ (c \in Commands /\ n = home /\ answer' = answer
            /\ \E m \in Messages : m.cmd = c /\ m.type \in {"ask", "moved"}
                  /\ (m.type = "moved" => owner # home /\ m.server = owner)
                  /\ queue' = Append(queue, m))
    BY <1>0, ReadCalm, Zenon
<1>2. /\ Links /\ Course /\ Moves /\ Budget /\ RouterTypes /\ home' = home /\ home \in Nodes
      /\ pipelined' = pipelined /\ pipelined \subseteq Commands
    BY CalmFacts, Zenon DEF Slot
<1>3. /\ Reported' = Reported /\ ReportedOnce'
      /\ \A x \in Range(queue') : x \in Range(queue)
            \/ (n = home /\ x.cmd = c /\ x.type # "command" /\ answer' = answer
                /\ (x.type = "moved" => owner # home /\ x.server = owner))
  <2>1. ReportedOnce /\ queue \in Seq(Messages)
      BY <1>2, Zenon DEF Links, RouterTypes
  <2>2. CASE queue' = queue
      BY <2>1, <2>2, Zenon DEF Reported, ReportedOnce
  <2>3. CASE queue' # queue
    <3>1. n = home /\ answer' = answer
        BY <1>1, <2>3, Zenon
    <3>2. PICK m \in Messages : m.cmd = c /\ m.type \in {"ask", "moved"}
                  /\ (m.type = "moved" => owner # home /\ m.server = owner)
                  /\ queue' = Append(queue, m)
        BY <1>1, <2>3, Zenon
    <3>3. m.type # "reconnect" /\ m.type # "command"
        BY <3>2
    <3>4. /\ Reported' = Reported /\ Range(queue') = Range(queue) \cup {m} /\ ReportedOnce'
        BY <2>1, <3>2, <3>3, QueueGrown, Zenon
    <3> QED
        BY <3>1, <3>2, <3>3, <3>4, Zenon
  <2> QED
      BY <2>2, <2>3, Zenon
<1>4. Slot'
    BY <1>1, SlotKept, Zenon
<1>5. Links'
    BY <1>1, <1>2, <1>3, LinksStay, Zenon DEF Links
<1>6. Course'
    BY <1>1, <1>2, Zenon DEF Course
<1>7. Moves'
    BY <1>1, <1>2, <1>3, Zenon DEF Moves
<1>8. AskingFirst'
    BY ReadAsking, Zenon
<1>9. Replaced => Replaced'
    BY <1>1, <1>2, <1>3, Zenon DEF Replaced
<1>10. /\ \A m \in Nodes : Range(inflight'[m]) \subseteq Range(inflight[m])
       /\ c \in Range(inflight[n])
    BY <1>0, ReadFacts, Zenon DEF CalmStep
<1>11. ASSUME NEW d \in pipelined
       PROVE  Paid(d)'
  <2>1. Paid(d)
      BY <1>2, Zenon DEF Budget
  <2>2. /\ at' = "write" /\ cmd' = d => attempted[d] \in Tries(0)
        /\ goal' # "none" /\ cmd' = d => attempted[d] \in Tries(1)
      BY <1>1, <2>1, Zenon DEF Paid
  <2>3. \A x \in Range(queue') :
           x.cmd = d => attempted[d] \in Tries(1) /\ (x.type = "command" => attempted[d] \in Tries(0))
    <3> SUFFICES ASSUME NEW x \in Range(queue'), x.cmd = d
                 PROVE  attempted[d] \in Tries(1) /\ (x.type = "command" => attempted[d] \in Tries(0))
        BY Zenon
    <3>1. CASE x \in Range(queue)
        BY <2>1, <3>1, Zenon DEF Paid
    <3>2. CASE n = home /\ x.cmd = c /\ x.type # "command"
        BY <1>10, <2>1, <3>2, Zenon DEF Paid
    <3> QED
        BY <1>3, <3>1, <3>2, Zenon
  <2>4. /\ attempted[d] \in InFlightTries => attempted[d] \in InFlightTries'
        /\ attempted[d] \in RetryTries => attempted[d] \in RetryTries'
      BY <1>9, TriesFacts DEF InFlightTries, RetryTries
  <2>5. answer'[d] \in {answer[d], "ok"} /\ attempted'[d] = attempted[d]
      BY <1>1, <1>2, Zenon
  <2> QED
      BY <1>1, <1>2, <1>10, <2>1, <2>2, <2>3, <2>4, <2>5, Zenon DEF Paid
<1>12. Budget'
    BY <1>1, <1>2, <1>11, Zenon DEF Budget
<1> QED
    BY <1>4, <1>5, <1>6, <1>7, <1>8, <1>12, Zenon DEF CalmParts

(* The Reconnect messages of the reader tasks that end. *)
LEMMA ReportsAdded ==
    ASSUME queue \in Seq(Messages), ReportedOnce, NEW order \in Seq(Nodes), IsInjective(order),
           NEW reports \in Reports(order), queue' = queue \o reports
    PROVE  /\ ReportedOnce' /\ Reported \subseteq Reported' /\ Reported' \subseteq Reported \cup Range(order)
           /\ \A x \in Range(queue') : x \in Range(queue) \/ (x.type = "reconnect" /\ x.cmd = None)
           /\ \A n \in Range(order) : link[n] \in Working => n \in Reported'
           /\ Reported' # Reported => \E n \in Range(order) : link[n] \in Working
<1>1. reports \in Seq(ReconnectMessages) /\ IsInjective(reports)
    BY ReportsFacts, ReportsOnce, Zenon
<1>2. /\ \A m \in Range(reports) :
            /\ m.type = "reconnect" /\ m.server \in Range(order)
            /\ link[m.server] \in Working /\ m.server \notin Reported
      /\ \A n \in Range(order) : link[n] \in Working /\ n \notin Reported =>
            Message("reconnect", None, n) \in Range(reports)
    BY ReportsFacts, ReportsOnce, Zenon
<1>3. ReconnectMessages \subseteq Messages /\ \A m \in ReconnectMessages : m.cmd = None
    BY DEF Messages, ReconnectMessages
<1>4. reports \in Seq(Messages) /\ \A m \in Range(reports) : m.cmd = None
    BY <1>1, <1>3 DEF Range
<1>5. Range(queue') = Range(queue) \cup Range(reports)
    BY <1>4, ConcatFacts
<1>6. /\ DOMAIN queue' = 1..(Len(queue) + Len(reports)) /\ Len(queue) \in Nat /\ Len(reports) \in Nat
      /\ DOMAIN queue = 1..Len(queue) /\ DOMAIN reports = 1..Len(reports)
      /\ \A i \in DOMAIN queue' : queue'[i] = IF i <= Len(queue) THEN queue[i] ELSE reports[i - Len(queue)]
    BY <1>4
<1>7. ReportedOnce'
  <2> SUFFICES ASSUME NEW i \in DOMAIN queue', NEW j \in DOMAIN queue', queue'[i].type = "reconnect",
                      queue'[i] = queue'[j]
               PROVE  i = j
      BY Zenon DEF ReportedOnce
  <2>1. /\ \A k \in DOMAIN queue : queue[k].type = "reconnect" => queue[k].server \in Reported
        /\ \A k \in DOMAIN reports : reports[k].server \notin Reported
      BY <1>2, Zenon DEF Reported, Range
  <2>2. CASE i <= Len(queue) /\ j <= Len(queue)
      BY <1>6, <2>2 DEF ReportedOnce
  <2>3. CASE i > Len(queue) /\ j > Len(queue)
    <3>1. i - Len(queue) \in DOMAIN reports /\ j - Len(queue) \in DOMAIN reports
          /\ reports[i - Len(queue)] = reports[j - Len(queue)]
        BY <1>6, <2>3
    <3>2. i - Len(queue) = j - Len(queue)
        BY <1>1, <3>1, Zenon DEF IsInjective
    <3> QED
        BY <1>6, <3>2
  <2>4. CASE i <= Len(queue) /\ j > Len(queue)
    <3>1. i \in DOMAIN queue /\ j - Len(queue) \in DOMAIN reports /\ queue[i] = reports[j - Len(queue)]
          /\ queue[i].type = "reconnect"
        BY <1>6, <2>4
    <3> QED
        BY <2>1, <3>1
  <2>5. CASE i > Len(queue) /\ j <= Len(queue)
    <3>1. j \in DOMAIN queue /\ i - Len(queue) \in DOMAIN reports /\ queue[j] = reports[i - Len(queue)]
          /\ queue[j].type = "reconnect"
        BY <1>6, <2>5
    <3> QED
        BY <2>1, <3>1
  <2> QED
      BY <1>6, <2>2, <2>3, <2>4, <2>5
<1>8. Reported \subseteq Reported' /\ Reported' \subseteq Reported \cup Range(order)
    BY <1>2, <1>5, Zenon DEF Reported
<1>9. ASSUME NEW n \in Range(order), link[n] \in Working, n \notin Reported
      PROVE  n \in Reported'
  <2>1. PICK m : m = Message("reconnect", None, n)
      OBVIOUS
  <2>2. m.type = "reconnect" /\ m.server = n
      BY <2>1 DEF Message
  <2>3. m \in Range(queue')
      BY <1>2, <1>5, <1>9, <2>1, Zenon
  <2> QED
      BY <2>2, <2>3 DEF Reported
<1>10. ASSUME \A n \in Range(order) : link[n] \notin Working
       PROVE  Reported' \subseteq Reported
    BY <1>2, <1>5, <1>10, Zenon DEF Reported
<1> QED
    BY <1>2, <1>4, <1>5, <1>7, <1>8, <1>9, <1>10

LEMMA RebuildEffects ==
    ASSUME CalmStep, at \in {"sync", "reconnect"}, NEW closed, closed \subseteq Nodes, NEW opened,
           Rebuild(closed, opened)
    PROVE  /\ cache' = owner /\ channel' \subseteq channel
           /\ \A d \in pipelined : answer'[d] = answer[d]
           /\ \A m \in Nodes : link'[m] = IF m \in opened THEN "up" ELSE IF m \in closed THEN "none" ELSE link[m]
           /\ \A m \in Nodes : /\ inflight'[m] = IF m \in closed THEN <<>> ELSE inflight[m]
                               /\ requests'[m] = IF m \in closed THEN <<>> ELSE requests[m]
                               /\ replies'[m] = IF m \in closed THEN <<>> ELSE replies[m]
           /\ asking' \in [Nodes -> BOOLEAN]
           /\ ReportedOnce' /\ Reported' \subseteq Reported \cup closed
           /\ Reported' # Reported => \E n \in closed : link[n] \in Working
           /\ \A x \in Range(queue') : x \in Range(queue) \/ (x.type = "reconnect" /\ x.cmd = None)
           /\ \A d \in Range(retry') : d \in Range(retry) \/ \E m \in closed : d \in Range(inflight[m])
<1>1. PICK order \in Orders(closed) :
         /\ Closing(order, opened, {})
         /\ \E left \in Drained(order) : retry' = retry \o left
    BY Zenon DEF Rebuild
<1>2. PICK left \in Drained(order) : retry' = retry \o left
    BY <1>1, Zenon
<1>3. order \in Seq(Nodes) /\ IsInjective(order) /\ Range(order) = closed
  <2>1. IsFiniteSet(closed)
      BY Different, FS_Subset, Zenon
  <2>2. IsInjective(order)
      BY <2>1, OrderFacts, Zenon
  <2> QED
      BY <2>2, OrderOfNodes, Zenon
<1>4. /\ link' = [n \in Nodes |-> IF n \in opened THEN "up" ELSE IF n \in closed THEN "none" ELSE link[n]]
      /\ inflight' = [n \in Nodes |-> IF n \in closed THEN <<>> ELSE inflight[n]]
      /\ requests' = [n \in Nodes |-> IF n \in closed THEN <<>> ELSE requests[n]]
      /\ replies' = [n \in Nodes |-> IF n \in closed THEN <<>> ELSE replies[n]]
      /\ asking' = [n \in Nodes |-> n \notin closed /\ asking[n]]
      /\ channel' = (channel \ (Gone(closed) \cup Failed(closed))) \cup {}
    BY <1>1, <1>3, Zenon DEF Closing
<1>5. PICK reports \in Reports(order) : queue' = queue \o reports
    BY <1>1, Zenon DEF Closing
<1>6. /\ Budget /\ Links /\ ConnTypes /\ RouterTypes /\ CommandTypes /\ Wires /\ Distinct /\ Placement
      /\ pipelined \subseteq Commands
    BY CalmFacts, Zenon
<1>7. queue \in Seq(Messages) /\ ReportedOnce
    BY <1>6, Zenon DEF RouterTypes, Links
<1>8. /\ ReportedOnce' /\ Reported' \subseteq Reported \cup closed
      /\ Reported' # Reported => \E n \in closed : link[n] \in Working
      /\ \A x \in Range(queue') : x \in Range(queue) \/ (x.type = "reconnect" /\ x.cmd = None)
    BY <1>3, <1>5, <1>7, ReportsAdded, Zenon
<1>9. \A d \in pipelined : answer'[d] = answer[d]
  <2>1. \A n \in Nodes : Blocked(n) \subseteq channel /\ Final(n) \subseteq channel
      BY <1>6, BlockedInFlight, Zenon
  <2>2. \A d \in pipelined : d \notin Gone(closed) /\ d \notin Failed(closed)
      BY <1>6, <2>1, Zenon DEF Gone, Failed, Budget
  <2>3. answer' = AnswersAfter(closed)
      BY Zenon DEF Rebuild
  <2> QED
      BY <1>6, <2>2, <2>3 DEF AnswersAfter
<1>10. \A d \in Range(retry') : d \in Range(retry) \/ \E m \in closed : d \in Range(inflight[m])
  <2>1. /\ left \in Seq(Commands) /\ Range(left) = UNION {Unread(n) : n \in Range(order)}
      BY <1>3, <1>6, DrainedCommands, Zenon
  <2>2. retry \in Seq(Commands)
      BY <1>6, Zenon DEF ConnTypes
  <2>3. Range(retry \o left) = Range(retry) \cup Range(left)
      BY <2>1, <2>2, ConcatFacts
  <2>4. \A d \in Range(left) : \E m \in closed : d \in Range(inflight[m])
      BY <1>3, <2>1, Zenon DEF Unread
  <2>5. \A d \in Range(retry \o left) : d \in Range(retry) \/ \E m \in closed : d \in Range(inflight[m])
      BY <2>3, <2>4
  <2> QED
      BY <1>2, <2>5
<1>11. cache' = owner
    BY Zenon DEF Rebuild
<1>12. asking' \in [Nodes -> BOOLEAN]
    BY <1>4
<1> QED
    BY <1>4, <1>8, <1>9, <1>10, <1>11, <1>12

(* A sync or a reconnection leaves the connections to all nodes but the former owner. *)
LEMMA RebuiltCalm ==
    ASSUME CalmStep, at \in {"sync", "reconnect"}, owner # home,
           NEW closed, closed \subseteq Nodes, NEW opened, Rebuild(closed, opened),
           \A m \in Nodes : m # home => m \in opened \/ m \notin closed,
           home \notin opened, home \in closed \/ link[home] = "none",
           at = "sync" => closed \subseteq {home}, at = "reconnect" => home \notin closed,
           at' = "retry", reconnects' = 0,
           UNCHANGED <<nodeVars, next, goal, cmd, target, rx, attempted>>
    PROVE  CalmParts'
<1>1. /\ cache' = owner /\ channel' \subseteq channel
      /\ \A d \in pipelined : answer'[d] = answer[d]
      /\ \A m \in Nodes : link'[m] = IF m \in opened THEN "up" ELSE IF m \in closed THEN "none" ELSE link[m]
      /\ \A m \in Nodes : /\ inflight'[m] = IF m \in closed THEN <<>> ELSE inflight[m]
                          /\ requests'[m] = IF m \in closed THEN <<>> ELSE requests[m]
                          /\ replies'[m] = IF m \in closed THEN <<>> ELSE replies[m]
      /\ asking' \in [Nodes -> BOOLEAN]
      /\ ReportedOnce' /\ Reported' \subseteq Reported \cup closed
      /\ Reported' # Reported => \E n \in closed : link[n] \in Working
      /\ \A x \in Range(queue') : x \in Range(queue) \/ (x.type = "reconnect" /\ x.cmd = None)
      /\ \A d \in Range(retry') : d \in Range(retry) \/ \E m \in closed : d \in Range(inflight[m])
    BY RebuildEffects
<1>2. /\ Slot /\ Links /\ Course /\ Moves /\ AskingFirst /\ Budget /\ home' = home /\ home \in Nodes
      /\ pipelined' = pipelined /\ pipelined \subseteq Commands
    BY CalmFacts, Zenon DEF Slot
<1>3. UNCHANGED <<owner, importer, migrations>>
    BY Zenon DEF nodeVars
<1>4. link'[home] = "none" /\ \A m \in Nodes : m # home => link'[m] = "up"
  <2>1. \A m \in Nodes : m # home => link[m] = "up"
      BY <1>2, Zenon DEF Links
  <2> QED
      BY <1>1, <1>2, <2>1
<1>5. /\ \A m \in Nodes : Range(inflight'[m]) \subseteq Range(inflight[m])
      /\ \A m \in Nodes : Range(replies'[m]) \subseteq Range(replies[m])
      /\ \A m \in Nodes : requests'[m] # <<>> => requests[m] # <<>>
  <2>1. Range(<<>>) = {}
      BY EmptyFacts
  <2> QED
      BY <1>1, <2>1
<1>6. Slot'
    BY <1>1, <1>3, SlotKept, Zenon
<1>7. Links'
    BY <1>1, <1>2, <1>3, <1>4, Zenon DEF Links
<1>8. Course'
    BY <1>2, <1>3, Zenon DEF Course
<1>9. Moves'
  <2>1. \A x \in Range(queue') : x.type = "moved" => x \in Range(queue)
      BY <1>1
  <2> QED
      BY <1>3, <1>5, <2>1, MovesKept, Zenon
<1>10. AskingFirst'
  <2>1. Dest' = Dest
      BY <1>3, Zenon DEF Dest
  <2> QED
      BY <1>1, <1>2, <1>3, <1>5, <2>1, Zenon DEF AskingFirst
<1>11. (Replaced => Replaced') /\ (at = "reconnect" => Replaced')
  <2>1. ASSUME home \notin Reported, home \notin closed
        PROVE  home \notin Reported'
      BY <1>1, <2>1, Zenon
  <2>2. ASSUME Replaced, at = "sync"
        PROVE  home \notin Reported'
    <3>1. link[home] \notin Working /\ home \notin Reported
        BY <2>2 DEF Replaced, Working
    <3>2. Reported' = Reported
        BY <1>1, <2>2, <3>1, Zenon
    <3> QED
        BY <3>1, <3>2, Zenon
  <2>3. at = "reconnect" => home \notin Reported
      BY <1>2, Zenon DEF Links
  <2> QED
      BY <1>2, <1>4, <2>1, <2>2, <2>3, Zenon DEF Replaced
<1>12. ASSUME NEW d \in pipelined
       PROVE  Paid(d)'
  <2>1. Paid(d) /\ d \in Commands /\ None # d
      BY <1>2, Different, Zenon DEF Budget
  <2>2. /\ attempted[d] \in InFlightTries => attempted[d] \in InFlightTries'
        /\ attempted[d] \in RetryTries => attempted[d] \in RetryTries'
      BY <1>11, TriesFacts DEF InFlightTries, RetryTries
  <2>3. \A x \in Range(queue') : x.cmd = d => x \in Range(queue)
      BY <1>1, <2>1, Zenon
  <2>4. ASSUME NEW m \in closed, d \in Range(inflight[m])
        PROVE  attempted[d] \in RetryTries'
    <3>1. CASE at = "sync"
      <4>1. attempted[d] \in Tries(1)
          BY <2>1, <2>4, <3>1, Zenon DEF Paid
      <4> QED
          BY <4>1, TriesFacts DEF RetryTries
    <3>2. CASE at = "reconnect"
      <4>1. attempted[d] \in InFlightTries
          BY <2>1, <2>4, Zenon DEF Paid
      <4>2. ~Replaced /\ Replaced'
          BY <1>11, <3>2, Zenon DEF Replaced
      <4> QED
          BY <4>1, <4>2 DEF InFlightTries, RetryTries
    <3> QED
        BY <3>1, <3>2, Zenon
  <2>5. d \in Range(retry') => attempted[d] \in RetryTries'
      BY <1>1, <2>1, <2>2, <2>4, Zenon DEF Paid
  <2>6. answer'[d] = answer[d]
      BY <1>1, Zenon
  <2> QED
      BY <1>2, <1>5, <2>1, <2>2, <2>3, <2>5, <2>6, Zenon DEF Paid
<1>13. Budget'
    BY <1>1, <1>2, <1>12, Zenon DEF Budget
<1> QED
    BY <1>6, <1>7, <1>8, <1>9, <1>10, <1>13, Zenon DEF CalmParts

LEMMA CalmPrimaries ==
    ASSUME CalmStep, owner # home
    PROVE  /\ \A n \in Nodes : n \in Primaries <=> n # home
           /\ \A n \in Nodes : n # home => n \in Writers
           /\ home \notin Primaries /\ Primaries \subseteq Nodes
           /\ Writers \subseteq Nodes /\ (home \in Writers <=> link[home] # "none")
<1>1. Slot /\ Links /\ NodeTypes
    BY CalmFacts, Zenon
<1>2. /\ \A n \in Nodes : n \in Primaries <=> n = owner \/ n \in others
      /\ \A n \in Nodes : n \in Writers <=> link[n] # "none"
      /\ Primaries \subseteq Nodes /\ Writers \subseteq Nodes
    BY <1>1, Zenon DEF Primaries, Writers, NodeTypes
<1>3. \A n \in Nodes : n # home => link[n] # "none"
    BY <1>1, Zenon DEF Links
<1> QED
    BY <1>1, <1>2, <1>3, Zenon DEF Slot

LEMMA RepairCalm ==
    ASSUME CalmStep, faults \in Nat, Sync \/ Reconnect
    PROVE  CalmParts'
<1>1. Course /\ Links
    BY CalmFacts, Zenon
<1>2. faults' # faults + 1
  <2>1. faults' = faults
      BY Zenon DEF CalmStep
  <2> QED
      BY <2>1
<1>3. CASE Sync
  <2>1. at = "sync" /\ SyncDone
      BY <1>2, <1>3, Zenon DEF Sync, SyncFails
  <2>2. owner # home /\ reconnects = 0
      BY <1>1, <2>1, Zenon DEF Course
  <2>3. /\ Rebuild(Writers \ Primaries, Primaries \ Writers) /\ at' = "retry" /\ reconnects' = reconnects
        /\ UNCHANGED <<nodeVars, next, goal, cmd, target, rx, attempted>>
      BY <2>1, Zenon DEF SyncDone, Goto
  <2>4. /\ Writers \ Primaries \subseteq Nodes /\ Writers \ Primaries \subseteq {home}
        /\ home \notin Primaries \ Writers
        /\ home \in Writers \ Primaries \/ link[home] = "none"
        /\ \A m \in Nodes : m # home => m \notin Writers \ Primaries
      BY <2>2, CalmPrimaries, Zenon
  <2> QED
      BY <2>1, <2>2, <2>3, <2>4, RebuiltCalm, Zenon
<1>4. CASE Reconnect
  <2>1. at = "reconnect" /\ ReconnectDone
      BY <1>1, <1>2, <1>4, Zenon DEF Reconnect, ReconnectFails, Course
  <2>2. owner # home /\ link[home] = "none"
      BY <1>1, <2>1, Zenon DEF Links
  <2>3. /\ Rebuild(Writers, Primaries) /\ at' = "retry" /\ reconnects' = 0
        /\ UNCHANGED <<nodeVars, next, goal, cmd, target, rx, attempted>>
      BY <2>1 DEF ReconnectDone
  <2>4. /\ Writers \subseteq Nodes /\ home \notin Primaries /\ home \notin Writers
        /\ \A m \in Nodes : m # home => m \in Primaries
      BY <2>2, CalmPrimaries, Zenon
  <2> QED
      BY <2>1, <2>2, <2>3, <2>4, RebuiltCalm, Zenon
<1> QED
    BY <1>3, <1>4, Zenon

LEMMA AtMostOne ==
    ASSUME NEW S, IsFiniteSet(S), Cardinality(S) <= 1, NEW x \in S
    PROVE  \A y \in S : y = x
<1>1. IsFiniteSet(S \ {x}) /\ Cardinality(S \ {x}) = Cardinality(S) - 1
    BY FS_RemoveElement
<1>2. Cardinality(S) \in Nat /\ Cardinality(S \ {x}) \in Nat
    BY <1>1, FS_CardinalityType
<1>3. Cardinality(S \ {x}) = 0
    BY <1>1, <1>2
<1>4. S \ {x} = {}
    BY <1>1, <1>3, FS_EmptySet
<1> QED
    BY <1>4

LEMMA InitCalm ==
    ASSUME Init
    PROVE  CalmInv
<1>1. /\ owner \in Nodes /\ others \subseteq Nodes \ {owner} /\ importer = None /\ migrations = 0
      /\ asking = [n \in Nodes |-> FALSE] /\ requests = [n \in Nodes |-> <<>>]
      /\ replies = [n \in Nodes |-> <<>>] /\ inflight = [n \in Nodes |-> <<>>]
      /\ link = [n \in Nodes |-> IF n \in Primaries THEN "up" ELSE "none"]
      /\ cache = owner /\ queue = <<>> /\ retry = <<>> /\ at = "idle" /\ next = "idle" /\ goal = "none"
      /\ cmd = None /\ target = None /\ rx = None /\ reconnects = 0 /\ channel = {}
      /\ attempted = [c \in Commands |-> 0] /\ answer = [c \in Commands |-> "unsent"]
      /\ faults = 0 /\ pipelined \subseteq Commands
    BY DEF Init
<1>2. ASSUME Calm
      PROVE  CalmParts
  <2>1. Cardinality(Nodes \ others) <= 1 /\ IsFiniteSet(Nodes \ others)
    <3>1. IsFiniteSet(Nodes \ others)
        BY Different, FS_Subset
    <3> QED
        BY <1>2, <3>1, Zenon DEF Calm
  <2>2. owner \in Nodes \ others
      BY <1>1
  <2>3. \A n \in Nodes : n \notin others => n = owner
      BY <2>1, <2>2, AtMostOne
  <2>4. home = owner
      BY <2>2, <2>3 DEF home
  <2>5. Slot
      BY <1>1, <2>2, <2>3, <2>4, Different DEF Slot
  <2>6. Range(<<>>) = {} /\ DOMAIN <<>> = {}
      BY EmptyFacts
  <2>7. Range(queue) = {} /\ Range(retry) = {} /\ DOMAIN queue = {} /\ Reported = {} /\ ReportedOnce
      BY <1>1, <2>6 DEF Reported, ReportedOnce
  <2>8. \A n \in Nodes : /\ inflight[n] = <<>> /\ requests[n] = <<>> /\ ~asking[n]
                         /\ Range(inflight[n]) = {} /\ Range(replies[n]) = {}
      BY <1>1, <2>6
  <2>9. Links
    <3>1. \A n \in Nodes : link[n] = "up"
        BY <1>1, <2>3 DEF Primaries
    <3> QED
        BY <1>1, <2>2, <2>4, <2>7, <3>1 DEF Links
  <2>10. Course
      BY <1>1 DEF Course
  <2>11. Moves
      BY <1>1, <2>7, <2>8 DEF Moves
  <2>12. AskingFirst
    <3>1. \A n \in Nodes : Flagged(n)
        BY <2>6, <2>8 DEF Flagged
    <3>2. asking \in [Nodes -> BOOLEAN]
        BY <1>1
    <3> QED
        BY <1>1, <2>8, <3>1, <3>2 DEF AskingFirst
  <2>13. Budget
    <3>1. ASSUME NEW c \in pipelined
          PROVE  Paid(c)
      <4>1. answer[c] = "unsent" /\ attempted[c] \in Tries(0) /\ c \in Commands /\ c # None
          BY <1>1, Different DEF Tries
      <4> QED
          BY <1>1, <2>2, <2>4, <2>7, <2>8, <4>1 DEF Paid
    <3> QED
        BY <1>1, <3>1 DEF Budget
  <2> QED
      BY <2>5, <2>9, <2>10, <2>11, <2>12, <2>13, Zenon DEF CalmParts
<1> QED
    BY <1>1, <1>2 DEF CalmInv

LEMMA StutterCalm ==
    ASSUME CalmStep, UNCHANGED vars
    PROVE  CalmParts'
<1>1. UNCHANGED <<owner, importer, migrations, asking, requests, replies, link, inflight, retry, cache, queue,
                  at, next, goal, cmd, target, rx, reconnects, attempted, channel, answer>>
    BY Zenon DEF vars, nodeVars, wireVars, connVars, pcVars, cmdVars
<1>2. Links /\ Course /\ home' = home
    BY CalmFacts, Zenon
<1>3. Slot'
    BY <1>1, SlotKept, Zenon
<1>4. Links'
    BY <1>1, <1>2, LinksKept, Zenon DEF Links
<1>5. Course'
    BY <1>1, <1>2, Zenon DEF Course
<1>6. Moves'
    BY <1>1, MovesKept, Zenon
<1>7. AskingFirst'
    BY <1>1, AskingFirstKept, Zenon
<1>8. Budget'
    BY <1>1, BudgetKept, Zenon
<1> QED
    BY <1>3, <1>4, <1>5, <1>6, <1>7, <1>8, Zenon DEF CalmParts

LEMMA StepKeepsCalm ==
    ASSUME ClusterInv, RepairInv, CalmInv, [Next]_vars
    PROVE  CalmInv'
<1>1. faults \in Nat /\ pipelined \subseteq Commands
    BY Zenon DEF CalmInv
<1>2. pipelined' = pipelined /\ (faults' = faults \/ faults' = faults + 1)
    BY FaultsAddUp, Zenon
<1>3. faults' \in Nat
    BY <1>1, <1>2
<1>4. ASSUME Calm'
      PROVE  CalmParts'
  <2>1. CalmStep /\ migrations' \in {0, 1}
      BY <1>4, CalmStarts, CalmBefore, Zenon
  <2>2. CASE \E c \in Commands : Submit(c)
      BY <2>1, <2>2, SubmitCalm, Zenon
  <2>3. CASE Migrate \/ MigrationEnds
      BY <2>1, <2>3, MigrateCalm, MigrationEndsCalm, Zenon
  <2>4. CASE \E n \in Nodes : Serve(n) \/ ReadReply(n)
      BY <2>1, <2>4, ServeCalm, ReadReplyCalm, Zenon
  <2>5. ASSUME NEW n \in Nodes, Break(n) \/ ReaderEnds(n)
        PROVE  FALSE
    <3>1. link[n] # "down"
        BY <2>1, CalmLinks
    <3>2. faults' = faults
        BY <2>1, Zenon DEF CalmStep
    <3>3. faults + 1 # faults
        BY <1>1
    <3> QED
        BY <2>5, <3>1, <3>2, <3>3, Zenon DEF Break, ReaderEnds
  <2>6. CASE Take \/ Write \/ Wait \/ Retry
      BY <2>1, <2>6, TakeCalm, WriteCalm, WaitCalm, RetryCalm, Zenon
  <2>7. CASE Sync \/ Policy \/ Reconnect
      BY <1>1, <2>1, <2>7, RepairCalm, PolicyCalm, Zenon
  <2>8. CASE AskCheck \/ AskWrite \/ Asked \/ Direct
      BY <2>1, <2>8, AskCheckCalm, AskWriteCalm, AskedCalm, DirectCalm, Zenon
  <2>9. CASE UNCHANGED vars
      BY <2>1, <2>9, StutterCalm, Zenon
  <2> QED
      BY <2>2, <2>3, <2>4, <2>5, <2>6, <2>7, <2>8, <2>9, Zenon DEF Next, Router
<1> QED
    BY <1>1, <1>2, <1>3, <1>4, Zenon DEF CalmInv

(* While no connection fails and the slot migrates at most once, to a node the client is
   connected to, the redirections of pipelined commands cost no result: process_ask and
   process_moved write each of them at most three times, the replay after the connection
   to the former owner is closed included. *)
THEOREM RedirectionsFollowed == Spec => []PipelinedFollowed
<1>1. Init => ClusterInv /\ RepairInv /\ CalmInv
    BY InitClusterInv, InitRepairInv, InitCalm, Zenon
<1>2. ClusterInv /\ RepairInv /\ CalmInv /\ [Next]_vars => (ClusterInv /\ RepairInv /\ CalmInv)'
    BY StepKeepsClusterInv, StepKeepsRepairInv, StepKeepsCalm, Zenon
<1>3. ClusterInv /\ RepairInv /\ CalmInv => PipelinedFollowed
    BY Zenon DEF CalmInv, Calm, CalmParts, Budget, Paid, PipelinedFollowed
<1> QED
    BY <1>1, <1>2, <1>3, PTL DEF Spec
=============================================================================
