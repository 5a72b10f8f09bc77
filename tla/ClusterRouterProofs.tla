------------------------- MODULE ClusterRouterProofs -------------------------
(***************************************************************************)
(* Theorems about ClusterRouter, second part: the writes and the failures  *)
(* that move commands between the buffers keep the invariant, and what     *)
(* follows; then the invariant of the connection to the cached owner.      *)
(***************************************************************************)
EXTENDS ClusterRouterInvariant

(* The router goes somewhere else with what it has in its hands. *)
LEMMA RouterMoves ==
    ASSUME ClusterInv, at # "wait", at' \in Stations \ {"wait", "asked"}, at # "asked" \/ rx # None,
           UNCHANGED <<nodeVars, wireVars, connVars, cache, queue, channel, answer, cmd, target>>,
           rx' = None, next' \in {"idle", "write", "direct", "ask", "askwrite"},
           attempted' \in [Commands -> Nat], cmd \in Commands => answer[cmd] = "pending",
           at' \in {"idle", "ended"} => cmd = None,
           at' \in {"write", "ask", "askwrite", "once", "direct", "sync"} => cmd \in Commands,
           at' \in {"retry", "policy", "reconnect"} => (cmd = None <=> next' = "idle"),
           at' = "sync" => next' \in {"write", "direct", "askwrite"},
           at' \in {"ask", "askwrite", "once", "direct"} => target \in Nodes,
           at' \in {"sync", "retry", "policy", "reconnect"} /\ next' \in {"ask", "askwrite", "direct"} =>
              target \in Nodes,
           at \in {"policy", "reconnect"} => at' \in {"policy", "reconnect"}
    PROVE  ClusterInv'
<1>1. RouterTypes /\ CommandTypes /\ Control
    BY Zenon DEF ClusterInv
<1>2. RouterTypes' /\ CommandTypes'
    BY <1>1, Zenon DEF RouterTypes, CommandTypes
<1>3. Control'
    BY <1>1, Zenon DEF Control
<1>4. \A c \in Commands : HeldByRouter(c)' <=> HeldByRouter(c) /\ answer'[c] = "pending"
    BY Zenon DEF HeldByRouter
<1> QED
    BY <1>2, <1>3, <1>4, RouterOnly, Zenon

(* What Control says of a router that is not waiting. *)
LEMMA InHand ==
    ASSUME ClusterInv, at \notin {"wait", "asked"}
    PROVE  /\ rx = None /\ RouterTypes /\ CommandTypes /\ Control
           /\ cmd \in Commands => answer[cmd] = "pending"
    BY Zenon DEF ClusterInv, Control

LEMMA RetryDoneKept ==
    ASSUME ClusterInv, at = "retry", RetryDone
    PROVE  ClusterInv'
<1>1. /\ at' = next /\ next' = "idle" /\ rx' = rx /\ attempted' = attempted
      /\ UNCHANGED <<nodeVars, wireVars, connVars, cache, queue, channel, answer, cmd, target>>
    BY Zenon DEF RetryDone, cmdVars
<1>2. rx = None /\ RouterTypes /\ CommandTypes /\ Control /\ (cmd \in Commands => answer[cmd] = "pending")
    BY InHand, Zenon
<1>3. /\ cmd = None <=> next = "idle"
      /\ cmd \in Commands \/ cmd = None
      /\ next \in {"idle", "write", "direct", "ask", "askwrite"}
      /\ next \in {"ask", "askwrite", "direct"} => target \in Nodes
    BY <1>2, Zenon DEF Control, RouterTypes
<1>4. next \in Stations \ {"wait", "asked"} /\ next \notin {"retry", "policy", "reconnect", "sync", "once"}
    BY <1>3 DEF Stations
<1>5. attempted' \in [Commands -> Nat]
    BY <1>1, <1>2, Zenon DEF CommandTypes
<1> QED
    BY <1>1, <1>2, <1>3, <1>4, <1>5, RouterMoves, Zenon

LEMMA AskCheckKept ==
    ASSUME ClusterInv, AskCheck
    PROVE  ClusterInv'
<1>1. /\ at = "ask" /\ rx' = rx /\ attempted' = attempted
      /\ (at' = "askwrite" /\ next' = next) \/ (at' = "sync" /\ next' = "askwrite")
      /\ UNCHANGED <<nodeVars, wireVars, connVars, cache, queue, channel, answer, cmd, target>>
    BY Zenon DEF AskCheck, cmdVars, Goto
<1>2. rx = None /\ RouterTypes /\ CommandTypes /\ Control /\ (cmd \in Commands => answer[cmd] = "pending")
    BY <1>1, InHand, Zenon
<1>3. /\ cmd \in Commands /\ target \in Nodes
      /\ next \in {"idle", "write", "direct", "ask", "askwrite"}
    BY <1>1, <1>2, Zenon DEF Control, RouterTypes
<1>4. attempted' \in [Commands -> Nat]
    BY <1>1, <1>2, Zenon DEF CommandTypes
<1> QED
    BY <1>1, <1>2, <1>3, <1>4, RouterMoves, Zenon DEF Stations

LEMMA AskedKept ==
    ASSUME ClusterInv, Asked
    PROVE  ClusterInv'
<1>1. /\ at = "asked" /\ rx # None /\ rx' = None /\ attempted' = attempted
      /\ at' \in {"write", "direct"} /\ next' = next
      /\ UNCHANGED <<nodeVars, wireVars, connVars, cache, queue, channel, answer, cmd, target>>
    BY Zenon DEF Asked, cmdVars, Goto
<1>2. RouterTypes /\ CommandTypes /\ Control
    BY Zenon DEF ClusterInv
<1>3. /\ cmd \in Commands /\ target \in Nodes /\ answer[cmd] = "pending"
      /\ next \in {"idle", "write", "direct", "ask", "askwrite"}
    BY <1>1, <1>2, Zenon DEF Control, RouterTypes
<1>4. attempted' \in [Commands -> Nat]
    BY <1>1, <1>2, Zenon DEF CommandTypes
<1> QED
    BY <1>1, <1>3, <1>4, RouterMoves, Zenon DEF Stations

LEMMA CountAttempt ==
    ASSUME CommandTypes, NEW c \in Commands, attempted' = [attempted EXCEPT ![c] = @ + 1]
    PROVE  attempted' \in [Commands -> Nat]
    BY DEF CommandTypes

LEMMA DirectFailsKept ==
    ASSUME ClusterInv, at = "direct", DirectFails
    PROVE  ClusterInv'
<1>1. /\ rx' = rx /\ attempted' = [attempted EXCEPT ![cmd] = @ + 1]
      /\ (at' = "ask" /\ next' = next) \/ (at' = "sync" /\ next' = "direct")
      /\ UNCHANGED <<nodeVars, wireVars, connVars, cache, queue, channel, answer, cmd, target>>
    BY Zenon DEF DirectFails, Goto
<1>2. rx = None /\ RouterTypes /\ CommandTypes /\ Control /\ (cmd \in Commands => answer[cmd] = "pending")
    BY InHand, Zenon
<1>3. /\ cmd \in Commands /\ target \in Nodes
      /\ next \in {"idle", "write", "direct", "ask", "askwrite"}
    BY <1>2, Zenon DEF Control, RouterTypes
<1>4. attempted' \in [Commands -> Nat]
    BY <1>1, <1>2, <1>3, CountAttempt, Zenon
<1> QED
    BY <1>1, <1>2, <1>3, <1>4, RouterMoves, Zenon DEF Stations

LEMMA ExhaustedKept ==
    ASSUME ClusterInv, at \notin {"wait", "asked"}, Exhausted
    PROVE  ClusterInv'
<1> DEFINE answers == IF goal \in {"ask", "moved"} THEN Answered(cmd, "error") ELSE answer
<1>1. Ends(answers) /\ attempted' = attempted
    BY Zenon DEF Exhausted
<1>2. CommandTypes
    BY Zenon DEF ClusterInv
<1>3. answers \in [Commands -> {"unsent", "pending", "ok", "error", "canceled"}]
    BY <1>2, Zenon DEF CommandTypes, Answered
<1>4. \A c \in Commands : answers[c] # answer[c] => c = cmd /\ answers[c] # "pending"
    BY <1>2, Zenon DEF CommandTypes, Answered
<1>5. attempted' \in [Commands -> Nat]
    BY <1>1, <1>2, Zenon DEF CommandTypes
<1> HIDE DEF answers
<1> QED
    BY <1>1, <1>3, <1>4, <1>5, EndsKept, Zenon

LEMMA PolicyKept ==
    ASSUME ClusterInv, Policy
    PROVE  ClusterInv'
<1>1. at = "policy"
    BY Zenon DEF Policy
<1>2. CASE Exhausted
    BY <1>1, <1>2, ExhaustedKept, Zenon
<1>3. CASE /\ PolicyOr("reconnect")
           /\ UNCHANGED <<nodeVars, wireVars, connVars, cache, queue, cmdVars>>
  <2>1. /\ at' = "reconnect" /\ next' = next /\ rx' = rx /\ attempted' = attempted
        /\ UNCHANGED <<nodeVars, wireVars, connVars, cache, queue, channel, answer, cmd, target>>
      BY <1>3, Zenon DEF PolicyOr, Goto, cmdVars
  <2>2. rx = None /\ RouterTypes /\ CommandTypes /\ Control /\ (cmd \in Commands => answer[cmd] = "pending")
      BY <1>1, InHand, Zenon
  <2>3. /\ cmd = None <=> next = "idle"
        /\ next \in {"idle", "write", "direct", "ask", "askwrite"}
        /\ next \in {"ask", "askwrite", "direct"} => target \in Nodes
      BY <1>1, <2>2, Zenon DEF Control, RouterTypes
  <2>4. attempted' \in [Commands -> Nat]
      BY <2>1, <2>2, Zenon DEF CommandTypes
  <2> QED
      BY <1>1, <2>1, <2>2, <2>3, <2>4, RouterMoves, Zenon DEF Stations
<1> QED
    BY <1>2, <1>3, Zenon DEF Policy

(* A sync or a reconnection that got as far as CLUSTER SLOTS. *)
LEMMA RebuildKept ==
    ASSUME ClusterInv, at \in {"sync", "reconnect", "once"},
           at' \in {"sync", "ask", "retry", "reconnect"}, UNCHANGED <<cmd, target, rx, attempted, nodeVars>>,
           next' \in {"idle", "write", "direct", "ask", "askwrite"},
           NEW closed \in SUBSET Nodes, NEW opened \in SUBSET Nodes,
           \A n \in opened : n \in closed \/ link[n] = "none", Rebuild(closed, opened),
           at \in {"reconnect", "once"} => closed = Writers,
           at' \in {"sync", "ask"} => cmd \in Commands,
           at' \in {"retry", "reconnect"} => (cmd = None <=> next' = "idle"),
           at' = "sync" => next' \in {"write", "direct", "askwrite"},
           at' = "ask" => target \in Nodes,
           at' # "ask" /\ next' \in {"ask", "askwrite", "direct"} => target \in Nodes
    PROVE  ClusterInv'
<1>1. /\ NodeTypes' /\ ConnTypes' /\ CommandTypes' /\ queue' \in Seq(Messages)
      /\ Wires' /\ Distinct' /\ Placement' /\ Reported \subseteq Reported'
      /\ cmd \in Commands => answer'[cmd] = "pending"
      /\ \A n \in Nodes : link'[n] = "ended" => link[n] = "ended" /\ n \notin closed
  <2>1. at \notin {"wait", "asked"} /\ at' # "wait"
      BY Zenon
  <2> QED
      BY <2>1, RebuildFacts, Zenon
<1>2. rx = None /\ RouterTypes /\ EndedReported
    BY Zenon DEF ClusterInv, Control
<1>3. RouterTypes'
    BY <1>1, <1>2, Zenon DEF RouterTypes, Stations
<1>4. Control'
    BY <1>1, <1>2, Zenon DEF Control
<1>5. EndedReported'
  <2>1. CASE at = "sync"
      BY <1>1, <1>2, <2>1, Zenon DEF EndedReported
  <2>2. CASE closed = Writers
      BY <1>1, <2>2, Zenon DEF EndedReported, Writers
  <2> QED
      BY <2>1, <2>2, Zenon
<1> QED
    BY <1>1, <1>3, <1>4, <1>5, Zenon DEF ClusterInv

LEMMA SyncKept ==
    ASSUME ClusterInv, Sync
    PROVE  ClusterInv'
<1>1. at = "sync"
    BY Zenon DEF Sync
<1>2. rx = None /\ RouterTypes /\ CommandTypes /\ Control /\ (cmd \in Commands => answer[cmd] = "pending")
    BY <1>1, InHand, Zenon
<1>3. /\ next \in {"write", "direct", "askwrite"} /\ cmd \in Commands /\ cmd # None
      /\ next \in {"askwrite", "direct"} => target \in Nodes
    BY <1>1, <1>2, Different, Zenon DEF Control
<1>4. NodeTypes /\ Primaries \subseteq Nodes
    BY Zenon DEF ClusterInv, NodeTypes, Primaries
<1>5. /\ Writers \ Primaries \in SUBSET Nodes
      /\ \A opened \in SUBSET (Primaries \ Writers) :
            opened \in SUBSET Nodes /\ \A n \in opened : link[n] = "none"
    BY <1>4, Zenon DEF Writers
<1>6. CASE SyncDone
  <2>1. /\ Rebuild(Writers \ Primaries, Primaries \ Writers) /\ at' = "retry" /\ next' = next
        /\ UNCHANGED <<cmd, target, rx, attempted, nodeVars>>
      BY <1>6, Zenon DEF SyncDone, Goto
  <2>2. Primaries \ Writers \in SUBSET Nodes /\ \A n \in Primaries \ Writers : link[n] = "none"
      BY <1>5, Zenon
  <2> QED
      BY <1>1, <1>3, <1>5, <2>1, <2>2, RebuildKept, Zenon
<1>7. ASSUME PolicyOr(SyncAgain)
      PROVE  /\ at' \in {"sync", "ask"} /\ next' = next /\ UNCHANGED <<cmd, target, rx>>
             /\ at' = "ask" => next = "askwrite"
    BY <1>7, Zenon DEF PolicyOr, SyncAgain, Goto
<1>8. CASE /\ PolicyOr(SyncAgain)
           /\ \E opened \in SUBSET (Primaries \ Writers) :
                 opened # Primaries \ Writers /\ Rebuild(Writers \ Primaries, opened)
           /\ UNCHANGED <<nodeVars, attempted>>
  <2>1. PICK opened \in SUBSET (Primaries \ Writers) : Rebuild(Writers \ Primaries, opened)
      BY <1>8, Zenon
  <2>2. opened \in SUBSET Nodes /\ \A n \in opened : link[n] = "none"
      BY <1>5, Zenon
  <2> QED
      BY <1>1, <1>3, <1>5, <1>7, <1>8, <2>1, <2>2, RebuildKept, Zenon
<1>9. CASE /\ PolicyOr(SyncAgain)
           /\ UNCHANGED <<nodeVars, wireVars, connVars, cache, queue, cmdVars>>
  <2>1. /\ attempted' = attempted
        /\ UNCHANGED <<nodeVars, wireVars, connVars, cache, queue, channel, answer>>
      BY <1>9, Zenon DEF cmdVars
  <2>2. attempted' \in [Commands -> Nat]
      BY <1>2, <2>1, Zenon DEF CommandTypes
  <2> QED
      BY <1>1, <1>2, <1>3, <1>7, <1>9, <2>1, <2>2, RouterMoves, Zenon DEF Stations
<1>10. CASE Exhausted
    BY <1>1, <1>10, ExhaustedKept, Zenon
<1> QED
    BY <1>6, <1>8, <1>9, <1>10, Zenon DEF Sync, SyncFails

LEMMA ReconnectKept ==
    ASSUME ClusterInv, Reconnect
    PROVE  ClusterInv'
<1>1. at \in {"reconnect", "once"}
    BY Zenon DEF Reconnect
<1>2. rx = None /\ RouterTypes /\ CommandTypes /\ Control /\ (cmd \in Commands => answer[cmd] = "pending")
    BY <1>1, InHand, Zenon
<1>3. /\ next \in {"idle", "write", "direct", "ask", "askwrite"}
      /\ at = "once" => cmd \in Commands /\ target \in Nodes /\ cmd # None
      /\ at = "reconnect" => (cmd = None <=> next = "idle")
      /\ at = "reconnect" /\ next \in {"ask", "askwrite", "direct"} => target \in Nodes
    BY <1>1, <1>2, Different, Zenon DEF Control, RouterTypes
<1>4. NodeTypes /\ Primaries \subseteq Nodes
    BY Zenon DEF ClusterInv, NodeTypes, Primaries
<1>5. /\ Writers \in SUBSET Nodes
      /\ \A opened \in SUBSET Primaries :
            opened \in SUBSET Nodes /\ \A n \in opened : n \in Writers \/ link[n] = "none"
    BY <1>4, Zenon DEF Writers
<1>6. CASE ReconnectDone
  <2>1. /\ Rebuild(Writers, Primaries) /\ at' = "retry" /\ next' = IF at = "once" THEN "ask" ELSE next
        /\ UNCHANGED <<cmd, target, rx, attempted, nodeVars>>
      BY <1>6, Zenon DEF ReconnectDone
  <2>2. Primaries \in SUBSET Nodes /\ \A n \in Primaries : n \in Writers \/ link[n] = "none"
      BY <1>5, Zenon
  <2>3. CASE at = "once"
      BY <1>1, <1>3, <1>5, <2>1, <2>2, <2>3, RebuildKept, Zenon
  <2>4. CASE at = "reconnect"
      BY <1>1, <1>3, <1>5, <2>1, <2>2, <2>4, RebuildKept, Zenon
  <2> QED
      BY <1>1, <2>3, <2>4, Zenon
<1>7. CASE /\ PolicyOr(IF at = "once" THEN "ask" ELSE "reconnect")
           /\ \E opened \in SUBSET Primaries \ {Primaries} : Rebuild(Writers, opened)
           /\ UNCHANGED <<nodeVars, attempted>>
  <2>1. PICK opened \in SUBSET Primaries : Rebuild(Writers, opened)
      BY <1>7, Zenon
  <2>2. opened \in SUBSET Nodes /\ \A n \in opened : n \in Writers \/ link[n] = "none"
      BY <1>5, Zenon
  <2>3. /\ at' = (IF at = "once" THEN "ask" ELSE "reconnect") /\ next' = next
        /\ UNCHANGED <<cmd, target, rx>>
      BY <1>7, Zenon DEF PolicyOr, Goto
  <2>4. CASE at = "once"
      BY <1>1, <1>3, <1>5, <1>7, <2>1, <2>2, <2>3, <2>4, RebuildKept, Zenon
  <2>5. CASE at = "reconnect"
      BY <1>1, <1>3, <1>5, <1>7, <2>1, <2>2, <2>3, <2>5, RebuildKept, Zenon
  <2> QED
      BY <1>1, <2>4, <2>5, Zenon
<1>8. CASE Exhausted
    BY <1>1, <1>8, ExhaustedKept, Zenon
<1> QED
    BY <1>6, <1>7, <1>8, Zenon DEF Reconnect, ReconnectFails

(* A frame that is written. *)
LEMMA SentFacts ==
    ASSUME ClusterInv, at # "asked", NEW c \in Frames, NEW n \in Nodes, Accepts(n), Sent(c, n),
           c \notin Range(inflight[n]), UNCHANGED <<owner, importer, others>>
    PROVE  /\ NodeTypes' /\ inflight' \in [Nodes -> Seq(Frames)] /\ link' = link
           /\ Range(inflight'[n]) = Range(inflight[n]) \cup {c}
           /\ \A m \in Nodes : m # n => inflight'[m] = inflight[m]
           /\ \A m \in Nodes : IsInjective(inflight'[m])
           /\ \A m \in Nodes : Asking \in Range(inflight'[m]) => m = n /\ c = Asking
           /\ \A m \in Nodes : link[m] = "up" => Len(inflight'[m]) = Len(requests'[m]) + Len(replies'[m])
           /\ \A m \in Nodes : link[m] = "none" =>
                 inflight'[m] = <<>> /\ requests'[m] = <<>> /\ replies'[m] = <<>>
<1>1. /\ inflight' = [inflight EXCEPT ![n] = Append(@, c)]
      /\ requests' = IF link[n] = "up" THEN [requests EXCEPT ![n] = Append(@, c)] ELSE requests
      /\ link' = link /\ replies' = replies
    BY Zenon DEF Sent
<1>2. NodeTypes /\ ConnTypes /\ Wires /\ Distinct
    BY Zenon DEF ClusterInv
<1>3. /\ inflight \in [Nodes -> Seq(Frames)] /\ requests \in [Nodes -> Seq(Frames)]
      /\ replies \in [Nodes -> Seq(Replies)] /\ IsInjective(inflight[n])
      /\ inflight[n] \in Seq(Frames) /\ requests[n] \in Seq(Frames) /\ replies[n] \in Seq(Replies)
    BY <1>2, Zenon DEF NodeTypes, ConnTypes, Distinct
<1>4. /\ Append(inflight[n], c) \in Seq(Frames) /\ Len(Append(inflight[n], c)) = Len(inflight[n]) + 1
      /\ Range(Append(inflight[n], c)) = Range(inflight[n]) \cup {c} /\ IsInjective(Append(inflight[n], c))
    BY <1>3, AppendFacts, Zenon
<1>5. Append(requests[n], c) \in Seq(Frames) /\ Len(Append(requests[n], c)) = Len(requests[n]) + 1
    BY <1>3, AppendFacts, Zenon
<1>6. /\ inflight'[n] = Append(inflight[n], c) /\ \A m \in Nodes : m # n => inflight'[m] = inflight[m]
      /\ link[n] = "up" => requests'[n] = Append(requests[n], c)
      /\ \A m \in Nodes : m # n => requests'[m] = requests[m]
    BY <1>1, <1>3, Zenon
<1>7. inflight' \in [Nodes -> Seq(Frames)] /\ requests' \in [Nodes -> Seq(Frames)]
    BY <1>1, <1>3, <1>4, <1>5, Zenon
<1>8. NodeTypes'
    BY <1>1, <1>2, <1>7, Zenon DEF NodeTypes
<1>9. \A m \in Nodes : IsInjective(inflight'[m])
    BY <1>2, <1>4, <1>6, Zenon DEF Distinct
<1>10. \A m \in Nodes : Asking \in Range(inflight'[m]) => m = n /\ c = Asking
  <2>1. \A m \in Nodes : Asking \notin Range(inflight[m])
      BY <1>2, Zenon DEF Wires
  <2>2. Range(inflight'[n]) = Range(inflight[n]) \cup {c}
      BY <1>4, <1>6, Zenon
  <2>3. Asking \in Range(inflight'[n]) => c = Asking
      BY <2>1, <2>2, Zenon
  <2>4. \A m \in Nodes : m # n => Asking \notin Range(inflight'[m])
      BY <1>6, <2>1, Zenon
  <2> QED
      BY <2>3, <2>4, Zenon
<1>11. link[n] = "up" => Len(inflight'[n]) = Len(requests'[n]) + Len(replies'[n])
  <2>1. Len(requests[n]) \in Nat /\ Len(replies[n]) \in Nat
      BY <1>3
  <2>2. (Len(requests[n]) + Len(replies[n])) + 1 = (Len(requests[n]) + 1) + Len(replies[n])
      BY <2>1, SumSwapped, Zenon
  <2>3. link[n] = "up" => Len(inflight[n]) = Len(requests[n]) + Len(replies[n])
      BY <1>2, Zenon DEF Wires
  <2> QED
      BY <1>1, <1>4, <1>5, <1>6, <2>2, <2>3, Zenon
<1>12. \A m \in Nodes : link[m] = "up" => Len(inflight'[m]) = Len(requests'[m]) + Len(replies'[m])
    BY <1>1, <1>2, <1>6, <1>11, Zenon DEF Wires
<1>13. link[n] # "none"
    BY Zenon DEF Accepts, Working
<1>14. \A m \in Nodes : link[m] = "none" =>
          inflight'[m] = <<>> /\ requests'[m] = <<>> /\ replies'[m] = <<>>
    BY <1>1, <1>2, <1>6, <1>13, Zenon DEF Wires
<1> QED
    BY <1>1, <1>4, <1>6, <1>7, <1>8, <1>9, <1>10, <1>12, <1>14, Zenon

(* A command goes from the router or the retry buffer to a shared buffer. *)
LEMMA CommandSent ==
    ASSUME ClusterInv, at \notin {"wait", "asked"}, NEW c \in Commands, NEW n \in Nodes, Accepts(n),
           Sent(c, n), UNCHANGED <<nodeVars, cache, queue, rx, answer>>, answer[c] = "pending",
           ~Queued(c), ~Flying(c), attempted' \in [Commands -> Nat], channel' \subseteq Commands,
           retry' \in Seq(Commands), IsInjective(retry'), c \notin Range(retry'), ~HeldByRouter(c)',
           \A d \in Commands : d # c => (d \in Range(retry') <=> d \in Range(retry)),
           \A d \in Commands : d # c => (HeldByRouter(d)' <=> HeldByRouter(d)),
           at' \in Stations, next' \in {"idle", "write", "direct", "ask", "askwrite"},
           cmd' \in Commands \cup {None}, target' \in Nodes \cup {None}, Control',
           at \notin {"policy", "reconnect"}
    PROVE  ClusterInv'
<1>1. /\ NodeTypes /\ ConnTypes /\ RouterTypes /\ CommandTypes /\ Control /\ Wires /\ Distinct
      /\ Placement /\ EndedReported
    BY Zenon DEF ClusterInv
<1>2. UNCHANGED <<owner, importer, others>> /\ c \in Frames /\ c # Asking /\ c \notin Range(inflight[n])
    BY Different, Zenon DEF nodeVars, Frames, Flying
<1>3. /\ NodeTypes' /\ inflight' \in [Nodes -> Seq(Frames)] /\ link' = link
      /\ Range(inflight'[n]) = Range(inflight[n]) \cup {c}
      /\ \A m \in Nodes : m # n => inflight'[m] = inflight[m]
      /\ \A m \in Nodes : IsInjective(inflight'[m])
      /\ \A m \in Nodes : Asking \in Range(inflight'[m]) => m = n /\ c = Asking
      /\ \A m \in Nodes : link[m] = "up" => Len(inflight'[m]) = Len(requests'[m]) + Len(replies'[m])
      /\ \A m \in Nodes : link[m] = "none" =>
            inflight'[m] = <<>> /\ requests'[m] = <<>> /\ replies'[m] = <<>>
    BY <1>2, SentFacts, Zenon
<1>4. ConnTypes' /\ RouterTypes' /\ CommandTypes'
    BY <1>1, <1>3, Zenon DEF ConnTypes, RouterTypes, CommandTypes
<1>5. Wires'
    BY <1>2, <1>3, Zenon DEF Wires
<1>6. Distinct'
    BY <1>1, <1>3, Zenon DEF Distinct
<1>7. EndedReported'
    BY <1>1, <1>3, Zenon DEF EndedReported, Reported
<1>8. ASSUME NEW d \in Commands
      PROVE  Placed(d)'
  <2>1. Queued(d)' <=> Queued(d)
      BY Zenon DEF Queued
  <2>2. CASE d = c
    <3>1. \A m \in Nodes : d \in Range(inflight'[m]) <=> m = n
        BY <1>3, <2>2, Zenon DEF Flying
    <3>2. Flying(d)'
        BY <3>1, Zenon DEF Flying
    <3>3. ~Queued(d)' /\ d \notin Range(retry)' /\ ~HeldByRouter(d)' /\ answer'[d] = "pending"
        BY <2>1, <2>2, Zenon
    <3> QED
        BY <3>1, <3>2, <3>3, Zenon DEF Placed
  <2>3. CASE d # c
    <3>1. \A m \in Nodes : d \in Range(inflight[m])' <=> d \in Range(inflight[m])
        BY <1>3, <2>3, Zenon
    <3> QED
        BY <1>1, <2>1, <2>3, <3>1, PlacedStays, Zenon DEF Placement
  <2> QED
      BY <2>2, <2>3, Zenon
<1> QED
    BY <1>3, <1>4, <1>5, <1>6, <1>7, <1>8, Zenon DEF ClusterInv, Placement

(* ... from the router. *)
LEMMA WriteSentKept ==
    ASSUME ClusterInv, at = "write", WriteSent
    PROVE  ClusterInv'
<1>1. /\ Accepts(cache) /\ attempted' = [attempted EXCEPT ![cmd] = @ + 1] /\ Sent(cmd, cache)
      /\ channel' \in {channel, channel \cup {cmd}}
      /\ UNCHANGED <<nodeVars, retry, cache, queue, rx, answer>>
      /\ \/ at' = "idle" /\ next' = "idle" /\ cmd' = None /\ target' = None
         \/ at' = "wait" /\ next' = next /\ cmd' = cmd /\ target' = target
    BY Zenon DEF WriteSent, Idle, Goto
<1>2. rx = None /\ RouterTypes /\ CommandTypes /\ Control /\ ConnTypes /\ Distinct
    BY InHand, Zenon DEF ClusterInv
<1>3. PICK c \in Commands : cmd = c
    BY <1>2, Zenon DEF Control
<1>4. answer[c] = "pending" /\ HeldByRouter(c) /\ ~Flying(c) /\ ~Queued(c) /\ c \notin Range(retry)
  <2>1. answer[c] = "pending" /\ HeldByRouter(c)
      BY <1>3, HandKept, Zenon
  <2> QED
      BY <1>3, <2>1, Zenon DEF ClusterInv, Placement, Placed
<1>5. attempted' \in [Commands -> Nat]
    BY <1>1, <1>2, <1>3, CountAttempt, Zenon
<1>6. channel' \subseteq Commands /\ cache \in Nodes /\ retry' \in Seq(Commands) /\ IsInjective(retry')
    BY <1>1, <1>2, <1>3, Zenon DEF CommandTypes, ConnTypes, Distinct
<1>7. /\ at' \in Stations /\ next' \in {"idle", "write", "direct", "ask", "askwrite"}
      /\ cmd' \in Commands \cup {None} /\ target' \in Nodes \cup {None}
    BY <1>1, <1>2, <1>3, Zenon DEF Stations, RouterTypes
<1>8. Control'
    BY <1>1, <1>2, <1>3, <1>4, Different, Zenon DEF Control
<1>9. \A d \in Commands : ~HeldByRouter(d)'
    BY <1>1, <1>2, Different, Zenon DEF HeldByRouter
<1>10. \A d \in Commands : d # c => ~HeldByRouter(d)
    BY <1>3, Zenon DEF HeldByRouter
<1>11. Sent(c, cache) /\ c \notin Range(retry')
    BY <1>1, <1>3, <1>4, Zenon
<1>12. \A d \in Commands : d # c => (d \in Range(retry') <=> d \in Range(retry))
    BY <1>1, Zenon
<1> QED
    BY <1>1, <1>4, <1>5, <1>6, <1>7, <1>8, <1>9, <1>10, <1>11, <1>12, CommandSent, Zenon

LEMMA DirectSentKept ==
    ASSUME ClusterInv, at = "direct", DirectSent
    PROVE  ClusterInv'
<1>1. /\ Accepts(target) /\ attempted' = [attempted EXCEPT ![cmd] = @ + 1] /\ Sent(cmd, target)
      /\ channel' = channel /\ UNCHANGED <<nodeVars, retry, cache, queue, rx, answer>>
      /\ at' = "idle" /\ next' = "idle" /\ cmd' = None /\ target' = None
    BY Zenon DEF DirectSent, Idle
<1>2. rx = None /\ RouterTypes /\ CommandTypes /\ Control /\ ConnTypes /\ Distinct
    BY InHand, Zenon DEF ClusterInv
<1>3. PICK c \in Commands, n \in Nodes : cmd = c /\ target = n
    BY <1>2, Zenon DEF Control
<1>4. answer[c] = "pending" /\ HeldByRouter(c) /\ ~Flying(c) /\ ~Queued(c) /\ c \notin Range(retry)
  <2>1. answer[c] = "pending" /\ HeldByRouter(c)
      BY <1>3, HandKept, Zenon
  <2> QED
      BY <1>3, <2>1, Zenon DEF ClusterInv, Placement, Placed
<1>5. attempted' \in [Commands -> Nat]
    BY <1>1, <1>2, <1>3, CountAttempt, Zenon
<1>6. channel' \subseteq Commands /\ retry' \in Seq(Commands) /\ IsInjective(retry')
    BY <1>1, <1>2, Zenon DEF CommandTypes, ConnTypes, Distinct
<1>7. /\ at' \in Stations /\ next' \in {"idle", "write", "direct", "ask", "askwrite"}
      /\ cmd' \in Commands \cup {None} /\ target' \in Nodes \cup {None}
    BY <1>1, Zenon DEF Stations
<1>8. Control'
    BY <1>1, <1>2, Different, Zenon DEF Control
<1>9. \A d \in Commands : ~HeldByRouter(d)'
    BY <1>1, Different, Zenon DEF HeldByRouter
<1>10. \A d \in Commands : d # c => ~HeldByRouter(d)
    BY <1>3, Zenon DEF HeldByRouter
<1>11. Sent(c, n) /\ Accepts(n) /\ c \notin Range(retry')
    BY <1>1, <1>3, <1>4, Zenon
<1>12. \A d \in Commands : d # c => (d \in Range(retry') <=> d \in Range(retry))
    BY <1>1, Zenon
<1> QED
    BY <1>1, <1>4, <1>5, <1>6, <1>7, <1>8, <1>9, <1>10, <1>11, <1>12, CommandSent, Zenon

(* ... from the retry buffer. *)
LEMMA RetrySentKept ==
    ASSUME ClusterInv, at = "retry", RetrySent
    PROVE  ClusterInv'
<1>1. PICK c : c = Head(retry)
    OBVIOUS
<1>2. /\ retry # <<>> /\ Accepts(cache) /\ attempted' = [attempted EXCEPT ![c] = @ + 1] /\ Sent(c, cache)
      /\ retry' = Tail(retry) /\ channel' = channel /\ UNCHANGED <<nodeVars, cache, queue, rx, answer>>
      /\ UNCHANGED <<at, next, cmd, target>>
    BY <1>1, Zenon DEF RetrySent, pcVars
<1>3. rx = None /\ RouterTypes /\ CommandTypes /\ Control /\ ConnTypes /\ Distinct /\ Placement
    BY InHand, Zenon DEF ClusterInv
<1>4. /\ c \in Commands /\ retry' \in Seq(Commands) /\ IsInjective(retry') /\ c \notin Range(retry')
      /\ Range(retry) = Range(retry') \cup {c}
    BY <1>1, <1>2, <1>3, TailFacts, Zenon DEF ConnTypes, Distinct
<1>5. answer[c] = "pending" /\ ~HeldByRouter(c) /\ ~Flying(c) /\ ~Queued(c)
    BY <1>3, <1>4, Zenon DEF Placement, Placed
<1>6. attempted' \in [Commands -> Nat]
    BY <1>2, <1>3, <1>4, CountAttempt, Zenon
<1>7. channel' \subseteq Commands /\ cache \in Nodes
    BY <1>2, <1>3, Zenon DEF CommandTypes, ConnTypes
<1>8. /\ at' \in Stations /\ next' \in {"idle", "write", "direct", "ask", "askwrite"}
      /\ cmd' \in Commands \cup {None} /\ target' \in Nodes \cup {None}
    BY <1>2, <1>3, Zenon DEF RouterTypes
<1>9. Control'
    BY <1>2, <1>3, Zenon DEF Control
<1>10. \A d \in Commands : HeldByRouter(d)' <=> HeldByRouter(d)
    BY <1>2, Zenon DEF HeldByRouter
<1>11. \A d \in Commands : d # c => (d \in Range(retry') <=> d \in Range(retry))
    BY <1>4, Zenon
<1> QED
    BY <1>2, <1>4, <1>5, <1>6, <1>7, <1>8, <1>9, <1>10, <1>11, CommandSent, Zenon

(* ASKING, which no caller waits for. *)
LEMMA AskingSent ==
    ASSUME ClusterInv, at = "askwrite", Accepts(target), Sent(Asking, target), at' = "asked",
           UNCHANGED <<next, cmd, target, retry, queue, cmdVars, nodeVars, cache, rx>>
    PROVE  ClusterInv'
<1>1. /\ NodeTypes /\ ConnTypes /\ RouterTypes /\ CommandTypes /\ Control /\ Wires /\ Distinct
      /\ Placement /\ EndedReported
    BY Zenon DEF ClusterInv
<1>2. rx = None /\ cmd \in Commands /\ answer[cmd] = "pending"
    BY <1>1, Zenon DEF Control
<1>3. PICK n \in Nodes : target = n
    BY <1>1, Zenon DEF Control
<1>4. UNCHANGED <<owner, importer, others, attempted, channel, answer>> /\ Asking \in Frames
    BY Zenon DEF nodeVars, cmdVars, Frames
<1>5. Asking \notin Range(inflight[n]) /\ Accepts(n) /\ Sent(Asking, n)
    BY <1>1, <1>3, Zenon DEF Wires
<1>6. /\ NodeTypes' /\ inflight' \in [Nodes -> Seq(Frames)] /\ link' = link
      /\ Range(inflight'[n]) = Range(inflight[n]) \cup {Asking}
      /\ \A m \in Nodes : m # n => inflight'[m] = inflight[m]
      /\ \A m \in Nodes : IsInjective(inflight'[m])
      /\ \A m \in Nodes : Asking \in Range(inflight'[m]) => m = n /\ Asking = Asking
      /\ \A m \in Nodes : link[m] = "up" => Len(inflight'[m]) = Len(requests'[m]) + Len(replies'[m])
      /\ \A m \in Nodes : link[m] = "none" =>
            inflight'[m] = <<>> /\ requests'[m] = <<>> /\ replies'[m] = <<>>
    BY <1>4, <1>5, SentFacts, Zenon
<1>7. ConnTypes' /\ RouterTypes' /\ CommandTypes'
    BY <1>1, <1>4, <1>6, Zenon DEF ConnTypes, RouterTypes, CommandTypes, Stations
<1>8. Control'
    BY <1>1, <1>2, <1>4, Zenon DEF Control
<1>9. Wires'
    BY <1>2, <1>3, <1>6, Zenon DEF Wires
<1>10. Distinct' /\ EndedReported'
    BY <1>1, <1>6, Zenon DEF Distinct, EndedReported, Reported
<1>11. ASSUME NEW d \in Commands
       PROVE  Placed(d)'
  <2>1. /\ Queued(d)' <=> Queued(d)
        /\ d \in Range(retry)' <=> d \in Range(retry)
        /\ HeldByRouter(d)' <=> HeldByRouter(d)
      BY <1>4, Zenon DEF Queued, HeldByRouter
  <2>2. \A m \in Nodes : d \in Range(inflight[m])' <=> d \in Range(inflight[m])
      BY <1>6, Different, Zenon
  <2> QED
      BY <1>1, <1>4, <2>1, <2>2, PlacedStays, Zenon DEF Placement
<1> QED
    BY <1>6, <1>7, <1>8, <1>9, <1>10, <1>11, Zenon DEF ClusterInv, Placement

LEMMA WriteMissingKept ==
    ASSUME ClusterInv, at = "write", WriteMissing
    PROVE  ClusterInv'
<1>1. Ends(answer) /\ attempted' = [attempted EXCEPT ![cmd] = @ + 1]
    BY Zenon DEF WriteMissing
<1>2. CommandTypes /\ cmd \in Commands
    BY Zenon DEF ClusterInv, Control
<1>3. attempted' \in [Commands -> Nat]
    BY <1>1, <1>2, CountAttempt, Zenon
<1>4. answer \in [Commands -> {"unsent", "pending", "ok", "error", "canceled"}]
    BY <1>2, Zenon DEF CommandTypes
<1> QED
    BY <1>1, <1>3, <1>4, EndsKept, Zenon

LEMMA RetryTooManyKept ==
    ASSUME ClusterInv, at = "retry", RetryTooMany
    PROVE  ClusterInv'
<1>1. PICK c : c = Head(retry)
    OBVIOUS
<1>2. /\ retry # <<>> /\ retry' = Tail(retry) /\ answer' = [answer EXCEPT ![c] = "error"]
      /\ UNCHANGED <<nodeVars, wireVars, link, inflight, cache, queue, pcVars, rx, attempted, channel>>
    BY <1>1, Zenon DEF RetryTooMany, Answered
<1>3. /\ NodeTypes /\ ConnTypes /\ RouterTypes /\ CommandTypes /\ Control /\ Wires /\ Distinct
      /\ Placement /\ EndedReported
    BY Zenon DEF ClusterInv
<1>4. UNCHANGED <<owner, importer, others, requests, replies, at, next, cmd, target>>
    BY <1>2, Zenon DEF nodeVars, wireVars, pcVars
<1>5. /\ c \in Commands /\ retry' \in Seq(Commands) /\ IsInjective(retry') /\ c \notin Range(retry')
      /\ Range(retry) = Range(retry') \cup {c}
    BY <1>1, <1>2, <1>3, TailFacts, Zenon DEF ConnTypes, Distinct
<1>6. answer[c] = "pending" /\ ~HeldByRouter(c) /\ ~Flying(c) /\ ~Queued(c)
    BY <1>3, <1>5, Zenon DEF Placement, Placed
<1>7. /\ answer' \in [Commands -> {"unsent", "pending", "ok", "error", "canceled"}]
      /\ \A d \in Commands : answer'[d] = IF d = c THEN "error" ELSE answer[d]
    BY <1>2, <1>3, <1>5, Zenon DEF CommandTypes
<1>8. cmd # c
    BY <1>6, Zenon DEF HeldByRouter
<1>9. NodeTypes' /\ ConnTypes' /\ RouterTypes' /\ CommandTypes'
    BY <1>2, <1>3, <1>4, <1>5, <1>7, Zenon DEF NodeTypes, ConnTypes, RouterTypes, CommandTypes
<1>10. Control' /\ Wires'
    BY <1>2, <1>3, <1>4, <1>7, <1>8, Zenon DEF Control, Wires
<1>11. Distinct' /\ EndedReported'
    BY <1>2, <1>3, <1>4, <1>5, Zenon DEF Distinct, EndedReported, Reported
<1>12. ASSUME NEW d \in Commands
       PROVE  Placed(d)'
  <2>1. /\ Queued(d)' <=> Queued(d)
        /\ \A n \in Nodes : d \in Range(inflight[n])' <=> d \in Range(inflight[n])
        /\ Flying(d)' <=> Flying(d)
      BY <1>2, Zenon DEF Queued, Flying
  <2>2. HeldByRouter(d)' <=> HeldByRouter(d)
      BY <1>2, <1>4, <1>7, <1>8, Zenon DEF HeldByRouter
  <2>3. CASE d = c
    <3>1. ~Queued(d)' /\ d \notin Range(retry)' /\ ~HeldByRouter(d)' /\ ~Flying(d)' /\ answer'[d] # "pending"
        BY <1>5, <1>6, <1>7, <2>1, <2>2, <2>3, Zenon
    <3> QED
        BY <3>1, Zenon DEF Placed, Flying
  <2>4. CASE d # c
    <3>1. d \in Range(retry)' <=> d \in Range(retry)
        BY <1>5, <2>4, Zenon
    <3> QED
        BY <1>3, <1>7, <2>1, <2>2, <2>4, <3>1, PlacedStays, Zenon DEF Placement
  <2> QED
      BY <2>3, <2>4, Zenon
<1> QED
    BY <1>9, <1>10, <1>11, <1>12, Zenon DEF ClusterInv, Placement

(* What is drained is neither in the retry buffer nor in the router's hands. *)
LEMMA DrainedApart ==
    ASSUME ClusterInv, at \notin {"wait", "asked"}, NEW order \in Seq(Nodes), IsInjective(order),
           NEW left \in Drained(order)
    PROVE  /\ left \in Seq(Commands) /\ IsInjective(left)
           /\ Range(retry) \cap Range(left) = {} /\ cmd \notin Range(left)
           /\ \A c \in Commands : c \in Range(left) => ~Lost(c, Range(order))
<1>1. ConnTypes /\ Wires /\ Distinct /\ Placement
    BY Zenon DEF ClusterInv
<1>2. left \in Seq(Commands) /\ IsInjective(left) /\ Range(left) = UNION {Unread(n) : n \in Range(order)}
    BY <1>1, DrainedCommands, Zenon
<1>3. Range(left) \subseteq Commands /\ Range(order) \subseteq Nodes /\ Range(retry) \subseteq Commands
  <2>1. retry \in Seq(Commands)
      BY <1>1, Zenon DEF ConnTypes
  <2> QED
      BY <1>2, <2>1 DEF Range
<1>4. ASSUME NEW c \in Range(left)
      PROVE  c \in Commands /\ Flying(c) /\ c \notin Range(retry) /\ cmd # c
  <2>1. c \in Commands /\ Flying(c)
      BY <1>2, <1>3, Zenon DEF Unread, Flying
  <2>2. c \notin Range(retry)
      BY <1>1, <2>1, Zenon DEF Placement, Placed
  <2>3. cmd # c
      BY <2>1, HandKept, Zenon
  <2> QED
      BY <2>1, <2>2, <2>3, Zenon
<1>5. ASSUME NEW c \in Commands, c \in Range(left)
      PROVE  ~Lost(c, Range(order))
  <2>1. Range(order) \in SUBSET Nodes /\ \E n \in Range(order) : c \in Unread(n)
      BY <1>2, <1>3, <1>5, Zenon
  <2> QED
      BY <1>1, <2>1, LostFacts, Zenon
<1> QED
    BY <1>2, <1>4, <1>5, Zenon

(* Written::Disconnect. *)
LEMMA WriteFailsKept ==
    ASSUME ClusterInv, at = "write", WriteFails
    PROVE  ClusterInv'
<1>1. PICK final : final = (attempted[cmd] + 1 >= MaxAttempts)
    OBVIOUS
<1>2. /\ attempted' = [attempted EXCEPT ![cmd] = @ + 1]
      /\ at' = "idle" /\ next' = "idle" /\ cmd' = None /\ target' = None
      /\ UNCHANGED <<nodeVars, cache, rx>>
      /\ answer' = IF final THEN [AnswersAfter({cache}) EXCEPT ![cmd] = "error"]
                   ELSE AnswersAfter({cache})
    BY <1>1, Zenon DEF WriteFails, Idle
<1>2a. PICK held :
          /\ held = IF final \/ cmd \in pipelined THEN {} ELSE {cmd}
          /\ Closing(<<cache>>, {}, held)
    BY <1>1, Zenon DEF WriteFails
<1>3. PICK left \in Drained(<<cache>>) : retry' = retry \o left \o (IF final THEN <<>> ELSE <<cmd>>)
    BY <1>1, Zenon DEF WriteFails
<1>4. rx = None /\ RouterTypes /\ CommandTypes /\ Control /\ ConnTypes /\ NodeTypes /\ Distinct
      /\ Placement /\ EndedReported
    BY InHand, Zenon DEF ClusterInv
<1>5. PICK c \in Commands : cmd = c
    BY <1>4, Zenon DEF Control
<1>6. PICK order : order = <<cache>>
    OBVIOUS
<1>7. order \in Seq(Nodes) /\ Range(order) = {cache} /\ IsInjective(order)
  <2>1. cache \in Nodes
      BY <1>4, Zenon DEF ConnTypes
  <2> QED
      BY <1>6, <2>1, SingleFacts, Zenon
<1>8. /\ link' \in [Nodes -> {"none", "up", "down", "ended"}]
      /\ inflight' \in [Nodes -> Seq(Frames)] /\ requests' \in [Nodes -> Seq(Frames)]
      /\ replies' \in [Nodes -> Seq(Replies)]
      /\ queue' \in Seq(Messages) /\ channel' \subseteq Commands
      /\ \A n \in Nodes : inflight'[n] = IF n \in Range(order) THEN <<>> ELSE inflight[n]
      /\ \A n \in Nodes : link'[n] = "ended" => link[n] = "ended" /\ n \notin Range(order)
      /\ Reported \subseteq Reported'
      /\ \A d \in Commands : Queued(d)' <=> Queued(d)
      /\ \A i, j \in DOMAIN queue' :
            queue'[i].cmd = queue'[j].cmd /\ queue'[i].cmd \in Commands => i = j
      /\ Wires'
  <2>1. {} \in SUBSET Nodes /\ \A n \in {} : n \in Range(order) \/ link[n] = "none"
      BY Zenon
  <2>2. held \in SUBSET Commands
      BY <1>5, <1>2a, Zenon
  <2> QED
      BY <1>6, <1>7, <1>2a, <2>1, <2>2, ClosingFacts, Zenon
<1>9. /\ left \in Drained(order) /\ left \in Seq(Commands) /\ IsInjective(left)
      /\ Range(retry) \cap Range(left) = {} /\ c \notin Range(left)
    BY <1>3, <1>5, <1>6, <1>7, DrainedApart, Zenon
<1>10. /\ answer[c] = "pending" /\ HeldByRouter(c) /\ ~Flying(c) /\ ~Queued(c) /\ c \notin Range(retry)
       /\ AnswersAfter({cache})[c] = "pending"
  <2>1. answer[c] = "pending" /\ HeldByRouter(c) /\ AnswersAfter({cache})[c] = "pending"
    <3>1. {cache} \in SUBSET Nodes
        BY <1>4, Zenon DEF ConnTypes
    <3> QED
        BY <1>5, <3>1, HandKept, Zenon
  <2> QED
      BY <1>4, <2>1, Zenon DEF Placement, Placed
<1>11. AnswersAfter({cache}) \in [Commands -> {"unsent", "pending", "ok", "error", "canceled"}]
    BY <1>4, AnswersTyped, Zenon
<1>12. /\ answer' \in [Commands -> {"unsent", "pending", "ok", "error", "canceled"}]
       /\ \A d \in Commands : d # c => answer'[d] = AnswersAfter({cache})[d]
       /\ answer'[c] = "pending" <=> ~final
  <2>1. CASE final
      BY <1>2, <1>5, <1>11, <2>1, Zenon
  <2>2. CASE ~final
      BY <1>2, <1>5, <1>10, <1>11, <2>2, Zenon
  <2> QED
      BY <2>1, <2>2, Zenon
<1>13. PICK tail : tail = IF final THEN <<>> ELSE <<c>>
    OBVIOUS
<1>14. tail \in Seq(Commands) /\ IsInjective(tail) /\ Range(tail) = IF final THEN {} ELSE {c}
    BY <1>13, EmptyFacts, SingleFacts, Zenon
<1>15. /\ retry \o left \in Seq(Commands) /\ IsInjective(retry \o left)
       /\ Range(retry \o left) = Range(retry) \cup Range(left)
    BY <1>4, <1>9, JoinFacts, Zenon DEF ConnTypes, Distinct
<1>16. /\ retry' \in Seq(Commands) /\ IsInjective(retry')
       /\ Range(retry') = Range(retry) \cup Range(left) \cup (IF final THEN {} ELSE {c})
  <2>1. PICK base : base = retry \o left
      OBVIOUS
  <2>2. base \in Seq(Commands) /\ IsInjective(base) /\ Range(base) = Range(retry) \cup Range(left)
      BY <1>15, <2>1, Zenon
  <2>3. Range(base) \cap Range(tail) = {}
      BY <1>9, <1>10, <1>14, <2>2, Zenon
  <2>4. retry' = base \o tail
      BY <1>3, <1>5, <1>13, <2>1, Zenon
  <2>5. /\ base \o tail \in Seq(Commands) /\ IsInjective(base \o tail)
        /\ Range(base \o tail) = Range(base) \cup Range(tail)
    <3>1. /\ base \in Seq(Commands) /\ tail \in Seq(Commands) /\ IsInjective(base) /\ IsInjective(tail)
        BY <1>14, <2>2, Zenon
    <3> QED
        BY <2>3, <3>1, JoinFacts, Zenon
  <2> QED
      BY <1>14, <2>2, <2>4, <2>5, Zenon
<1>17. attempted' \in [Commands -> Nat]
    BY <1>2, <1>4, <1>5, CountAttempt, Zenon
<1>18. NodeTypes' /\ ConnTypes'
    BY <1>2, <1>4, <1>8, <1>16, Zenon DEF NodeTypes, ConnTypes, nodeVars
<1>19. RouterTypes' /\ CommandTypes'
    BY <1>2, <1>4, <1>8, <1>12, <1>17, Zenon DEF RouterTypes, CommandTypes, Stations
<1>20. Control'
    BY <1>2, <1>4, Different, Zenon DEF Control
<1>21. Distinct'
    BY <1>4, <1>8, <1>16, EmptyFacts, Zenon DEF Distinct
<1>22. EndedReported'
    BY <1>4, <1>8, EndedKept, Zenon
<1>23. \A d \in Commands : ~HeldByRouter(d)'
    BY <1>2, Different, Zenon DEF HeldByRouter
<1>24. ASSUME NEW d \in Commands
       PROVE  Placed(d)'
  <2>1. CASE d = c
    <3>1. \A n \in Nodes : d \notin Range(inflight'[n])
        BY <1>8, <1>10, <2>1, EmptyFacts, Zenon DEF Flying
    <3>2. ~Flying(d)' /\ ~Queued(d)' /\ ~HeldByRouter(d)'
        BY <1>8, <1>10, <1>23, <2>1, <3>1, Zenon DEF Flying
    <3>3. d \in Range(retry)' <=> answer'[d] = "pending"
        BY <1>9, <1>10, <1>12, <1>16, <2>1, Zenon
    <3> QED
        BY <3>1, <3>2, <3>3, Zenon DEF Placed
  <2>2. CASE d # c
    <3>1. d \in Range(retry)' <=> d \in Range(retry) \cup Range(left)
        BY <1>16, <2>2, Zenon
    <3>2. answer'[d] = AnswersAfter(Range(order))[d] /\ (Queued(d)' <=> Queued(d))
        BY <1>7, <1>8, <1>12, <2>2, Zenon
    <3>3. HeldByRouter(d)' <=> HeldByRouter(d)
        BY <1>5, <1>23, <2>2, Zenon DEF HeldByRouter
    <3> QED
        BY <1>7, <1>8, <1>9, <3>1, <3>2, <3>3, ClosedPlaced, Zenon
  <2> QED
      BY <2>1, <2>2, Zenon
<1> QED
    BY <1>8, <1>18, <1>19, <1>20, <1>21, <1>22, <1>24, Zenon DEF ClusterInv, Placement

(* The commands of the closed connections go before or after the one whose write failed. *)
LEMMA JoinedEitherWay ==
    ASSUME NEW S, NEW f \in Seq(S), NEW g \in Seq(S), IsInjective(f), IsInjective(g),
           Range(f) \cap Range(g) = {}, NEW s, s = f \o g \/ s = g \o f
    PROVE  s \in Seq(S) /\ IsInjective(s) /\ Range(s) = Range(g) \cup Range(f)
<1>1. Range(g) \cap Range(f) = {}
    BY Zenon
<1>2. f \o g \in Seq(S) /\ IsInjective(f \o g) /\ Range(f \o g) = Range(f) \cup Range(g)
    BY JoinFacts, Zenon
<1>3. g \o f \in Seq(S) /\ IsInjective(g \o f) /\ Range(g \o f) = Range(g) \cup Range(f)
    BY <1>1, JoinFacts, Zenon
<1>4. CASE s = f \o g
    BY <1>2, <1>4
<1>5. CASE s = g \o f
    BY <1>3, <1>5
<1> QED
    BY <1>4, <1>5, Zenon

(* router.retry_buffer when a write fails. *)
LEMMA RetryFailsKept ==
    ASSUME ClusterInv, at = "retry", RetryFails
    PROVE  ClusterInv'
<1>1. PICK c, final : c = Head(retry) /\ final = (link[cache] # "none" /\ attempted[c] + 1 >= MaxAttempts)
    OBVIOUS
<1>2. PICK failed, dropped : failed = (IF final THEN <<>> ELSE <<c>>) /\ dropped = Range(Tail(retry))
    OBVIOUS
<1>3. /\ retry # <<>> /\ attempted' = [attempted EXCEPT ![c] = @ + 1]
      /\ answer' = [d \in Commands |->
             IF d = c /\ final THEN "error"
             ELSE IF d \in dropped THEN "canceled" ELSE AnswersAfter(Writers)[d]]
      /\ at' = next /\ next' = "idle" /\ UNCHANGED <<cmd, target, nodeVars, cache, rx>>
    BY <1>1, <1>2, Zenon DEF RetryFails
<1>4. PICK order \in Orders(Writers) :
         /\ Closing(order, {}, {})
         /\ \E left \in Drained(order) :
               retry' = IF link[cache] = "none" THEN failed \o left ELSE left \o failed
    BY <1>1, <1>2, Zenon DEF RetryFails
<1>5. PICK left \in Drained(order) : retry' = failed \o left \/ retry' = left \o failed
    BY <1>4, Zenon
<1>6. rx = None /\ RouterTypes /\ CommandTypes /\ Control /\ ConnTypes /\ NodeTypes /\ Wires /\ Distinct
      /\ Placement
    BY InHand, Zenon DEF ClusterInv
<1>7. /\ c \in Commands /\ Tail(retry) \in Seq(Commands) /\ c \notin dropped
      /\ Range(retry) = dropped \cup {c}
    BY <1>1, <1>2, <1>3, <1>6, TailFacts, Zenon DEF ConnTypes, Distinct
<1>8. order \in Seq(Nodes) /\ IsInjective(order) /\ Range(order) = Writers /\ Writers \in SUBSET Nodes
  <2>1. IsFiniteSet(Writers) /\ Writers \subseteq Nodes
      BY Different, FS_Subset, Zenon DEF Writers
  <2>2. order \in Seq(Writers) /\ IsInjective(order) /\ Range(order) = Writers
      BY <2>1, OrderFacts, Zenon
  <2> QED
      BY <2>1, <2>2
<1>9. /\ link' \in [Nodes -> {"none", "up", "down", "ended"}]
      /\ inflight' \in [Nodes -> Seq(Frames)] /\ requests' \in [Nodes -> Seq(Frames)]
      /\ replies' \in [Nodes -> Seq(Replies)]
      /\ queue' \in Seq(Messages) /\ channel' \subseteq Commands
      /\ \A n \in Nodes : inflight'[n] = IF n \in Range(order) THEN <<>> ELSE inflight[n]
      /\ \A n \in Nodes : link'[n] = "ended" => link[n] = "ended" /\ n \notin Range(order)
      /\ \A d \in Commands : Queued(d)' <=> Queued(d)
      /\ \A i, j \in DOMAIN queue' :
            queue'[i].cmd = queue'[j].cmd /\ queue'[i].cmd \in Commands => i = j
      /\ Wires'
  <2>1. {} \in SUBSET Nodes /\ \A n \in {} : n \in Range(order) \/ link[n] = "none"
      BY Zenon
  <2> QED
      BY <1>4, <1>8, <2>1, NoneHeld, ClosingFacts, Zenon
<1>10. \A n \in Nodes : inflight'[n] = <<>> /\ link'[n] # "ended"
    BY <1>6, <1>8, <1>9, Zenon DEF Wires, Writers
<1>11. left \in Seq(Commands) /\ IsInjective(left) /\ Range(retry) \cap Range(left) = {}
    BY <1>8, DrainedApart, Zenon
<1>12. failed \in Seq(Commands) /\ IsInjective(failed) /\ Range(failed) = IF final THEN {} ELSE {c}
    BY <1>2, <1>7, EmptyFacts, SingleFacts, Zenon
<1>13. /\ retry' \in Seq(Commands) /\ IsInjective(retry')
       /\ Range(retry') = Range(left) \cup (IF final THEN {} ELSE {c})
  <2>1. Range(failed) \cap Range(left) = {} /\ Range(left) \cap Range(failed) = {}
      BY <1>7, <1>11, <1>12, Zenon
  <2>2. failed \in Seq(Commands) /\ IsInjective(failed) /\ left \in Seq(Commands) /\ IsInjective(left)
      BY <1>11, <1>12, Zenon
  <2>3. /\ retry' \in Seq(Commands) /\ IsInjective(retry')
        /\ Range(retry') = Range(left) \cup Range(failed)
      BY <1>5, <2>1, <2>2, JoinedEitherWay, Zenon
  <2> QED
      BY <1>12, <2>3, Zenon
<1>14. attempted' \in [Commands -> Nat]
    BY <1>3, <1>6, <1>7, CountAttempt, Zenon
<1>15. AnswersAfter(Writers) \in [Commands -> {"unsent", "pending", "ok", "error", "canceled"}]
    BY <1>6, AnswersTyped, Zenon
<1>16. /\ answer' \in [Commands -> {"unsent", "pending", "ok", "error", "canceled"}]
       /\ \A d \in Commands : d \in dropped => answer'[d] # "pending"
       /\ \A d \in Commands : d # c /\ d \notin dropped => answer'[d] = AnswersAfter(Writers)[d]
       /\ final => answer'[c] = "error"
       /\ ~final => answer'[c] = AnswersAfter(Writers)[c]
    BY <1>3, <1>7, <1>15, Zenon
<1>17. ASSUME NEW d \in Commands, d \in Range(retry)
       PROVE  /\ answer[d] = "pending" /\ ~Queued(d) /\ ~Flying(d) /\ ~HeldByRouter(d) /\ cmd # d
  <2>1. answer[d] = "pending" /\ ~Queued(d) /\ ~Flying(d) /\ ~HeldByRouter(d)
      BY <1>6, <1>17, Zenon DEF Placement, Placed
  <2> QED
      BY <2>1, HandKept, Zenon
<1>18. ~final => answer'[c] = "pending"
  <2>1. ~Lost(c, Writers)
      BY <1>6, <1>7, <1>8, <1>17, LostFacts, Zenon
  <2>2. AnswersAfter(Writers)[c] = answer[c]
      BY <1>7, <2>1, Zenon DEF AnswersAfter, Lost
  <2> QED
      BY <1>7, <1>16, <1>17, <2>2, Zenon
<1>19. cmd \in Commands => cmd # c /\ cmd \notin dropped /\ answer'[cmd] = "pending"
  <2>1. cmd \in Commands => cmd \notin Range(retry)
      BY <1>17, Zenon
  <2>2. cmd \in Commands => AnswersAfter(Writers)[cmd] = "pending"
      BY <1>8, HandKept, Zenon
  <2> QED
      BY <1>7, <1>16, <2>1, <2>2, Zenon
<1>20. NodeTypes' /\ ConnTypes'
    BY <1>3, <1>6, <1>9, <1>13, Zenon DEF NodeTypes, ConnTypes, nodeVars
<1>21. /\ cmd = None <=> next = "idle"
       /\ cmd \in Commands \/ cmd = None
       /\ next \in {"idle", "write", "direct", "ask", "askwrite"}
       /\ next \in {"ask", "askwrite", "direct"} => target \in Nodes
    BY <1>6, Zenon DEF Control, RouterTypes
<1>22. next \in Stations /\ next \notin {"retry", "policy", "reconnect", "sync", "once", "wait", "asked", "ended"}
    BY <1>21 DEF Stations
<1>23. RouterTypes' /\ CommandTypes'
    BY <1>3, <1>6, <1>9, <1>14, <1>16, <1>22, Zenon DEF RouterTypes, CommandTypes
<1>24. Control'
    BY <1>3, <1>6, <1>19, <1>21, <1>22, Zenon DEF Control
<1>25. Distinct'
    BY <1>9, <1>10, <1>13, EmptyFacts, Zenon DEF Distinct
<1>26. EndedReported'
    BY <1>10, Zenon DEF EndedReported
<1>27. at' # "wait"
    BY <1>3, <1>22, Zenon
<1>28. ASSUME NEW d \in Commands
       PROVE  Placed(d)'
  <2>1. \A n \in Nodes : d \notin Range(inflight'[n])
      BY <1>10, EmptyFacts, Zenon
  <2>2. ~Flying(d)'
      BY <2>1, Zenon DEF Flying
  <2>3. CASE d \in Range(retry)
    <3>1. ~Queued(d)' /\ ~HeldByRouter(d)'
        BY <1>3, <1>9, <1>17, <2>3, Zenon DEF HeldByRouter
    <3>2. d \in Range(retry)' <=> answer'[d] = "pending"
      <4>1. CASE d = c
          BY <1>7, <1>11, <1>13, <1>16, <1>18, <2>3, <4>1, Zenon
      <4>2. CASE d # c
          BY <1>7, <1>11, <1>13, <1>16, <2>3, <4>2, Zenon
      <4> QED
          BY <4>1, <4>2, Zenon
    <3> QED
        BY <2>1, <2>2, <3>1, <3>2, Zenon DEF Placed
  <2>4. CASE d \notin Range(retry)
    <3>1. d # c /\ d \notin dropped
        BY <1>7, <2>4, Zenon
    <3>2. d \in Range(retry)' <=> d \in Range(retry) \cup Range(left)
        BY <1>13, <2>4, <3>1, Zenon
    <3>3. answer'[d] = AnswersAfter(Range(order))[d] /\ (Queued(d)' <=> Queued(d))
        BY <1>8, <1>9, <1>16, <3>1, Zenon
    <3>4. HeldByRouter(d)' <=> HeldByRouter(d)
        BY <1>3, <1>6, <1>19, <1>27, HandKept, Zenon DEF HeldByRouter
    <3> QED
        BY <1>8, <1>9, <3>2, <3>3, <3>4, ClosedPlaced, Zenon
  <2> QED
      BY <2>3, <2>4, Zenon
<1> QED
    BY <1>9, <1>20, <1>23, <1>24, <1>25, <1>26, <1>28, Zenon DEF ClusterInv, Placement

(* The ASKING command cannot be written. *)
LEMMA AskingFails ==
    ASSUME ClusterInv, at = "askwrite", Closing(<<target>>, {}, {}), NEW left \in Drained(<<target>>),
           retry' = retry \o left, answer' = AnswersAfter({target}), at' = "once",
           UNCHANGED <<next, cmd, target, attempted, nodeVars, cache, rx>>
    PROVE  ClusterInv'
<1>1. rx = None /\ RouterTypes /\ CommandTypes /\ Control /\ ConnTypes /\ NodeTypes /\ Distinct
      /\ Placement /\ EndedReported
    BY InHand, Zenon DEF ClusterInv
<1>2. cmd \in Commands /\ target \in Nodes
    BY <1>1, Zenon DEF Control
<1>3. PICK order : order = <<target>>
    OBVIOUS
<1>4. order \in Seq(Nodes) /\ Range(order) = {target} /\ IsInjective(order)
    BY <1>2, <1>3, SingleFacts, Zenon
<1>5. /\ link' \in [Nodes -> {"none", "up", "down", "ended"}]
      /\ inflight' \in [Nodes -> Seq(Frames)] /\ requests' \in [Nodes -> Seq(Frames)]
      /\ replies' \in [Nodes -> Seq(Replies)]
      /\ queue' \in Seq(Messages) /\ channel' \subseteq Commands
      /\ \A n \in Nodes : inflight'[n] = IF n \in Range(order) THEN <<>> ELSE inflight[n]
      /\ \A n \in Nodes : link'[n] = "ended" => link[n] = "ended" /\ n \notin Range(order)
      /\ Reported \subseteq Reported'
      /\ \A d \in Commands : Queued(d)' <=> Queued(d)
      /\ \A i, j \in DOMAIN queue' :
            queue'[i].cmd = queue'[j].cmd /\ queue'[i].cmd \in Commands => i = j
      /\ Wires'
  <2>1. {} \in SUBSET Nodes /\ \A n \in {} : n \in Range(order) \/ link[n] = "none"
      BY Zenon
  <2> QED
      BY <1>3, <1>4, <2>1, NoneHeld, ClosingFacts, Zenon
<1>6. /\ left \in Drained(order) /\ left \in Seq(Commands) /\ IsInjective(left)
      /\ Range(retry) \cap Range(left) = {}
    BY <1>3, <1>4, DrainedApart, Zenon
<1>7. /\ retry' \in Seq(Commands) /\ IsInjective(retry') /\ Range(retry') = Range(retry) \cup Range(left)
  <2>1. retry \in Seq(Commands) /\ IsInjective(retry)
      BY <1>1, Zenon DEF ConnTypes, Distinct
  <2>2. /\ retry \o left \in Seq(Commands) /\ IsInjective(retry \o left)
        /\ Range(retry \o left) = Range(retry) \cup Range(left)
      BY <1>6, <2>1, JoinFacts, Zenon
  <2> QED
      BY <2>2
<1>8. answer[cmd] = "pending" /\ answer'[cmd] = "pending"
  <2>1. {target} \in SUBSET Nodes
      BY <1>2, Zenon
  <2> QED
      BY <1>2, <2>1, HandKept, Zenon
<1>9. answer' \in [Commands -> {"unsent", "pending", "ok", "error", "canceled"}]
    BY <1>1, AnswersTyped, Zenon
<1>10. NodeTypes' /\ ConnTypes'
    BY <1>1, <1>5, <1>7, Zenon DEF NodeTypes, ConnTypes, nodeVars
<1>11. RouterTypes' /\ CommandTypes'
    BY <1>1, <1>5, <1>9, Zenon DEF RouterTypes, CommandTypes, Stations
<1>12. Control'
    BY <1>1, <1>2, <1>8, Zenon DEF Control
<1>13. Distinct'
    BY <1>1, <1>5, <1>7, EmptyFacts, Zenon DEF Distinct
<1>14. EndedReported'
    BY <1>1, <1>5, EndedKept, Zenon
<1>15. ASSUME NEW d \in Commands
       PROVE  Placed(d)'
  <2>1. HeldByRouter(d)' <=> HeldByRouter(d)
      BY <1>8, Zenon DEF HeldByRouter
  <2>2. d \in Range(retry)' <=> d \in Range(retry) \cup Range(left)
      BY <1>7, Zenon
  <2>3. answer'[d] = AnswersAfter(Range(order))[d] /\ (Queued(d)' <=> Queued(d))
      BY <1>4, <1>5, Zenon
  <2> QED
      BY <1>4, <1>5, <1>6, <2>1, <2>2, <2>3, ClosedPlaced, Zenon
<1> QED
    BY <1>5, <1>10, <1>11, <1>12, <1>13, <1>14, <1>15, Zenon DEF ClusterInv, Placement

LEMMA AskWriteKept ==
    ASSUME ClusterInv, AskWrite
    PROVE  ClusterInv'
<1>1. at = "askwrite" /\ UNCHANGED <<nodeVars, cache, rx>>
    BY Zenon DEF AskWrite
<1>2. CASE Accepts(target) /\ Sent(Asking, target) /\ Goto("asked") /\ UNCHANGED <<retry, queue, cmdVars>>
    BY <1>1, <1>2, AskingSent, Zenon DEF Goto
<1>3. CASE /\ Refuses(target) /\ Closing(<<target>>, {}, {})
           /\ \E left \in Drained(<<target>>) : retry' = retry \o left
           /\ answer' = AnswersAfter({target}) /\ Goto("once") /\ UNCHANGED attempted
  <2>1. PICK left \in Drained(<<target>>) : retry' = retry \o left
      BY <1>3, Zenon
  <2> QED
      BY <1>1, <1>3, <2>1, AskingFails, Zenon DEF Goto
<1>4. CASE Goto("once") /\ UNCHANGED <<wireVars, connVars, queue, cmdVars>>
  <2>1. /\ at' = "once" /\ next' = next /\ rx' = rx /\ attempted' = attempted
        /\ UNCHANGED <<nodeVars, wireVars, connVars, cache, queue, channel, answer, cmd, target>>
      BY <1>1, <1>4, Zenon DEF Goto, cmdVars
  <2>2. rx = None /\ RouterTypes /\ CommandTypes /\ Control /\ (cmd \in Commands => answer[cmd] = "pending")
      BY <1>1, InHand, Zenon
  <2>3. cmd \in Commands /\ target \in Nodes /\ next \in {"idle", "write", "direct", "ask", "askwrite"}
      BY <1>1, <2>2, Zenon DEF Control, RouterTypes
  <2>4. attempted' \in [Commands -> Nat]
      BY <2>1, <2>2, Zenon DEF CommandTypes
  <2> QED
      BY <1>1, <2>1, <2>2, <2>3, <2>4, RouterMoves, Zenon DEF Stations
<1> QED
    BY <1>2, <1>3, <1>4, Zenon DEF AskWrite

-----------------------------------------------------------------------------
(* The theorems. *)

LEMMA InitClusterInv ==
    Init => ClusterInv
<1> SUFFICES ASSUME Init
             PROVE  ClusterInv
    OBVIOUS
<1>1. /\ owner \in Nodes /\ others \subseteq Nodes /\ importer = None
      /\ requests = [n \in Nodes |-> <<>>] /\ replies = [n \in Nodes |-> <<>>]
      /\ link = [n \in Nodes |-> IF n \in Primaries THEN "up" ELSE "none"]
      /\ inflight = [n \in Nodes |-> <<>>] /\ cache = owner /\ queue = <<>> /\ retry = <<>>
      /\ at = "idle" /\ next = "idle" /\ cmd = None /\ target = None /\ rx = None
      /\ attempted = [c \in Commands |-> 0] /\ channel = {} /\ answer = [c \in Commands |-> "unsent"]
    BY Zenon DEF Init
<1>2. NodeTypes /\ ConnTypes
    BY <1>1, EmptyFacts, Zenon DEF NodeTypes, ConnTypes
<1>3. RouterTypes
    BY <1>1, EmptyFacts, Zenon DEF RouterTypes, Stations
<1>4. CommandTypes
    BY <1>1 DEF CommandTypes
<1>5. Control
    BY <1>1, Different, Zenon DEF Control
<1>6. Wires
  <2>1. \A n \in Nodes : inflight[n] = <<>> /\ requests[n] = <<>> /\ replies[n] = <<>>
      BY <1>1, Zenon
  <2>2. Len(<<>>) = Len(<<>>) + Len(<<>>) /\ Range(<<>>) = {}
    <3>1. 0 = 0 + 0
        OBVIOUS
    <3> QED
        BY <3>1, EmptyFacts, Zenon
  <2> QED
      BY <2>1, <2>2, Zenon DEF Wires
<1>7. \A n \in Nodes : inflight[n] = <<>> /\ link[n] # "ended"
    BY <1>1, Zenon
<1>8. DOMAIN queue = {} /\ Range(retry) = {} /\ IsInjective(retry)
      /\ \A n \in Nodes : Range(inflight[n]) = {} /\ IsInjective(inflight[n])
  <2>1. DOMAIN queue = {}
      BY <1>1
  <2> QED
      BY <1>1, <1>7, <2>1, EmptyFacts, Zenon
<1>9. Distinct
    BY <1>8, Zenon DEF Distinct
<1>10. \A c \in Commands : answer[c] = "unsent"
    BY <1>1, Zenon
<1>11. Placement
    BY <1>1, <1>8, <1>10, Different, Zenon DEF Placement, Placed, Queued, Flying, HeldByRouter
<1>12. EndedReported
    BY <1>7, Zenon DEF EndedReported
<1> QED
    BY <1>2, <1>3, <1>4, <1>5, <1>6, <1>9, <1>11, <1>12, Zenon DEF ClusterInv

LEMMA StepKeepsClusterInv ==
    ClusterInv /\ [Next]_vars => ClusterInv'
<1> SUFFICES ASSUME ClusterInv, [Next]_vars
             PROVE  ClusterInv'
    OBVIOUS
<1>1. CASE \E c \in Commands : Submit(c)
    BY <1>1, SubmitKept, Zenon
<1>2. CASE Migrate \/ MigrationEnds
    BY <1>2, MigrationKept, Zenon
<1>3. CASE \E n \in Nodes : Serve(n) \/ Break(n) \/ ReadReply(n) \/ ReaderEnds(n)
    BY <1>3, ServeKept, BreakKept, ReadReplyKept, ReaderEndsKept, Zenon
<1>4. CASE Take
    BY <1>4, TakeKept, Zenon
<1>5. CASE Write
    BY <1>5, GiveUpKept, WriteSentKept, WriteFailsKept, WriteMissingKept, Zenon DEF Write
<1>6. CASE Wait
    BY <1>6, WaitKept, Zenon
<1>7. CASE Retry
    BY <1>7, RetryDoneKept, RetryTooManyKept, RetrySentKept, RetryFailsKept, Zenon DEF Retry
<1>8. CASE Sync \/ Policy \/ Reconnect
    BY <1>8, SyncKept, PolicyKept, ReconnectKept, Zenon
<1>9. CASE AskCheck \/ AskWrite \/ Asked
    BY <1>9, AskCheckKept, AskWriteKept, AskedKept, Zenon
<1>10. CASE Direct
    BY <1>10, GiveUpKept, DirectSentKept, DirectFailsKept, Zenon DEF Direct
<1>11. CASE UNCHANGED vars
  <2>1. UNCHANGED <<connVars, cache, queue, pcVars, rx, cmdVars, nodeVars, wireVars>>
      BY <1>11, Zenon DEF vars
  <2>2. NodeTypes'
      BY <2>1, Zenon DEF ClusterInv, NodeTypes, nodeVars, wireVars
  <2>3. /\ \A n \in Nodes : link[n] = "up" => Len(inflight[n]) = Len(requests'[n]) + Len(replies'[n])
        /\ \A n \in Nodes : link[n] = "none" => requests'[n] = <<>> /\ replies'[n] = <<>>
      BY <2>1, Zenon DEF ClusterInv, Wires, wireVars
  <2> QED
      BY <2>1, <2>2, <2>3, NodesOnly, Zenon
<1> QED
    BY <1>1, <1>2, <1>3, <1>4, <1>5, <1>6, <1>7, <1>8, <1>9, <1>10, <1>11, Zenon DEF Next, Router

(* The inductive invariant of the clustered router: its types, what the router has in its
   hands at each await, what is on each connection, where each command is and which
   connections are about to be replaced. *)
THEOREM ClusterInvariance ==
    Spec => []ClusterInv
<1>1. Init => ClusterInv
    BY InitClusterInv
<1>2. ClusterInv /\ [Next]_vars => ClusterInv'
    BY StepKeepsClusterInv
<1> QED
    BY <1>1, <1>2, PTL DEF Spec

LEMMA PlacedInOnePlace ==
    ASSUME ClusterInv
    PROVE  OnePlace
<1> SUFFICES ASSUME NEW c \in Commands
             PROVE  IF answer[c] = "pending" THEN \E p \in Places(c) : Places(c) = {p}
                    ELSE Places(c) = {}
    BY Zenon DEF OnePlace
<1>1. Placed(c) /\ Distinct
    BY Zenon DEF ClusterInv, Placement
<1>2. Places(c) = InQueue(c) \cup InRetry(c) \cup InFlight(c) \cup InHands(c)
    BY Zenon DEF Places
<1>3. /\ ~Queued(c) => InQueue(c) = {}
      /\ Queued(c) => \E p : InQueue(c) = {p}
  <2>1. ~Queued(c) => InQueue(c) = {}
      BY Zenon DEF Queued, InQueue
  <2>2. ASSUME Queued(c)
        PROVE  \E p : InQueue(c) = {p}
    <3>1. PICK i \in DOMAIN queue : queue[i].cmd = c
        BY <2>2, Zenon DEF Queued
    <3>2. {j \in DOMAIN queue : queue[j].cmd = c} = {i}
        BY <1>1, <3>1, Zenon DEF Distinct
    <3>3. InQueue(c) = {<<"queue", i>>}
        BY <3>2, Zenon DEF InQueue
    <3> QED
        BY <3>3, Zenon
  <2> QED
      BY <2>1, <2>2, Zenon
<1>4. /\ c \notin Range(retry) => InRetry(c) = {}
      /\ c \in Range(retry) => \E p : InRetry(c) = {p}
  <2>1. c \notin Range(retry) => InRetry(c) = {}
      BY Zenon DEF Range, InRetry
  <2>2. ASSUME c \in Range(retry)
        PROVE  \E p : InRetry(c) = {p}
    <3>1. PICK i \in DOMAIN retry : retry[i] = c
        BY <2>2, Zenon DEF Range
    <3>2. {j \in DOMAIN retry : retry[j] = c} = {i}
        BY <1>1, <3>1, Zenon DEF Distinct, IsInjective
    <3>3. InRetry(c) = {<<"retry", i>>}
        BY <3>2, Zenon DEF InRetry
    <3> QED
        BY <3>3, Zenon
  <2> QED
      BY <2>1, <2>2, Zenon
<1>5. /\ ~Flying(c) => InFlight(c) = {}
      /\ Flying(c) => \E p : InFlight(c) = {p}
  <2>1. \A n \in Nodes : c \notin Range(inflight[n]) => InBuffer(c, n) = {}
      BY Zenon DEF Range, InBuffer
  <2>2. ~Flying(c) => InFlight(c) = {}
      BY <2>1, Zenon DEF Flying, InFlight
  <2>3. ASSUME Flying(c)
        PROVE  \E p : InFlight(c) = {p}
    <3>1. PICK n \in Nodes : c \in Range(inflight[n])
        BY <2>3, Zenon DEF Flying
    <3>2. \A m \in Nodes : m # n => InBuffer(c, m) = {}
        BY <1>1, <2>1, <3>1, Zenon DEF Placed
    <3>3. PICK i \in DOMAIN inflight[n] : inflight[n][i] = c
        BY <3>1, Zenon DEF Range
    <3>4. {j \in DOMAIN inflight[n] : inflight[n][j] = c} = {i}
        BY <1>1, <3>3, Zenon DEF Distinct, IsInjective
    <3>5. InBuffer(c, n) = {<<n, i>>}
        BY <3>4, Zenon DEF InBuffer
    <3>6. InFlight(c) = InBuffer(c, n)
        BY <3>2, Zenon DEF InFlight
    <3> QED
        BY <3>5, <3>6, Zenon
  <2> QED
      BY <2>2, <2>3, Zenon
<1>6. /\ ~HeldByRouter(c) => InHands(c) = {}
      /\ HeldByRouter(c) => \E p : InHands(c) = {p}
    BY Zenon DEF InHands
<1>7. CASE answer[c] # "pending"
    BY <1>1, <1>2, <1>3, <1>4, <1>5, <1>6, <1>7, Zenon DEF Placed
<1>8. CASE answer[c] = "pending"
  <2>1. \E p : Places(c) = {p}
    <3>1. CASE Queued(c)
        BY <1>1, <1>2, <1>3, <1>4, <1>5, <1>6, <3>1, Zenon DEF Placed
    <3>2. CASE c \in Range(retry)
        BY <1>1, <1>2, <1>3, <1>4, <1>5, <1>6, <3>2, Zenon DEF Placed
    <3>3. CASE Flying(c)
        BY <1>1, <1>2, <1>3, <1>4, <1>5, <1>6, <3>3, Zenon DEF Placed
    <3>4. CASE HeldByRouter(c)
        BY <1>1, <1>2, <1>3, <1>4, <1>5, <1>6, <3>4, Zenon DEF Placed
    <3> QED
        BY <1>1, <1>8, <3>1, <3>2, <3>3, <3>4, Zenon DEF Placed
  <2> QED
      BY <1>8, <2>1, Zenon
<1> QED
    BY <1>7, <1>8, Zenon

(* Through redirections, syncs that drop nodes, reconnects and replays a command whose
   caller waits is in exactly one place, and a command that was answered in none: no
   command is lost by the clustered router and none is answered or executed twice because
   it is in two buffers (process_moved, process_ask, clustered::sync, retry_buffer). *)
THEOREM CommandsInOnePlace ==
    Spec => []OnePlace
<1>1. ClusterInv => OnePlace
    BY PlacedInOnePlace
<1> QED
    BY <1>1, ClusterInvariance, PTL

-----------------------------------------------------------------------------
(* The connection to the cached owner. *)

Goals == {"none", "ask", "moved", "write"}

(* The node that the slot migrates to, or has migrated to. *)
Dest == IF importer = None THEN owner ELSE importer
MigrationOver == migrations = 1 /\ importer = None

(* A redirection with ASKING is in progress. *)
Redirecting ==
    \/ goal = "ask" \/ at \in {"ask", "askwrite", "asked", "once"}
    \/ at \in {"sync", "retry", "policy", "reconnect"} /\ next \in {"ask", "askwrite"}

(* As long as the slot migrates once every ASK names the node it migrates to. *)
Asks ==
    /\ \A n \in Nodes : \A r \in Range(replies[n]) : r.kind = "ask" => migrations = 1 /\ r.server = Dest
    /\ \A m \in Range(queue) : m.type = "ask" => migrations = 1 /\ m.server = Dest
    /\ rx # None /\ rx.kind = "ask" => migrations = 1 /\ rx.server = Dest
    /\ Redirecting => migrations = 1 /\ target = Dest

(* The cached owner is connected or about to be, save for the new owner while a failed
   sync has cached it and the router is on its way to connect to it. *)
Repairing == at \in {"policy", "reconnect", "ended"}
CachedOwner ==
    ~Repairing /\ link[cache] = "none" =>
        cache \in Reported \/ (MigrationOver /\ cache = owner /\ at \in {"sync", "ask"})

RepairInv ==
    /\ migrations \in Nat /\ (importer # None => migrations # 0) /\ goal \in Goals
    /\ migrations <= 1 => /\ Asks /\ CachedOwner
                          /\ ~MigrationOver => cache = owner

LEMMA AsksKept ==
    ASSUME Asks, UNCHANGED <<owner, importer, migrations>>,
           \A n \in Nodes : \A r \in Range(replies'[n]) : r.kind = "ask" => r \in Range(replies[n]),
           \A m \in Range(queue') : m.type = "ask" => m \in Range(queue),
           rx' = rx \/ rx' = None \/ rx'.kind # "ask",
           Redirecting' => Redirecting /\ target' = target
    PROVE  Asks'
<1>1. Dest' = Dest
    BY Zenon DEF Dest
<1> QED
    BY <1>1, Zenon DEF Asks

(* The routing table stays as it is. *)
LEMMA RepairFrame ==
    ASSUME RepairInv, UNCHANGED <<owner, importer, migrations, cache>>, goal' \in Goals,
           \A n \in Nodes : \A r \in Range(replies'[n]) : r.kind = "ask" => r \in Range(replies[n]),
           \A m \in Range(queue') : m.type = "ask" => m \in Range(queue),
           rx' = rx \/ rx' = None \/ rx'.kind # "ask",
           Redirecting' => Redirecting /\ target' = target,
           migrations <= 1 /\ CachedOwner => CachedOwner'
    PROVE  RepairInv'
<1>1. migrations <= 1 => Asks /\ CachedOwner /\ (~MigrationOver => cache = owner)
    BY Zenon DEF RepairInv
<1>2. migrations <= 1 => Asks'
    BY <1>1, AsksKept, Zenon
<1>3. MigrationOver' <=> MigrationOver
    BY Zenon DEF MigrationOver
<1> QED
    BY <1>1, <1>2, <1>3, Zenon DEF RepairInv

(* ... and so do the connections. *)
LEMMA LinksFrame ==
    ASSUME RepairInv, UNCHANGED <<nodeVars, cache, queue>>, goal' \in Goals,
           link'[cache] = "none" => link[cache] = "none",
           \A n \in Nodes : \A r \in Range(replies'[n]) : r.kind = "ask" => r \in Range(replies[n]),
           rx' = rx \/ rx' = None \/ rx'.kind # "ask",
           Redirecting' => Redirecting /\ target' = target,
           Repairing => Repairing', at \in {"sync", "ask"} => at' \in {"sync", "ask"} \/ Repairing'
    PROVE  RepairInv'
<1>1. UNCHANGED <<owner, importer, migrations>>
    BY Zenon DEF nodeVars
<1>2. Reported' = Reported
    BY Zenon DEF Reported
<1>3. CachedOwner => CachedOwner'
    BY <1>1, <1>2, Zenon DEF CachedOwner, MigrationOver, Repairing
<1>4. \A m \in Range(queue') : m.type = "ask" => m \in Range(queue)
    BY Zenon
<1> QED
    BY <1>1, <1>3, <1>4, RepairFrame, Zenon

(* A connection that is closed is reported, now or earlier. *)
LEMMA ClosingReports ==
    ASSUME ClusterInv, NEW order \in Seq(Nodes), NEW opened, NEW held,
           Closing(order, opened, held)
    PROVE  /\ \A n \in Nodes : \A r \in Range(replies'[n]) : r.kind = "ask" => r \in Range(replies[n])
           /\ \A m \in Range(queue') : m.type = "ask" => m \in Range(queue)
           /\ \A n \in Nodes : link'[n] =
                 IF n \in opened THEN "up" ELSE IF n \in Range(order) THEN "none" ELSE link[n]
           /\ Reported \subseteq Reported'
           /\ \A n \in Range(order) :
                 at \notin {"policy", "reconnect"} /\ link[n] # "none" => n \in Reported'
<1>1. PICK reports \in Reports(order) : queue' = queue \o reports
    BY Zenon DEF Closing
<1>2. /\ link' = [n \in Nodes |->
             IF n \in opened THEN "up" ELSE IF n \in Range(order) THEN "none" ELSE link[n]]
      /\ replies' = [n \in Nodes |-> IF n \in Range(order) THEN <<>> ELSE replies[n]]
    BY Zenon DEF Closing
<1>3. RouterTypes /\ Distinct /\ ConnTypes /\ EndedReported
    BY Zenon DEF ClusterInv
<1>4. /\ reports \in Seq(ReconnectMessages)
      /\ \A n \in Range(order) : link[n] \in Working /\ n \notin Reported =>
            Message("reconnect", None, n) \in Range(reports)
    BY ReportsFacts, Zenon
<1>5. Range(queue') = Range(queue) \cup Range(reports) /\ Reported \subseteq Reported'
    BY <1>1, <1>3, <1>4, QueueReports, Zenon
<1>6. \A m \in Range(reports) : m.type = "reconnect"
  <2>1. Range(reports) \subseteq ReconnectMessages
      BY <1>4 DEF Range
  <2> QED
      BY <2>1 DEF ReconnectMessages
<1>7. \A n \in Nodes : replies'[n] = <<>> \/ replies'[n] = replies[n]
    BY <1>2, Zenon
<1>8. \A n \in Nodes : \A r \in Range(replies'[n]) : r \in Range(replies[n])
    BY <1>7, EmptyFacts, Zenon
<1>9. ASSUME NEW n \in Range(order), at \notin {"policy", "reconnect"}, link[n] # "none"
      PROVE  n \in Reported'
  <2>1. n \in Nodes
      BY DEF Range
  <2>2. link[n] \in Working \/ link[n] = "ended"
      BY <1>3, <1>9, <2>1, Zenon DEF ConnTypes, Working
  <2>3. Message("reconnect", None, n).type = "reconnect" /\ Message("reconnect", None, n).server = n
      BY DEF Message
  <2>4. Message("reconnect", None, n) \in Range(queue') => n \in Reported'
      BY <2>3, Zenon DEF Reported
  <2>5. CASE n \in Reported
      BY <1>5, <2>5, Zenon
  <2>6. CASE n \notin Reported
      BY <1>3, <1>4, <1>5, <1>9, <2>1, <2>2, <2>4, <2>6, Zenon DEF EndedReported
  <2> QED
      BY <2>5, <2>6, Zenon
<1> QED
    BY <1>2, <1>5, <1>6, <1>8, <1>9, Zenon

LEMMA EndsRepaired ==
    ASSUME RepairInv, NEW answers, Ends(answers), ClusterInv
    PROVE  RepairInv'
<1>1. /\ at' = "ended" /\ goal' = "none" /\ next' = "idle" /\ rx' = None
      /\ UNCHANGED <<nodeVars, cache>>
    BY Zenon DEF Ends
<1>2. PICK order \in Orders(Writers) : Closing(order, {}, {})
    BY Zenon DEF Ends
<1>3. order \in Seq(Nodes)
  <2>1. IsFiniteSet(Writers) /\ Writers \subseteq Nodes
      BY Different, FS_Subset, Zenon DEF Writers
  <2>2. order \in Seq(Writers)
      BY <2>1, OrderFacts, Zenon
  <2> QED
      BY <2>1, <2>2
<1>4. /\ \A n \in Nodes : \A r \in Range(replies'[n]) : r.kind = "ask" => r \in Range(replies[n])
      /\ \A m \in Range(queue') : m.type = "ask" => m \in Range(queue)
    BY <1>2, <1>3, ClosingReports, Zenon
<1>5. UNCHANGED <<owner, importer, migrations>>
    BY <1>1, Zenon DEF nodeVars
<1>6. ~Redirecting' /\ goal' \in Goals
    BY <1>1, Zenon DEF Redirecting, Goals
<1>7. CachedOwner'
    BY <1>1, Zenon DEF CachedOwner, Repairing
<1> QED
    BY <1>1, <1>4, <1>5, <1>6, <1>7, RepairFrame, Zenon

LEMMA OrderOfNodes ==
    ASSUME NEW S, S \subseteq Nodes, NEW order \in Orders(S)
    PROVE  order \in Seq(Nodes) /\ Range(order) = S
<1>1. IsFiniteSet(S)
    BY Different, FS_Subset, Zenon
<1>2. order \in Seq(S) /\ Range(order) = S
    BY <1>1, OrderFacts, Zenon
<1> QED
    BY <1>2

(* A sync or a reconnection ends by caching the owner. *)
LEMMA RebuildRepaired ==
    ASSUME ClusterInv, RepairInv, NEW closed, closed \subseteq Nodes, NEW opened,
           Rebuild(closed, opened), UNCHANGED <<nodeVars, rx, goal>>,
           Redirecting' => Redirecting /\ target' = target,
           /\ cache' = owner
           /\ \A n \in Nodes : link'[n] =
                 IF n \in opened THEN "up" ELSE IF n \in closed THEN "none" ELSE link[n]
           /\ Reported \subseteq Reported'
           /\ \A n \in closed :
                 at \notin {"policy", "reconnect"} /\ link[n] # "none" => n \in Reported'
           => (migrations <= 1 => CachedOwner')
    PROVE  RepairInv'
<1>1. PICK order \in Orders(closed) : Closing(order, opened, {})
    BY Zenon DEF Rebuild
<1>2. order \in Seq(Nodes) /\ Range(order) = closed
    BY OrderOfNodes, Zenon
<1>3. /\ \A n \in Nodes : \A r \in Range(replies'[n]) : r.kind = "ask" => r \in Range(replies[n])
      /\ \A m \in Range(queue') : m.type = "ask" => m \in Range(queue)
      /\ \A n \in Nodes : link'[n] =
            IF n \in opened THEN "up" ELSE IF n \in Range(order) THEN "none" ELSE link[n]
      /\ Reported \subseteq Reported'
      /\ \A n \in Range(order) :
            at \notin {"policy", "reconnect"} /\ link[n] # "none" => n \in Reported'
    BY <1>1, <1>2, ClosingReports, Zenon
<1>4. cache' = owner
    BY Zenon DEF Rebuild
<1>5. migrations <= 1 => CachedOwner'
    BY <1>2, <1>3, <1>4, Zenon
<1>6. UNCHANGED <<owner, importer, migrations>>
    BY Zenon DEF nodeVars
<1>7. migrations <= 1 => Asks'
    BY <1>3, <1>6, AsksKept, Zenon DEF RepairInv
<1> QED
    BY <1>4, <1>5, <1>6, <1>7, Zenon DEF RepairInv

LEMMA SyncRepaired ==
    ASSUME ClusterInv, RepairInv, Sync
    PROVE  RepairInv'
<1>1. at = "sync" /\ owner \in Nodes /\ owner \in Primaries /\ cache \in Nodes
    BY Zenon DEF Sync, ClusterInv, NodeTypes, ConnTypes, Primaries
<1>2. Writers \ Primaries \subseteq Nodes
    BY Zenon DEF Writers
<1>3. CASE SyncDone
  <2>1. /\ Rebuild(Writers \ Primaries, Primaries \ Writers) /\ UNCHANGED <<nodeVars, rx, goal>>
        /\ at' = "retry" /\ next' = next /\ target' = target
      BY <1>3, Zenon DEF SyncDone, Goto
  <2>2. Redirecting' => Redirecting
      BY <1>1, <2>1, Zenon DEF Redirecting
  <2>3. ASSUME cache' = owner,
               \A n \in Nodes : link'[n] = IF n \in Primaries \ Writers THEN "up"
                                           ELSE IF n \in Writers \ Primaries THEN "none" ELSE link[n]
        PROVE  CachedOwner'
    <3>1. link'[owner] # "none"
        BY <1>1, <2>3, Zenon DEF Writers
    <3> QED
        BY <2>3, <3>1, Zenon DEF CachedOwner
  <2> QED
      BY <1>2, <2>1, <2>2, <2>3, RebuildRepaired, Zenon
<1>4. ASSUME PolicyOr(SyncAgain), UNCHANGED nodeVars
      PROVE  /\ at' \in {"sync", "ask"} /\ UNCHANGED <<goal, rx, target>>
             /\ Redirecting' => Redirecting
  <2>1. at' = SyncAgain /\ UNCHANGED <<goal, rx, target, next>>
      BY <1>4, Zenon DEF PolicyOr, Goto
  <2>2. at' \in {"sync", "ask"} /\ (at' = "ask" => next = "askwrite")
      BY <2>1, Zenon DEF SyncAgain
  <2> QED
      BY <1>1, <2>1, <2>2, Zenon DEF Redirecting
<1>5. ASSUME PolicyOr(SyncAgain), UNCHANGED nodeVars,
             NEW opened, Rebuild(Writers \ Primaries, opened)
      PROVE  RepairInv'
  <2>1. ASSUME cache' = owner, Reported \subseteq Reported', migrations <= 1,
               \A n \in Nodes : link'[n] = IF n \in opened THEN "up"
                                           ELSE IF n \in Writers \ Primaries THEN "none" ELSE link[n]
        PROVE  CachedOwner'
    <3>1. UNCHANGED <<owner, importer, migrations>> /\ at' \in {"sync", "ask"}
        BY <1>4, <1>5, Zenon DEF nodeVars
    <3>2. CASE MigrationOver
        BY <2>1, <3>1, <3>2, Zenon DEF CachedOwner, MigrationOver
    <3>3. CASE ~MigrationOver
      <4>1. cache = owner /\ CachedOwner
          BY <2>1, <3>3, Zenon DEF RepairInv
      <4>2. link'[owner] = "none" => link[owner] = "none"
          BY <1>1, <2>1, Zenon
      <4>3. link[owner] = "none" => owner \in Reported
          BY <1>1, <3>3, <4>1, Zenon DEF CachedOwner, Repairing
      <4> QED
          BY <2>1, <4>2, <4>3, Zenon DEF CachedOwner
    <3> QED
        BY <3>2, <3>3, Zenon
  <2> QED
      BY <1>2, <1>4, <1>5, <2>1, RebuildRepaired, Zenon
<1>6. ASSUME PolicyOr(SyncAgain),
             UNCHANGED <<pipelined, nodeVars, wireVars, connVars, cache, queue, cmdVars>>
      PROVE  RepairInv'
  <2>1. UNCHANGED <<nodeVars, cache, queue, link, replies>>
      BY <1>6, Zenon DEF connVars, wireVars
  <2>2. goal' \in Goals
      BY <1>4, <1>6, Zenon DEF RepairInv
  <2> QED
      BY <1>1, <1>4, <1>6, <2>1, <2>2, LinksFrame, Zenon DEF Repairing
<1>7. CASE SyncFails
    BY <1>5, <1>6, <1>7, EndsRepaired, Zenon DEF SyncFails, Exhausted
<1> QED
    BY <1>3, <1>7, Zenon DEF Sync

LEMMA ReconnectRepaired ==
    ASSUME ClusterInv, RepairInv, Reconnect
    PROVE  RepairInv'
<1>1. at \in {"reconnect", "once"} /\ owner \in Nodes /\ owner \in Primaries
    BY Zenon DEF Reconnect, ClusterInv, NodeTypes, Primaries
<1>2. Writers \subseteq Nodes
    BY Zenon DEF Writers
<1>3. CASE ReconnectDone
  <2>1. /\ Rebuild(Writers, Primaries) /\ UNCHANGED <<nodeVars, rx, goal>>
        /\ at' = "retry" /\ target' = target
        /\ next' = IF at = "once" THEN "ask" ELSE next
      BY <1>3, Zenon DEF ReconnectDone
  <2>2. Redirecting' => Redirecting
      BY <1>1, <2>1, Zenon DEF Redirecting
  <2>3. ASSUME cache' = owner,
               \A n \in Nodes : link'[n] = IF n \in Primaries THEN "up"
                                           ELSE IF n \in Writers THEN "none" ELSE link[n]
        PROVE  CachedOwner'
      BY <1>1, <2>3, Zenon DEF CachedOwner
  <2> QED
      BY <1>2, <2>1, <2>2, <2>3, RebuildRepaired, Zenon
<1>4. ASSUME PolicyOr(IF at = "once" THEN "ask" ELSE "reconnect"), UNCHANGED nodeVars,
             NEW opened, Rebuild(Writers, opened)
      PROVE  RepairInv'
  <2>1. /\ at' = (IF at = "once" THEN "ask" ELSE "reconnect") /\ UNCHANGED <<goal, rx, target, next>>
      BY <1>4, Zenon DEF PolicyOr, Goto
  <2>2. Redirecting' => Redirecting
      BY <1>1, <2>1, Zenon DEF Redirecting
  <2>3. ASSUME cache' = owner, Reported \subseteq Reported', migrations <= 1,
               \A n \in Nodes : link'[n] = IF n \in opened THEN "up"
                                           ELSE IF n \in Writers THEN "none" ELSE link[n],
               \A n \in Writers :
                   at \notin {"policy", "reconnect"} /\ link[n] # "none" => n \in Reported'
        PROVE  CachedOwner'
    <3>1. UNCHANGED <<owner, importer, migrations>>
        BY <1>4, Zenon DEF nodeVars
    <3>2. CASE at = "reconnect"
        BY <2>1, <3>2, Zenon DEF CachedOwner, Repairing
    <3>3. CASE at = "once" /\ MigrationOver
        BY <2>1, <2>3, <3>1, <3>3, Zenon DEF CachedOwner, MigrationOver
    <3>4. CASE at = "once" /\ ~MigrationOver
      <4>1. cache = owner /\ CachedOwner
          BY <2>3, <3>4, Zenon DEF RepairInv
      <4>2. link[owner] = "none" => owner \in Reported
          BY <3>4, <4>1, Zenon DEF CachedOwner, Repairing
      <4>3. link[owner] # "none" => owner \in Reported'
          BY <1>1, <2>3, <3>4, Zenon DEF Writers
      <4> QED
          BY <2>3, <4>2, <4>3, Zenon DEF CachedOwner
    <3> QED
        BY <1>1, <3>2, <3>3, <3>4, Zenon
  <2> QED
      BY <1>2, <1>4, <2>1, <2>2, <2>3, RebuildRepaired, Zenon
<1>5. CASE ReconnectFails
    BY <1>4, <1>5, EndsRepaired, Zenon DEF ReconnectFails, Exhausted
<1> QED
    BY <1>3, <1>5, Zenon DEF Reconnect

LEMMA MigrationRepaired ==
    ASSUME ClusterInv, RepairInv, Migrate \/ MigrationEnds
    PROVE  RepairInv'
<1>1. UNCHANGED <<goal, replies, queue, rx, at, next, target, link, cache>>
    BY Zenon DEF Migrate, MigrationEnds, pcVars, wireVars, connVars
<1>2. Reported' = Reported /\ (Redirecting' <=> Redirecting) /\ (Repairing' <=> Repairing)
    BY <1>1, Zenon DEF Reported, Redirecting, Repairing
<1>3. CASE Migrate
  <2>1. /\ migrations' = migrations + 1 /\ importer = None /\ owner' = owner
        /\ importer' \in Nodes
      BY <1>3, Zenon DEF Migrate
  <2>2. migrations \in Nat
      BY Zenon DEF RepairInv
  <2>3. /\ migrations' \in Nat /\ migrations' # 0 /\ 0 # 1
        /\ migrations' <= 1 => migrations = 0 /\ migrations <= 1
      BY <2>1, <2>2
  <2>4. ASSUME migrations' <= 1
        PROVE  Asks' /\ CachedOwner' /\ cache' = owner'
    <3>1. Asks /\ CachedOwner /\ ~MigrationOver /\ cache = owner
        BY <2>3, <2>4, Zenon DEF RepairInv, MigrationOver
    <3>2. Asks'
        BY <1>1, <1>2, <2>3, <2>4, <3>1, Zenon DEF Asks
    <3>3. CachedOwner'
        BY <1>1, <1>2, <3>1, Zenon DEF CachedOwner
    <3> QED
        BY <1>1, <2>1, <3>1, <3>2, <3>3, Zenon
  <2> QED
      BY <1>1, <2>3, <2>4, Zenon DEF RepairInv
<1>4. CASE MigrationEnds
  <2>1. /\ importer # None /\ owner' = importer /\ importer' = None /\ migrations' = migrations
      BY <1>4, Zenon DEF MigrationEnds
  <2>2. migrations \in Nat /\ migrations # 0
      BY <2>1, Zenon DEF RepairInv
  <2>3. migrations <= 1 => migrations = 1
      BY <2>2
  <2>4. Dest' = Dest
      BY <2>1, Zenon DEF Dest
  <2>5. ASSUME migrations <= 1
        PROVE  Asks' /\ CachedOwner' /\ MigrationOver'
    <3>1. Asks /\ CachedOwner /\ ~MigrationOver
        BY <2>1, <2>5, Zenon DEF RepairInv, MigrationOver
    <3>2. Asks'
        BY <1>1, <1>2, <2>1, <2>4, <3>1, Zenon DEF Asks
    <3>3. CachedOwner'
        BY <1>1, <1>2, <3>1, Zenon DEF CachedOwner
    <3> QED
        BY <2>1, <2>3, <2>5, <3>2, <3>3, Zenon DEF MigrationOver
  <2> QED
      BY <1>1, <2>1, <2>2, <2>5, Zenon DEF RepairInv
<1> QED
    BY <1>3, <1>4, Zenon

LEMMA ServeRepaired ==
    ASSUME ClusterInv, RepairInv, NEW n \in Nodes, Serve(n)
    PROVE  RepairInv'
<1>1. /\ UNCHANGED <<owner, importer, migrations, cache, queue, goal, rx, at, next, target, link>>
    BY Zenon DEF Serve, pcVars, connVars
<1>2. PICK r \in {Reply("ok", n)} \cup NodeReplies(n) :
          replies' = [replies EXCEPT ![n] = Append(@, r)]
    BY Zenon DEF Serve
<1>3. /\ r \in Replies
      /\ r.kind = "ask" => importer # None /\ r.server = importer
  <2>1. owner \in Nodes /\ importer \in Nodes \cup {None}
      BY Zenon DEF ClusterInv, NodeTypes
  <2> QED
      BY <2>1 DEF NodeReplies, Reply, Replies
<1>4. /\ \A m \in Nodes : m # n => replies'[m] = replies[m]
      /\ Range(replies'[n]) = Range(replies[n]) \cup {r}
  <2>1. replies \in [Nodes -> Seq(Replies)]
      BY Zenon DEF ClusterInv, NodeTypes
  <2>2. replies[n] \in Seq(Replies) /\ replies'[n] = Append(replies[n], r)
      BY <1>2, <2>1, Zenon
  <2>3. Range(replies'[n]) = Range(replies[n]) \cup {r}
    <3>1. r \in Replies
        BY <1>3, Zenon
    <3>2. replies[n] \in Seq(Replies)
        BY <2>2, Zenon
    <3>3. Range(Append(replies[n], r)) = Range(replies[n]) \cup {r}
        BY <3>1, <3>2, AppendFacts
    <3> QED
        BY <2>2, <3>3, Zenon
  <2> QED
      BY <1>2, <2>1, <2>3, Zenon
<1>5. /\ Reported' = Reported /\ (Redirecting' <=> Redirecting) /\ (Repairing' <=> Repairing)
      /\ Dest' = Dest /\ (MigrationOver' <=> MigrationOver)
    BY <1>1, Zenon DEF Reported, Redirecting, Repairing, Dest, MigrationOver
<1>6. ASSUME migrations <= 1
      PROVE  Asks' /\ CachedOwner'
  <2>1. Asks /\ CachedOwner
      BY <1>6, Zenon DEF RepairInv
  <2>2. migrations \in Nat /\ (importer # None => migrations # 0)
      BY Zenon DEF RepairInv
  <2>3. importer # None => migrations = 1
      BY <1>6, <2>2
  <2>4. r.kind = "ask" => migrations = 1 /\ r.server = Dest
      BY <1>3, <2>3, Zenon DEF Dest
  <2>5. \A m \in Nodes : \A x \in Range(replies'[m]) : x.kind = "ask" => migrations = 1 /\ x.server = Dest
      BY <1>4, <2>1, <2>4, Zenon DEF Asks
  <2>6. Asks'
      BY <1>1, <1>5, <2>1, <2>5, Zenon DEF Asks
  <2>7. CachedOwner'
      BY <1>1, <1>5, <2>1, Zenon DEF CachedOwner
  <2> QED
      BY <2>6, <2>7, Zenon
<1> QED
    BY <1>1, <1>5, <1>6, Zenon DEF RepairInv

LEMMA BreakRepaired ==
    ASSUME ClusterInv, RepairInv, NEW n \in Nodes, Break(n)
    PROVE  RepairInv'
<1>1. /\ UNCHANGED <<nodeVars, cache, queue, goal, rx, at, next, target>>
      /\ link' = [link EXCEPT ![n] = "down"] /\ replies' = [replies EXCEPT ![n] = <<>>]
    BY Zenon DEF Break, pcVars
<1>2. link \in [Nodes -> {"none", "up", "down", "ended"}] /\ cache \in Nodes
      /\ replies \in [Nodes -> Seq(Replies)]
    BY Zenon DEF ClusterInv, NodeTypes, ConnTypes
<1>3. \A m \in Nodes : \A r \in Range(replies'[m]) : r \in Range(replies[m])
    BY <1>1, <1>2, EmptyFacts, Zenon
<1>4. link'[cache] = "none" => link[cache] = "none"
    BY <1>1, <1>2, Zenon
<1>5. (Redirecting' <=> Redirecting) /\ (Repairing' <=> Repairing)
    BY <1>1, Zenon DEF Redirecting, Repairing
<1>6. goal' \in Goals
    BY <1>1, Zenon DEF RepairInv
<1> QED
    BY <1>1, <1>3, <1>4, <1>5, <1>6, LinksFrame, Zenon

LEMMA ReaderEndsRepaired ==
    ASSUME ClusterInv, RepairInv, NEW n \in Nodes, ReaderEnds(n)
    PROVE  RepairInv'
<1>1. /\ UNCHANGED <<owner, importer, migrations, cache, goal, at, next, target, replies>>
      /\ link' = [link EXCEPT ![n] = "ended"]
    BY Zenon DEF ReaderEnds, pcVars, nodeVars, wireVars
<1>2. link \in [Nodes -> {"none", "up", "down", "ended"}] /\ cache \in Nodes
    BY Zenon DEF ClusterInv, ConnTypes
<1>3. rx' = rx \/ rx'.kind # "ask"
  <2>1. rx' \in {rx, Reply("closed", n), Reply("continue", None)}
      BY Zenon DEF ReaderEnds
  <2>2. Reply("closed", n).kind # "ask" /\ Reply("continue", None).kind # "ask"
      BY DEF Reply
  <2> QED
      BY <2>1, <2>2, Zenon
<1>4. PICK reports \in Reports(<<n>>) : queue' = queue \o reports
    BY Zenon DEF ReaderEnds
<1>5. reports \in Seq(ReconnectMessages)
  <2>1. <<n>> \in Seq(Nodes)
      BY SingleFacts, Zenon
  <2> QED
      BY <2>1, ReportsFacts, Zenon
<1>6. Range(queue') = Range(queue) \cup Range(reports) /\ Reported \subseteq Reported'
    BY <1>4, <1>5, QueueReports, Zenon DEF ClusterInv
<1>7. \A m \in Range(reports) : m.type = "reconnect"
  <2>1. Range(reports) \subseteq ReconnectMessages
      BY <1>5 DEF Range
  <2> QED
      BY <2>1 DEF ReconnectMessages
<1>8. (Redirecting' <=> Redirecting) /\ (Repairing' <=> Repairing) /\ (MigrationOver' <=> MigrationOver)
    BY <1>1, Zenon DEF Redirecting, Repairing, MigrationOver
<1>9. link'[cache] = "none" => link[cache] = "none"
    BY <1>1, <1>2, Zenon
<1>10. CachedOwner => CachedOwner'
    BY <1>1, <1>6, <1>8, <1>9, Zenon DEF CachedOwner
<1>11. \A m \in Range(queue') : m.type = "ask" => m \in Range(queue)
    BY <1>6, <1>7, Zenon
<1>12. \A m \in Nodes : \A r \in Range(replies'[m]) : r.kind = "ask" => r \in Range(replies[m])
    BY <1>1, Zenon
<1>13. goal' \in Goals
    BY <1>1, Zenon DEF RepairInv
<1> QED
    BY <1>1, <1>3, <1>8, <1>10, <1>11, <1>12, <1>13, RepairFrame, Zenon

LEMMA SubmitRepaired ==
    ASSUME ClusterInv, RepairInv, NEW c \in Commands, Submit(c)
    PROVE  RepairInv'
<1>1. /\ UNCHANGED <<owner, importer, migrations, cache, goal, rx, at, next, target, link, replies>>
      /\ queue' = Append(queue, Message("command", c, None))
    BY Zenon DEF Submit, pcVars, nodeVars, wireVars, connVars
<1>2. Range(queue') = Range(queue) \cup {Message("command", c, None)}
  <2>1. queue \in Seq(Messages)
      BY Zenon DEF ClusterInv, RouterTypes
  <2>2. Message("command", c, None) \in Messages
      BY DEF Message, Messages
  <2> QED
      BY <1>1, <2>1, <2>2, AppendFacts
<1>3. Message("command", c, None).type = "command"
    BY DEF Message
<1>4. \A m \in Range(queue') : m.type = "ask" => m \in Range(queue)
    BY <1>2, <1>3, Zenon
<1>5. /\ Reported \subseteq Reported' /\ (Redirecting' <=> Redirecting) /\ (Repairing' <=> Repairing)
      /\ (MigrationOver' <=> MigrationOver)
    BY <1>1, <1>2, Zenon DEF Reported, Redirecting, Repairing, MigrationOver
<1>6. CachedOwner => CachedOwner'
    BY <1>1, <1>5, Zenon DEF CachedOwner
<1>7. goal' \in Goals
    BY <1>1, Zenon DEF RepairInv
<1>8. \A m \in Nodes : \A r \in Range(replies'[m]) : r.kind = "ask" => r \in Range(replies[m])
    BY <1>1, Zenon
<1> QED
    BY <1>1, <1>4, <1>5, <1>6, <1>7, <1>8, RepairFrame, Zenon

LEMMA ReadReplyRepaired ==
    ASSUME ClusterInv, RepairInv, NEW n \in Nodes, ReadReply(n)
    PROVE  RepairInv'
<1>1. /\ UNCHANGED <<owner, importer, migrations, cache, goal, at, next, target, link>>
      /\ replies[n] # <<>> /\ replies' = [replies EXCEPT ![n] = Tail(@)]
    BY Zenon DEF ReadReply, pcVars, nodeVars
<1>2. replies \in [Nodes -> Seq(Replies)] /\ queue \in Seq(Messages)
    BY Zenon DEF ClusterInv, NodeTypes, RouterTypes
<1>3. PICK r \in Range(replies[n]) :
        /\ r \in Replies
        /\ \/ rx' \in {rx, Reply("asked", n), Reply("continue", None)} /\ queue' = queue
           \/ rx' = r /\ queue' = queue
           \/ rx' = rx /\ \E c : c = Head(inflight[n]) /\ r.kind # "ok"
                               /\ queue' = Append(queue, Message(r.kind, c, r.server)) /\ c # Asking
  <2>1. replies[n] \in Seq(Replies)
      BY <1>2, Zenon
  <2>2. Head(replies[n]) \in Range(replies[n]) /\ Head(replies[n]) \in Replies
      BY <1>1, <2>1, TailFacts, Zenon
  <2>3. PICK r : r = Head(replies[n])
      OBVIOUS
  <2>4. PICK c : c = Head(inflight[n])
      OBVIOUS
  <2>5. IF c = Asking
        THEN rx' = Reply("asked", n) /\ UNCHANGED <<queue, channel, answer>>
        ELSE IF r.kind = "ok" THEN Responded(c, r) ELSE Redirected(c, r)
      BY <2>3, <2>4, Zenon DEF ReadReply
  <2>6. CASE c = Asking
      BY <2>2, <2>3, <2>5, <2>6, Zenon
  <2>7. CASE c # Asking /\ r.kind = "ok"
      BY <2>2, <2>3, <2>5, <2>7, Zenon DEF Responded
  <2>8. CASE c # Asking /\ r.kind # "ok"
      BY <2>2, <2>3, <2>4, <2>5, <2>8, Zenon DEF Redirected
  <2> QED
      BY <2>6, <2>7, <2>8, Zenon
<1>4. \A m \in Nodes : \A x \in Range(replies'[m]) : x \in Range(replies[m])
  <2>1. \A m \in Nodes : m # n => replies'[m] = replies[m]
      BY <1>1, <1>2, Zenon
  <2>2. replies'[n] = Tail(replies[n]) /\ replies[n] \in Seq(Replies)
      BY <1>1, <1>2, Zenon
  <2>3. Range(Tail(replies[n])) \subseteq Range(replies[n])
      BY <1>1, <2>2, TailFacts
  <2> QED
      BY <2>1, <2>2, <2>3, Zenon
<1>5. /\ Reply("asked", n).kind # "ask" /\ Reply("continue", None).kind # "ask"
    BY DEF Reply
<1>6. /\ Range(queue) \subseteq Range(queue')
      /\ \A m \in Range(queue') :
            m.type = "ask" => m \in Range(queue) \/ (r.kind = "ask" /\ m.server = r.server)
  <2>1. CASE queue' = queue
      BY <2>1, Zenon
  <2>2. ASSUME NEW c, c = Head(inflight[n]), c # Asking, r.kind # "ok",
               queue' = Append(queue, Message(r.kind, c, r.server))
        PROVE  /\ Range(queue') = Range(queue) \cup {Message(r.kind, c, r.server)}
               /\ Message(r.kind, c, r.server).type = r.kind /\ Message(r.kind, c, r.server).server = r.server
    <3>1. c \in Commands
      <4>1. Head(inflight[n]) \in Frames
          BY ReadFacts, Zenon
      <4> QED
          BY <2>2, <4>1, Zenon DEF Frames
    <3>2. r.kind \in {"ask", "moved"} /\ r.server \in Nodes
        BY <1>3, <2>2 DEF Replies
    <3>3. Message(r.kind, c, r.server) \in Messages
        BY <3>1, <3>2 DEF Message, Messages
    <3>4. Range(queue') = Range(queue) \cup {Message(r.kind, c, r.server)}
        BY <1>2, <2>2, <3>3, AppendFacts
    <3> QED
        BY <3>4 DEF Message
  <2>3. CASE queue' # queue
    <3>1. PICK c : /\ c = Head(inflight[n]) /\ r.kind # "ok" /\ c # Asking
                   /\ queue' = Append(queue, Message(r.kind, c, r.server))
        BY <1>3, <2>3, Zenon
    <3>2. PICK new : new = Message(r.kind, c, r.server)
        OBVIOUS
    <3>3. /\ Range(queue') = Range(queue) \cup {new} /\ new.type = r.kind /\ new.server = r.server
        BY <2>2, <3>1, <3>2, Zenon
    <3> QED
        BY <3>3, Zenon
  <2> QED
      BY <2>1, <2>3, Zenon
<1>7. /\ Reported \subseteq Reported' /\ (Redirecting' <=> Redirecting) /\ (Repairing' <=> Repairing)
      /\ Dest' = Dest /\ (MigrationOver' <=> MigrationOver)
    BY <1>1, <1>6, Zenon DEF Reported, Redirecting, Repairing, Dest, MigrationOver
<1>8. CachedOwner => CachedOwner'
    BY <1>1, <1>7, Zenon DEF CachedOwner
<1>9. ASSUME migrations <= 1
      PROVE  Asks'
  <2>1. Asks
      BY <1>9, Zenon DEF RepairInv
  <2>2. r.kind = "ask" => migrations = 1 /\ r.server = Dest
      BY <2>1, Zenon DEF Asks
  <2>3. \A m \in Nodes : \A x \in Range(replies'[m]) : x.kind = "ask" => migrations = 1 /\ x.server = Dest
      BY <1>4, <2>1, Zenon DEF Asks
  <2>4. \A m \in Range(queue') : m.type = "ask" => migrations = 1 /\ m.server = Dest
      BY <1>6, <2>1, <2>2, Zenon DEF Asks
  <2>5. rx' # None /\ rx'.kind = "ask" => migrations = 1 /\ rx'.server = Dest
    <3>1. rx' = rx \/ rx'.kind # "ask" \/ rx' = r
        BY <1>3, <1>5, Zenon
    <3> QED
        BY <2>1, <2>2, <3>1, Zenon DEF Asks
  <2>6. Redirecting => migrations = 1 /\ target = Dest
      BY <2>1, Zenon DEF Asks
  <2> QED
      BY <1>1, <1>7, <2>3, <2>4, <2>5, <2>6, Zenon DEF Asks
<1> QED
    BY <1>1, <1>7, <1>8, <1>9, Zenon DEF RepairInv

LEMMA TakeRepaired ==
    ASSUME ClusterInv, RepairInv, Take
    PROVE  RepairInv'
<1>1. PICK m : m = Head(queue)
    OBVIOUS
<1>2. queue \in Seq(Messages) /\ queue # <<>> /\ at = "idle"
    BY Zenon DEF ClusterInv, RouterTypes, Take
<1>3. m \in Messages /\ Range(queue) = Range(Tail(queue)) \cup {m}
    BY <1>1, <1>2, TailFacts
<1>4. /\ UNCHANGED <<owner, importer, migrations, cache, rx, link, replies>>
      /\ queue' = Tail(queue)
      /\ goal' = IF m.type \in {"ask", "moved"} THEN m.type ELSE "none"
      /\ next' = IF m.type = "moved" THEN "direct" ELSE "idle"
      /\ target' = IF m.type \in {"ask", "moved"} THEN m.server ELSE None
    BY <1>1, Zenon DEF Take, nodeVars, connVars, wireVars
<1>5. m.type \in {"command", "ask", "moved", "reconnect"} /\ (m.type = "reconnect" => m.server \in Nodes)
    BY <1>3 DEF Messages, ReconnectMessages
<1>6. /\ m.type = "command" => at' = "write"
      /\ m.type = "ask" => at' = "ask"
      /\ m.type = "moved" => at' = "sync"
      /\ m.type = "reconnect" => at' = IF link[m.server] \in Working THEN "idle" ELSE "policy"
    BY <1>1 DEF Take
<1>7. /\ Range(queue) = Range(queue') \cup {m} /\ goal' \in Goals
      /\ Dest' = Dest /\ (MigrationOver' <=> MigrationOver)
    BY <1>3, <1>4, Zenon DEF Goals, Dest, MigrationOver
<1>8. m.type # "ask" => ~Redirecting'
    BY <1>4, <1>5, <1>6, Zenon DEF Redirecting
<1>9. ASSUME migrations <= 1
      PROVE  Asks'
  <2>1. Asks /\ m \in Range(queue)
      BY <1>7, <1>9, Zenon DEF RepairInv
  <2>2. m.type = "ask" => migrations = 1 /\ m.server = Dest
      BY <2>1, Zenon DEF Asks
  <2>3. \A x \in Range(queue') : x.type = "ask" => migrations = 1 /\ x.server = Dest
      BY <1>7, <2>1, Zenon DEF Asks
  <2>4. Redirecting' => migrations = 1 /\ target' = Dest
      BY <1>4, <1>8, <2>2, Zenon
  <2> QED
      BY <1>4, <1>7, <2>1, <2>3, <2>4, Zenon DEF Asks
<1>10. ASSUME CachedOwner, ~Repairing', link[cache] = "none"
       PROVE  cache \in Reported'
  <2>1. cache \in Reported
      BY <1>2, <1>10, Zenon DEF CachedOwner, Repairing
  <2>2. PICK x \in Range(queue) : x.type = "reconnect" /\ x.server = cache
      BY <2>1, Zenon DEF Reported
  <2>3. x # m
      BY <1>6, <1>10, <2>2, Zenon DEF Repairing, Working
  <2> QED
      BY <1>7, <2>2, <2>3, Zenon DEF Reported
<1> QED
    BY <1>4, <1>7, <1>9, <1>10, Zenon DEF RepairInv, CachedOwner

(* Steps of the router that leave the queue and the connections alone. *)
LEMMA RouterRepaired ==
    ASSUME RepairInv, UNCHANGED <<nodeVars, cache, queue, link, replies>>,
           rx' = rx \/ rx' = None, goal' \in Goals,
           Redirecting' => Redirecting /\ target' = target,
           ~Repairing \/ Repairing', at \in {"sync", "ask"} => at' \in {"sync", "ask"}
    PROVE  RepairInv'
<1>1. \A n \in Nodes : \A r \in Range(replies'[n]) : r.kind = "ask" => r \in Range(replies[n])
    BY Zenon
<1> QED
    BY <1>1, LinksFrame, Zenon

LEMMA IdleFacts ==
    ASSUME Idle, at \notin {"sync", "ask", "policy", "reconnect", "ended"}
    PROVE  /\ goal' \in Goals /\ ~Redirecting' /\ ~Repairing /\ at \notin {"sync", "ask"}
    BY Zenon DEF Idle, Goals, Redirecting, Repairing

LEMMA QuietRepaired ==
    ASSUME ClusterInv, RepairInv,
           \/ at \in {"write", "direct"} /\ GiveUp
           \/ at = "write" /\ WriteSent
           \/ at = "retry" /\ (RetryDone \/ RetryTooMany \/ RetrySent)
           \/ Asked
           \/ at = "direct" /\ (DirectSent \/ DirectFails)
    PROVE  RepairInv'
<1>1. /\ UNCHANGED <<nodeVars, cache, queue, link, replies>>
      /\ rx' = rx \/ rx' = None
    BY Zenon DEF GiveUp, WriteSent, RetryDone, RetryTooMany, RetrySent, Asked, DirectSent,
        DirectFails, Sent, wireVars, connVars
<1>2. goal \in Goals
    BY Zenon DEF RepairInv
<1>3. CASE at \in {"write", "direct"} /\ Idle
    BY <1>1, <1>3, IdleFacts, RouterRepaired, Zenon
<1>4. CASE at = "write" /\ Goto("wait")
  <2>1. at' = "wait" /\ UNCHANGED <<goal, next, target>>
      BY <1>4, Zenon DEF Goto
  <2>2. /\ Redirecting' => Redirecting /\ target' = target
        /\ ~Repairing /\ at \notin {"sync", "ask"} /\ goal' \in Goals
      BY <1>2, <1>4, <2>1, Zenon DEF Redirecting, Repairing
  <2> QED
      BY <1>1, <2>2, RouterRepaired, Zenon
<1>5. CASE at = "retry" /\ (RetryDone \/ RetryTooMany \/ RetrySent)
  <2>1. /\ UNCHANGED <<goal, target>>
        /\ (at' = next /\ next' = "idle") \/ (at' = at /\ next' = next)
      BY <1>5, Zenon DEF RetryDone, RetryTooMany, RetrySent, pcVars
  <2>2. next \in {"idle", "write", "direct", "ask", "askwrite"}
      BY Zenon DEF ClusterInv, RouterTypes
  <2>3. /\ Redirecting' => Redirecting /\ target' = target
        /\ ~Repairing /\ at \notin {"sync", "ask"} /\ goal' \in Goals
      BY <1>2, <1>5, <2>1, <2>2, Zenon DEF Redirecting, Repairing
  <2> QED
      BY <1>1, <2>3, RouterRepaired, Zenon
<1>6. CASE Asked
  <2>1. at = "asked" /\ at' \in {"write", "direct"} /\ UNCHANGED <<goal, next, target>>
      BY <1>6, Zenon DEF Asked, Goto
  <2>2. /\ Redirecting' => Redirecting /\ target' = target
        /\ ~Repairing /\ at \notin {"sync", "ask"} /\ goal' \in Goals
      BY <1>2, <2>1, Zenon DEF Redirecting, Repairing
  <2> QED
      BY <1>1, <2>2, RouterRepaired, Zenon
<1>7. CASE at = "direct" /\ DirectFails
  <2>1. /\ UNCHANGED <<goal, target>>
        /\ (goal = "ask" /\ at' = "ask") \/ (at' = "sync" /\ next' = "direct")
      BY <1>7, Zenon DEF DirectFails, Goto
  <2>2. /\ Redirecting' => Redirecting /\ target' = target
        /\ ~Repairing /\ at \notin {"sync", "ask"} /\ goal' \in Goals
      BY <1>2, <1>7, <2>1, Zenon DEF Redirecting, Repairing
  <2> QED
      BY <1>1, <2>2, RouterRepaired, Zenon
<1> QED
    BY <1>3, <1>4, <1>5, <1>6, <1>7, Zenon DEF GiveUp, WriteSent, DirectSent

LEMMA PolicyRepaired ==
    ASSUME ClusterInv, RepairInv, Policy
    PROVE  RepairInv'
<1>1. CASE Exhausted
    BY <1>1, EndsRepaired, Zenon DEF Exhausted
<1>2. CASE /\ PolicyOr("reconnect")
           /\ UNCHANGED <<pipelined, nodeVars, wireVars, connVars, cache, queue, cmdVars>>
  <2>1. at = "policy" /\ at' = "reconnect" /\ UNCHANGED <<goal, next, target, rx>>
      BY <1>2, Zenon DEF Policy, PolicyOr, Goto
  <2>2. UNCHANGED <<nodeVars, cache, queue, link, replies>>
      BY <1>2, Zenon DEF wireVars, connVars
  <2>3. /\ Redirecting' => Redirecting
        /\ Repairing' /\ at \notin {"sync", "ask"} /\ goal' \in Goals
      BY <2>1, Zenon DEF Redirecting, Repairing, RepairInv
  <2> QED
      BY <2>1, <2>2, <2>3, RouterRepaired, Zenon
<1> QED
    BY <1>1, <1>2, Zenon DEF Policy

LEMMA WaitRepaired ==
    ASSUME ClusterInv, RepairInv, Wait
    PROVE  RepairInv'
<1>1. /\ UNCHANGED <<nodeVars, cache, queue, link, replies>>
      /\ at = "wait" /\ rx # None /\ rx' = None
    BY Zenon DEF Wait, wireVars, connVars
<1>2. ~Repairing /\ at \notin {"sync", "ask"} /\ goal \in Goals
    BY <1>1, Zenon DEF Repairing, RepairInv
<1>3. CASE WaitContinue
    BY <1>1, <1>2, <1>3, IdleFacts, RouterRepaired, Zenon DEF WaitContinue
<1>4. CASE WaitMoved
  <2>1. UNCHANGED <<goal, target>> /\ (at' = "write" \/ (at' = "sync" /\ next' = "write"))
      BY <1>4, Zenon DEF WaitMoved
  <2>2. Redirecting' => Redirecting
      BY <2>1, Zenon DEF Redirecting
  <2> QED
      BY <1>1, <1>2, <2>1, <2>2, RouterRepaired, Zenon
<1>5. CASE WaitClosed
  <2>1. UNCHANGED <<goal, target>> /\ at' = "policy" /\ next' \in {"idle", "write"}
      BY <1>5, Zenon DEF WaitClosed
  <2>2. Redirecting' => Redirecting
      BY <2>1, Zenon DEF Redirecting
  <2> QED
      BY <1>1, <1>2, <2>1, <2>2, RouterRepaired, Zenon
<1>6. CASE WaitAsk
  <2>1. rx.kind = "ask" /\ at' = "ask" /\ goal' = "write" /\ target' = rx.server
      BY <1>6, Zenon DEF WaitAsk
  <2>2. UNCHANGED <<owner, importer, migrations>>
      BY <1>1, Zenon DEF nodeVars
  <2>3. /\ Reported' = Reported /\ Dest' = Dest /\ (MigrationOver' <=> MigrationOver) /\ ~Repairing'
      BY <1>1, <2>1, <2>2, Zenon DEF Reported, Dest, MigrationOver, Repairing
  <2>4. ASSUME migrations <= 1
        PROVE  Asks' /\ CachedOwner'
    <3>1. Asks /\ CachedOwner
        BY <2>4, Zenon DEF RepairInv
    <3>2. migrations = 1 /\ rx.server = Dest
        BY <1>1, <2>1, <3>1, Zenon DEF Asks
    <3>3. Asks'
        BY <1>1, <2>1, <2>2, <2>3, <3>1, <3>2, Zenon DEF Asks
    <3>4. CachedOwner'
        BY <1>1, <1>2, <2>3, <3>1, Zenon DEF CachedOwner
    <3> QED
        BY <3>3, <3>4, Zenon
  <2>5. goal' \in Goals
      BY <2>1, Zenon DEF Goals
  <2> QED
      BY <1>1, <2>2, <2>3, <2>4, <2>5, Zenon DEF RepairInv
<1> QED
    BY <1>3, <1>4, <1>5, <1>6, Zenon DEF Wait

LEMMA AskCheckRepaired ==
    ASSUME ClusterInv, RepairInv, AskCheck
    PROVE  RepairInv'
<1>1. /\ UNCHANGED <<nodeVars, cache, queue, link, replies, rx, goal, target>> /\ at = "ask"
      /\ \/ link[target] \in Working /\ at' = "askwrite" /\ next' = next
         \/ at' = "sync" /\ next' = "askwrite"
    BY Zenon DEF AskCheck, Goto, wireVars, connVars
<1>2. Redirecting /\ ~Repairing /\ ~Repairing' /\ goal' \in Goals
    BY <1>1, Zenon DEF Redirecting, Repairing, RepairInv
<1>3. CASE at' = "sync"
    BY <1>1, <1>2, <1>3, RouterRepaired, Zenon
<1>4. CASE link[target] \in Working /\ at' = "askwrite"
  <2>1. UNCHANGED <<owner, importer, migrations>>
      BY <1>1, Zenon DEF nodeVars
  <2>2. ASSUME migrations <= 1, CachedOwner
        PROVE  CachedOwner'
    <3>1. target = Dest
        BY <1>2, <2>2, Zenon DEF RepairInv, Asks
    <3>2. MigrationOver /\ cache = owner => link[cache] # "none"
        BY <1>4, <3>1, Zenon DEF MigrationOver, Dest, Working
    <3>3. link[cache] = "none" => cache \in Reported
        BY <1>2, <2>2, <3>2, Zenon DEF CachedOwner
    <3>4. Reported' = Reported
        BY <1>1, Zenon DEF Reported
    <3> QED
        BY <1>1, <3>3, <3>4, Zenon DEF CachedOwner
  <2>3. /\ \A n \in Nodes : \A r \in Range(replies'[n]) : r.kind = "ask" => r \in Range(replies[n])
        /\ \A m \in Range(queue') : m.type = "ask" => m \in Range(queue)
      BY <1>1, Zenon
  <2> QED
      BY <1>1, <1>2, <2>1, <2>2, <2>3, RepairFrame, Zenon
<1> QED
    BY <1>1, <1>3, <1>4, Zenon

(* A failed write closes connections, the one to the cached owner perhaps. *)
LEMMA ClosingRepaired ==
    ASSUME ClusterInv, RepairInv, NEW order \in Seq(Nodes), NEW held, Closing(order, {}, held),
           UNCHANGED <<nodeVars, cache, rx>>, goal' \in Goals,
           Redirecting' => Redirecting /\ target' = target,
           at \notin {"sync", "ask", "policy", "reconnect", "ended"}
    PROVE  RepairInv'
<1>1. /\ \A n \in Nodes : \A r \in Range(replies'[n]) : r.kind = "ask" => r \in Range(replies[n])
      /\ \A m \in Range(queue') : m.type = "ask" => m \in Range(queue)
      /\ \A n \in Nodes : link'[n] =
            IF n \in {} THEN "up" ELSE IF n \in Range(order) THEN "none" ELSE link[n]
      /\ Reported \subseteq Reported'
      /\ \A n \in Range(order) :
            at \notin {"policy", "reconnect"} /\ link[n] # "none" => n \in Reported'
    BY ClosingReports, Zenon
<1>2. cache \in Nodes
    BY Zenon DEF ClusterInv, ConnTypes
<1>3. UNCHANGED <<owner, importer, migrations>>
    BY Zenon DEF nodeVars
<1>4. ASSUME CachedOwner
      PROVE  CachedOwner'
  <2>1. link[cache] = "none" => cache \in Reported'
      BY <1>1, <1>4, Zenon DEF CachedOwner, Repairing
  <2>2. link'[cache] = "none" => link[cache] = "none" \/ cache \in Range(order)
      BY <1>1, <1>2, Zenon
  <2>3. link'[cache] = "none" => cache \in Reported'
      BY <1>1, <2>1, <2>2, Zenon
  <2> QED
      BY <2>3, Zenon DEF CachedOwner
<1> QED
    BY <1>1, <1>3, <1>4, RepairFrame, Zenon

LEMMA FailureRepaired ==
    ASSUME ClusterInv, RepairInv,
           \/ at = "write" /\ (WriteFails \/ WriteMissing)
           \/ at = "retry" /\ RetryFails
    PROVE  RepairInv'
<1>1. CASE at = "write" /\ WriteFails
  <2>1. Idle /\ UNCHANGED <<nodeVars, cache, rx>> /\ \E held : Closing(<<cache>>, {}, held)
      BY <1>1, Zenon DEF WriteFails
  <2>2. <<cache>> \in Seq(Nodes)
      BY SingleFacts, Zenon DEF ClusterInv, ConnTypes
  <2> QED
      BY <1>1, <2>1, <2>2, IdleFacts, ClosingRepaired, Zenon
<1>2. CASE at = "write" /\ WriteMissing
    BY <1>2, EndsRepaired, Zenon DEF WriteMissing
<1>3. CASE at = "retry" /\ RetryFails
  <2>1. PICK order \in Orders(Writers) : Closing(order, {}, {})
      BY <1>3, Zenon DEF RetryFails
  <2>2. Writers \subseteq Nodes
      BY Zenon DEF Writers
  <2>3. order \in Seq(Nodes)
      BY <2>2, OrderOfNodes, Zenon
  <2>4. /\ UNCHANGED <<nodeVars, cache, rx, goal, target>> /\ at' = next /\ next' = "idle"
      BY <1>3, Zenon DEF RetryFails
  <2>5. next \in {"idle", "write", "direct", "ask", "askwrite"} /\ goal \in Goals
      BY Zenon DEF ClusterInv, RouterTypes, RepairInv
  <2>6. Redirecting' => Redirecting
      BY <1>3, <2>4, <2>5, Zenon DEF Redirecting
  <2> QED
      BY <1>3, <2>1, <2>3, <2>4, <2>5, <2>6, ClosingRepaired, Zenon
<1> QED
    BY <1>1, <1>2, <1>3, Zenon

LEMMA AskWriteRepaired ==
    ASSUME ClusterInv, RepairInv, AskWrite
    PROVE  RepairInv'
<1>1. /\ at = "askwrite" /\ UNCHANGED <<nodeVars, cache, rx>>
      /\ \/ UNCHANGED <<queue, link, replies>> /\ (Goto("asked") \/ Goto("once"))
         \/ Closing(<<target>>, {}, {}) /\ Goto("once")
    BY Zenon DEF AskWrite, Sent, wireVars, connVars
<1>2. UNCHANGED <<goal, next, target>> /\ at' \in {"asked", "once"}
    BY <1>1, Zenon DEF Goto
<1>3. /\ Redirecting /\ ~Repairing /\ goal' \in Goals
      /\ at \notin {"sync", "ask", "policy", "reconnect", "ended"}
    BY <1>1, <1>2, Zenon DEF Redirecting, Repairing, RepairInv
<1>4. CASE UNCHANGED <<queue, link, replies>>
    BY <1>1, <1>2, <1>3, <1>4, RouterRepaired, Zenon
<1>5. CASE Closing(<<target>>, {}, {})
  <2>1. target \in Nodes
      BY <1>1, Zenon DEF ClusterInv, Control
  <2>2. <<target>> \in Seq(Nodes)
      BY <2>1, SingleFacts, Zenon
  <2> QED
      BY <1>1, <1>2, <1>3, <1>5, <2>2, ClosingRepaired, Zenon
<1> QED
    BY <1>1, <1>4, <1>5, Zenon

LEMMA InitRepairInv ==
    Init => RepairInv
<1> SUFFICES ASSUME Init
             PROVE  RepairInv
    OBVIOUS
<1>1. /\ owner \in Nodes /\ importer = None /\ cache = owner /\ queue = <<>>
      /\ replies = [n \in Nodes |-> <<>>]
      /\ link = [n \in Nodes |-> IF n \in Primaries THEN "up" ELSE "none"]
      /\ at = "idle" /\ next = "idle" /\ goal = "none" /\ rx = None /\ migrations = 0
    BY Zenon DEF Init
<1>2. migrations \in Nat /\ migrations # 1
    BY <1>1
<1>3. \A n \in Nodes : replies[n] = <<>>
    BY <1>1, Zenon
<1>4. ~Redirecting /\ ~MigrationOver /\ goal \in Goals
    BY <1>1, <1>2, Zenon DEF Redirecting, MigrationOver, Goals
<1>5. Asks
    BY <1>1, <1>3, <1>4, EmptyFacts, Zenon DEF Asks
<1>6. link[cache] = "up"
    BY <1>1, Zenon DEF Primaries
<1>7. CachedOwner
    BY <1>6, Zenon DEF CachedOwner
<1> QED
    BY <1>1, <1>2, <1>4, <1>5, <1>7, Zenon DEF RepairInv

LEMMA StepKeepsRepairInv ==
    ClusterInv /\ RepairInv /\ [Next]_vars => RepairInv'
<1> SUFFICES ASSUME ClusterInv, RepairInv, [Next]_vars
             PROVE  RepairInv'
    OBVIOUS
<1>1. CASE \E c \in Commands : Submit(c)
    BY <1>1, SubmitRepaired, Zenon
<1>2. CASE Migrate \/ MigrationEnds
    BY <1>2, MigrationRepaired, Zenon
<1>3. CASE \E n \in Nodes : Serve(n) \/ Break(n) \/ ReadReply(n) \/ ReaderEnds(n)
    BY <1>3, ServeRepaired, BreakRepaired, ReadReplyRepaired, ReaderEndsRepaired, Zenon
<1>4. CASE Take
    BY <1>4, TakeRepaired, Zenon
<1>5. CASE Write
    BY <1>5, QuietRepaired, FailureRepaired, Zenon DEF Write
<1>6. CASE Wait
    BY <1>6, WaitRepaired, Zenon
<1>7. CASE Retry
    BY <1>7, QuietRepaired, FailureRepaired, Zenon DEF Retry
<1>8. CASE Sync \/ Policy \/ Reconnect
    BY <1>8, SyncRepaired, PolicyRepaired, ReconnectRepaired, Zenon
<1>9. CASE AskCheck \/ AskWrite \/ Asked
    BY <1>9, AskCheckRepaired, AskWriteRepaired, QuietRepaired, Zenon
<1>10. CASE Direct
    BY <1>10, QuietRepaired, Zenon DEF Direct
<1>11. CASE UNCHANGED vars
  <2>1. UNCHANGED <<nodeVars, cache, queue, link, replies, rx, goal, at, next, target>>
      BY <1>11, Zenon DEF vars, connVars, wireVars, pcVars
  <2>2. (Redirecting' <=> Redirecting) /\ (Repairing' <=> Repairing) /\ goal' \in Goals
      BY <2>1, Zenon DEF Redirecting, Repairing, RepairInv
  <2> QED
      BY <2>1, <2>2, RouterRepaired, Zenon
<1> QED
    BY <1>1, <1>2, <1>3, <1>4, <1>5, <1>6, <1>7, <1>8, <1>9, <1>10, <1>11, Zenon DEF Next, Router

(* A dead or missing connection to the cached owner is about to be repaired: its reader
   task has queued a Reconnect, or the router is reconnecting (broadcast_reader_error,
   process_reconnect and the errors of clustered::send_command). *)
THEOREM RepairsAreQueued ==
    Spec => []RepairQueued
<1>1. ClusterInv /\ RepairInv => RepairQueued
  <2> SUFFICES ASSUME ClusterInv, RepairInv
               PROVE  RepairQueued
      OBVIOUS
  <2>1. ASSUME migrations <= 1, at \in {"idle", "write", "wait"}, link[cache] = "none"
        PROVE  Reported # {}
    <3>1. CachedOwner /\ ~Repairing /\ at \notin {"sync", "ask"}
        BY <2>1, Zenon DEF RepairInv, Repairing
    <3> QED
        BY <2>1, <3>1, Zenon DEF CachedOwner
  <2> QED
      BY <2>1, Zenon DEF RepairQueued, ClusterInv
<1>2. Init => RepairInv
    BY InitRepairInv
<1>3. ClusterInv /\ RepairInv /\ [Next]_vars => RepairInv'
    BY StepKeepsRepairInv
<1> QED
    BY <1>1, <1>2, <1>3, ClusterInvariance, PTL DEF Spec
=============================================================================
