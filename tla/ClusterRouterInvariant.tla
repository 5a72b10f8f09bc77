----------------------- MODULE ClusterRouterInvariant -----------------------
(***************************************************************************)
(* Theorems about ClusterRouter, for any nodes and commands and any number *)
(* of migrations, faults, attempts and reconnections. First part: the      *)
(* inductive invariant (where a command is while its caller waits, and     *)
(* which connections are about to be replaced), and that the nodes, the    *)
(* readers and the repairs of the connections keep it.                     *)
(***************************************************************************)
EXTENDS ClusterRouter, FiniteSetTheorems, TLAPS

Frames == Commands \cup {Asking}
ReconnectMessages == [type : {"reconnect"}, cmd : {None}, server : Nodes]
Messages ==
    [type : {"command"}, cmd : Commands, server : {None}]
    \cup [type : {"ask", "moved"}, cmd : Commands, server : Nodes]
    \cup ReconnectMessages
Replies == [kind : {"ok", "ask", "moved"}, server : Nodes]
Heard ==
    [kind : {"ask", "moved", "closed", "asked"}, server : Nodes]
    \cup [kind : {"continue"}, server : {None}]
Stations == {"idle", "write", "wait", "ask", "askwrite", "asked", "direct", "sync", "retry",
              "policy", "reconnect", "once", "ended"}

NodeTypes ==
    /\ owner \in Nodes /\ importer \in Nodes \cup {None} /\ others \subseteq Nodes
    /\ requests \in [Nodes -> Seq(Frames)]
    /\ replies \in [Nodes -> Seq(Replies)]
ConnTypes ==
    /\ link \in [Nodes -> {"none", "up", "down", "ended"}]
    /\ inflight \in [Nodes -> Seq(Frames)]
    /\ retry \in Seq(Commands)
    /\ cache \in Nodes
RouterTypes ==
    /\ queue \in Seq(Messages)
    /\ at \in Stations
    /\ next \in {"idle", "write", "direct", "ask", "askwrite"}
    /\ cmd \in Commands \cup {None} /\ target \in Nodes \cup {None}
    /\ rx \in Heard \cup {None}
CommandTypes ==
    /\ attempted \in [Commands -> Nat] /\ channel \subseteq Commands
    /\ answer \in [Commands -> {"unsent", "pending", "ok", "error", "canceled"}]

(* Where the router has a command in its hands, a server to go to, a message. *)
Control ==
    /\ at \in {"idle", "ended"} => cmd = None
    /\ at \in {"write", "wait", "ask", "askwrite", "asked", "once", "direct", "sync"} => cmd \in Commands
    /\ at \in {"retry", "policy", "reconnect"} => (cmd = None <=> next = "idle")
    /\ at = "sync" => next \in {"write", "direct", "askwrite"}
    /\ at \in {"ask", "askwrite", "asked", "once", "direct"} => target \in Nodes
    /\ at \in {"sync", "retry", "policy", "reconnect"} /\ next \in {"ask", "askwrite", "direct"} =>
           target \in Nodes
    /\ rx # None => at \in {"wait", "asked"}
    /\ cmd \in Commands => answer[cmd] # "unsent"
    /\ cmd \in Commands /\ ~(at = "wait" /\ (rx = None \/ rx.kind = "continue")) =>
           answer[cmd] = "pending"
    /\ at = "wait" /\ rx # None /\ rx.kind = "continue" => answer[cmd] # "pending"

(* What is on a connection: a shared buffer pairs with the frames on the wire, one that
   is not there is empty, and ASKING is awaited. *)
Wires ==
    \A n \in Nodes :
        /\ link[n] = "none" => inflight[n] = <<>> /\ requests[n] = <<>> /\ replies[n] = <<>>
        /\ link[n] = "up" => Len(inflight[n]) = Len(requests[n]) + Len(replies[n])
        /\ Asking \in Range(inflight[n]) => at = "asked" /\ rx = None /\ n = target

(* No buffer holds a command twice. *)
Queued(c) == \E i \in DOMAIN queue : queue[i].cmd = c
Distinct ==
    /\ \A i, j \in DOMAIN queue : queue[i].cmd = queue[j].cmd /\ queue[i].cmd \in Commands => i = j
    /\ IsInjective(retry)
    /\ \A n \in Nodes : IsInjective(inflight[n])

(* A command whose caller waits is in one buffer, or in the router's hands. *)
Flying(c) == \E n \in Nodes : c \in Range(inflight[n])
Placed(c) ==
    /\ answer[c] = "pending" <=> Queued(c) \/ c \in Range(retry) \/ Flying(c) \/ HeldByRouter(c)
    /\ ~(Queued(c) /\ c \in Range(retry)) /\ ~(Queued(c) /\ Flying(c))
    /\ ~(Queued(c) /\ HeldByRouter(c)) /\ ~(c \in Range(retry) /\ Flying(c))
    /\ ~(c \in Range(retry) /\ HeldByRouter(c)) /\ ~(Flying(c) /\ HeldByRouter(c))
    /\ \A m, n \in Nodes : c \in Range(inflight[m]) /\ c \in Range(inflight[n]) => m = n
Placement == \A c \in Commands : Placed(c)

ClusterInv ==
    /\ NodeTypes /\ ConnTypes /\ RouterTypes /\ CommandTypes
    /\ Control /\ Wires /\ Distinct /\ Placement /\ EndedReported

-----------------------------------------------------------------------------
(* Sequences. *)

LEMMA AppendFacts ==
    ASSUME NEW S, NEW s \in Seq(S), NEW x \in S
    PROVE  /\ Append(s, x) \in Seq(S) /\ Range(Append(s, x)) = Range(s) \cup {x}
           /\ Len(Append(s, x)) = Len(s) + 1
           /\ IsInjective(s) /\ x \notin Range(s) => IsInjective(Append(s, x))
<1>1. /\ Append(s, x) \in Seq(S) /\ DOMAIN Append(s, x) = 1..(Len(s) + 1) /\ Len(Append(s, x)) = Len(s) + 1
      /\ \A i \in 1..Len(s) : Append(s, x)[i] = s[i]
      /\ Append(s, x)[Len(s) + 1] = x /\ DOMAIN s = 1..Len(s) /\ Len(s) \in Nat
    OBVIOUS
<1>2. Range(Append(s, x)) = Range(s) \cup {x}
    BY <1>1 DEF Range
<1>3. ASSUME IsInjective(s), x \notin Range(s)
      PROVE  IsInjective(Append(s, x))
    BY <1>1, <1>3 DEF Range, IsInjective
<1> QED
    BY <1>1, <1>2, <1>3

LEMMA TailFacts ==
    ASSUME NEW S, NEW s \in Seq(S), s # <<>>
    PROVE  /\ Tail(s) \in Seq(S) /\ Head(s) \in S /\ Head(s) \in Range(s) /\ Len(s) = Len(Tail(s)) + 1
           /\ Range(s) = Range(Tail(s)) \cup {Head(s)}
           /\ IsInjective(s) => IsInjective(Tail(s)) /\ Head(s) \notin Range(Tail(s))
<1>1. /\ Tail(s) \in Seq(S) /\ Head(s) = s[1] /\ Len(s) \in Nat /\ Len(s) > 0 /\ Head(s) \in S
      /\ DOMAIN s = 1..Len(s) /\ DOMAIN Tail(s) = 1..(Len(s) - 1) /\ Len(Tail(s)) = Len(s) - 1
      /\ \A i \in 1..(Len(s) - 1) : Tail(s)[i] = s[i + 1]
    OBVIOUS
<1>2. Head(s) \in Range(s)
    BY <1>1 DEF Range
<1>3. Range(s) \subseteq Range(Tail(s)) \cup {Head(s)}
  <2> SUFFICES ASSUME NEW i \in 1..Len(s), i # 1
               PROVE  s[i] \in Range(Tail(s))
      BY <1>1 DEF Range
  <2>1. i - 1 \in 1..(Len(s) - 1) /\ Tail(s)[i - 1] = s[i]
      BY <1>1
  <2> QED
      BY <1>1, <2>1 DEF Range
<1>4. Range(Tail(s)) \subseteq Range(s)
    BY <1>1 DEF Range
<1>5. ASSUME IsInjective(s)
      PROVE  IsInjective(Tail(s)) /\ Head(s) \notin Range(Tail(s))
    BY <1>1, <1>5 DEF Range, IsInjective
<1> QED
    BY <1>1, <1>2, <1>3, <1>4, <1>5

LEMMA ConcatFacts ==
    ASSUME NEW S, NEW s \in Seq(S), NEW t \in Seq(S)
    PROVE  /\ s \o t \in Seq(S) /\ Range(s \o t) = Range(s) \cup Range(t)
           /\ IsInjective(s) /\ IsInjective(t) /\ Range(s) \cap Range(t) = {} => IsInjective(s \o t)
<1>1. /\ s \o t \in Seq(S) /\ DOMAIN (s \o t) = 1..(Len(s) + Len(t)) /\ Len(s) \in Nat /\ Len(t) \in Nat
      /\ DOMAIN s = 1..Len(s) /\ DOMAIN t = 1..Len(t)
      /\ \A i \in 1..(Len(s) + Len(t)) : (s \o t)[i] = IF i <= Len(s) THEN s[i] ELSE t[i - Len(s)]
    OBVIOUS
<1>2. Range(s \o t) \subseteq Range(s) \cup Range(t)
    BY <1>1 DEF Range
<1>3. Range(s) \subseteq Range(s \o t)
    BY <1>1 DEF Range
<1>4. Range(t) \subseteq Range(s \o t)
  <2> SUFFICES ASSUME NEW i \in 1..Len(t)
               PROVE  t[i] \in Range(s \o t)
      BY <1>1 DEF Range
  <2>1. i + Len(s) \in 1..(Len(s) + Len(t)) /\ (s \o t)[i + Len(s)] = t[i]
      BY <1>1
  <2> QED
      BY <1>1, <2>1 DEF Range
<1>5. ASSUME IsInjective(s), IsInjective(t), Range(s) \cap Range(t) = {}
      PROVE  IsInjective(s \o t)
  <2> SUFFICES ASSUME NEW i \in 1..(Len(s) + Len(t)), NEW j \in 1..(Len(s) + Len(t)),
                      (s \o t)[i] = (s \o t)[j]
               PROVE  i = j
      BY <1>1 DEF IsInjective
  <2>1. CASE i <= Len(s) /\ j <= Len(s)
      BY <1>1, <1>5, <2>1 DEF IsInjective
  <2>2. CASE i > Len(s) /\ j > Len(s)
    <3>1. i - Len(s) \in 1..Len(t) /\ j - Len(s) \in 1..Len(t) /\ t[i - Len(s)] = t[j - Len(s)]
        BY <1>1, <2>2
    <3>2. i - Len(s) = j - Len(s)
        BY <1>1, <1>5, <3>1 DEF IsInjective
    <3> QED
        BY <1>1, <3>2
  <2>3. CASE i <= Len(s) /\ j > Len(s)
    <3>1. s[i] = t[j - Len(s)] /\ i \in 1..Len(s) /\ j - Len(s) \in 1..Len(t)
        BY <1>1, <2>3
    <3> QED
        BY <1>1, <1>5, <3>1 DEF Range
  <2>4. CASE i > Len(s) /\ j <= Len(s)
    <3>1. s[j] = t[i - Len(s)] /\ j \in 1..Len(s) /\ i - Len(s) \in 1..Len(t)
        BY <1>1, <2>4
    <3> QED
        BY <1>1, <1>5, <3>1 DEF Range
  <2> QED
      BY <1>1, <2>1, <2>2, <2>3, <2>4
<1> QED
    BY <1>1, <1>2, <1>3, <1>4, <1>5

LEMMA JoinFacts ==
    ASSUME NEW S, NEW s \in Seq(S), NEW t \in Seq(S),
           IsInjective(s), IsInjective(t), Range(s) \cap Range(t) = {}
    PROVE  s \o t \in Seq(S) /\ IsInjective(s \o t) /\ Range(s \o t) = Range(s) \cup Range(t)
<1>1. /\ s \o t \in Seq(S) /\ Range(s \o t) = Range(s) \cup Range(t)
      /\ IsInjective(s) /\ IsInjective(t) /\ Range(s) \cap Range(t) = {} => IsInjective(s \o t)
    BY ConcatFacts
<1> QED
    BY <1>1, Zenon

LEMMA EmptyFacts ==
    ASSUME NEW S
    PROVE  <<>> \in Seq(S) /\ Range(<<>>) = {} /\ IsInjective(<<>>) /\ Len(<<>>) = 0
<1>1. <<>> \in Seq(S) /\ DOMAIN <<>> = {} /\ Len(<<>>) = 0
    OBVIOUS
<1> QED
    BY <1>1 DEF Range, IsInjective

LEMMA SingleFacts ==
    ASSUME NEW S, NEW x \in S
    PROVE  <<x>> \in Seq(S) /\ DOMAIN <<x>> = {1} /\ <<x>>[1] = x /\ Range(<<x>>) = {x} /\ IsInjective(<<x>>)
<1>1. <<x>> \in Seq(S) /\ DOMAIN <<x>> = {1} /\ <<x>>[1] = x
    OBVIOUS
<1> QED
    BY <1>1 DEF Range, IsInjective

(* Going through a set in some order. *)
LEMMA OrderFacts ==
    ASSUME NEW S, IsFiniteSet(S), NEW f \in Orders(S)
    PROVE  /\ f \in Seq(S) /\ f \in [1..Cardinality(S) -> S] /\ Cardinality(S) \in Nat
           /\ DOMAIN f = 1..Cardinality(S) /\ IsInjective(f) /\ Range(f) = S
<1>1. Cardinality(S) \in Nat
    BY FS_CardinalityType
<1>2. /\ f \in [1..Cardinality(S) -> S] /\ IsInjective(f)
      /\ \A x \in S : \E i \in 1..Cardinality(S) : f[i] = x
    BY DEF Orders, Bijection, Injection, Surjection
<1>3. f \in Seq(S)
    BY <1>1, <1>2
<1>4. Range(f) = S
    BY <1>2 DEF Range
<1> QED
    BY <1>1, <1>2, <1>3, <1>4

(* The commands that a reader task leaves in the shared buffer. *)
Unread(n) == Range(inflight[n]) \ (Blocked(n) \cup Final(n))

LEMMA LeftFinite ==
    ASSUME inflight \in [Nodes -> Seq(Frames)], NEW order \in Seq(Nodes)
    PROVE  IsFiniteSet(UNION {{k} \X Left(order[k]) : k \in DOMAIN order})
<1> DEFINE Part == [k \in DOMAIN order |-> {k} \X Left(order[k])]
           Parts == {Part[k] : k \in DOMAIN order}
<1>1. DOMAIN order = 1..Len(order) /\ Len(order) \in Nat
    OBVIOUS
<1>2. IsFiniteSet(DOMAIN order)
    BY <1>1, FS_Interval
<1>3. IsFiniteSet(Parts)
  <2>1. Part \in [DOMAIN order -> Parts] /\ \A p \in Parts : \E k \in DOMAIN order : Part[k] = p
      OBVIOUS
  <2>2. Part \in Surjection(DOMAIN order, Parts)
      BY <2>1 DEF Surjection
  <2> QED
      BY <1>2, <2>2, FS_Surjection
<1>4. \A p \in Parts : IsFiniteSet(p)
  <2> SUFFICES ASSUME NEW k \in DOMAIN order
               PROVE  IsFiniteSet({k} \X Left(order[k]))
      OBVIOUS
  <2>1. order[k] \in Nodes /\ inflight[order[k]] \in Seq(Frames)
      OBVIOUS
  <2>2. /\ Left(order[k]) \subseteq 1..Len(inflight[order[k]]) /\ Len(inflight[order[k]]) \in Nat
      BY <2>1 DEF Left
  <2>3. IsFiniteSet(Left(order[k]))
    <3>1. IsFiniteSet(1..Len(inflight[order[k]]))
        BY <2>2, FS_Interval
    <3> QED
        BY <2>2, <3>1, FS_Subset, Zenon
  <2> QED
      BY <2>3, FS_Singleton, FS_Product
<1>5. IsFiniteSet(UNION Parts)
    BY <1>3, <1>4, FS_UNION
<1>6. Parts = {{k} \X Left(order[k]) : k \in DOMAIN order}
    OBVIOUS
<1> QED
    BY <1>5, <1>6

LEMMA DrainedFacts ==
    ASSUME inflight \in [Nodes -> Seq(Frames)], NEW order \in Seq(Nodes), IsInjective(order),
           \A n \in Nodes : IsInjective(inflight[n]),
           \A m, n \in Range(order) : m # n => Range(inflight[m]) \cap Range(inflight[n]) = {},
           NEW left \in Drained(order)
    PROVE  /\ left \in Seq(Frames) /\ IsInjective(left)
           /\ Range(left) = UNION {Unread(n) : n \in Range(order)}
<1> DEFINE P == UNION {{k} \X Left(order[k]) : k \in DOMAIN order}
           Item(p) == inflight[order[p[1]]][p[2]]
<1>1. PICK f \in Orders(P) : left = [i \in DOMAIN f |-> Item(f[i])]
    BY DEF Drained, Ascending
<1>2. IsFiniteSet(P)
    BY LeftFinite
<1> HIDE DEF P
<1>3. /\ f \in [1..Cardinality(P) -> P] /\ Cardinality(P) \in Nat /\ DOMAIN f = 1..Cardinality(P)
      /\ IsInjective(f) /\ Range(f) = P
    BY <1>2, OrderFacts
<1>4. \A p \in P : /\ p[1] \in DOMAIN order /\ p[2] \in Left(order[p[1]]) /\ p = <<p[1], p[2]>>
                   /\ order[p[1]] \in Range(order) /\ order[p[1]] \in Nodes
    BY DEF P, Range
<1>5. \A p \in P : /\ p[2] \in DOMAIN inflight[order[p[1]]] /\ Item(p) \in Unread(order[p[1]])
                   /\ Item(p) \in Range(inflight[order[p[1]]]) /\ Item(p) \in Frames
  <2> SUFFICES ASSUME NEW p \in P
               PROVE  /\ p[2] \in DOMAIN inflight[order[p[1]]] /\ Item(p) \in Unread(order[p[1]])
                      /\ Item(p) \in Range(inflight[order[p[1]]]) /\ Item(p) \in Frames
      OBVIOUS
  <2>1. /\ p[2] \in DOMAIN inflight[order[p[1]]]
        /\ Item(p) \notin Blocked(order[p[1]]) \cup Final(order[p[1]])
      BY <1>4 DEF Left
  <2>2. Item(p) \in Range(inflight[order[p[1]]])
      BY <2>1 DEF Range
  <2>3. inflight[order[p[1]]] \in Seq(Frames)
      BY <1>4
  <2> QED
      BY <2>1, <2>2, <2>3 DEF Unread
<1>6. left \in Seq(Frames)
    BY <1>1, <1>3, <1>5
<1>7. IsInjective(left)
  <2> SUFFICES ASSUME NEW i \in DOMAIN f, NEW j \in DOMAIN f, Item(f[i]) = Item(f[j])
               PROVE  i = j
      BY <1>1 DEF IsInjective
  <2>1. f[i] \in P /\ f[j] \in P
      BY <1>3
  <2>2. order[f[i][1]] = order[f[j][1]]
      BY <1>4, <1>5, <2>1
  <2>3. f[i][1] = f[j][1]
      BY <1>4, <2>1, <2>2 DEF IsInjective
  <2>4. f[i][2] = f[j][2]
      BY <1>4, <1>5, <2>1, <2>2 DEF IsInjective
  <2> QED
      BY <1>3, <1>4, <2>1, <2>3, <2>4 DEF IsInjective
<1>8. Range(left) = UNION {Unread(n) : n \in Range(order)}
  <2>1. ASSUME NEW c \in Range(left)
        PROVE  \E n \in Range(order) : c \in Unread(n)
    <3>1. PICK i \in DOMAIN f : c = Item(f[i])
        BY <1>1 DEF Range
    <3>2. f[i] \in P
        BY <1>3
    <3> QED
        BY <1>4, <1>5, <3>1, <3>2
  <2>2. ASSUME NEW n \in Range(order), NEW c \in Unread(n)
        PROVE  c \in Range(left)
    <3>1. PICK k \in DOMAIN order : order[k] = n
        BY DEF Range
    <3>2. PICK i \in DOMAIN inflight[n] : inflight[n][i] = c
        BY DEF Unread, Range
    <3>3. i \in Left(order[k])
        BY <3>1, <3>2 DEF Left, Unread
    <3>4. <<k, i>> \in P
        BY <3>3 DEF P
    <3>5. PICK j \in DOMAIN f : f[j] = <<k, i>>
        BY <1>3, <3>4 DEF Range
    <3>6. left[j] = c /\ j \in DOMAIN left
        BY <1>1, <3>1, <3>2, <3>5
    <3> QED
        BY <3>6 DEF Range
  <2> QED
      BY <2>1, <2>2
<1> QED
    BY <1>6, <1>7, <1>8

LEMMA ReportsFacts ==
    ASSUME NEW order \in Seq(Nodes), NEW reports \in Reports(order)
    PROVE  /\ reports \in Seq(ReconnectMessages)
           /\ \A n \in Range(order) : link[n] \in Working /\ n \notin Reported =>
                 Message("reconnect", None, n) \in Range(reports)
<1> DEFINE E == {k \in DOMAIN order : link[order[k]] \in Working /\ order[k] \notin Reported}
           P == E \X {0}
<1>1. PICK f \in Orders(P) : reports = [i \in DOMAIN f |-> Message("reconnect", None, order[f[i][1]])]
    BY DEF Reports, Ascending
<1>2. IsFiniteSet(P)
  <2>1. E \subseteq 1..Len(order) /\ Len(order) \in Nat
      OBVIOUS
  <2>2. IsFiniteSet(E)
      BY <2>1, FS_Interval, FS_Subset
  <2> QED
      BY <2>2, FS_Singleton, FS_Product
<1>3. \A p \in P : p[1] \in E /\ p[1] \in DOMAIN order /\ order[p[1]] \in Nodes
    OBVIOUS
<1>4. \A k \in E : <<k, 0>> \in P
    OBVIOUS
<1> HIDE DEF P
<1>5. /\ f \in [1..Cardinality(P) -> P] /\ Cardinality(P) \in Nat /\ DOMAIN f = 1..Cardinality(P)
      /\ Range(f) = P
    BY <1>2, OrderFacts
<1>6. reports \in Seq(ReconnectMessages)
  <2>1. \A n \in Nodes : Message("reconnect", None, n) \in ReconnectMessages
      BY DEF Message, ReconnectMessages
  <2> QED
      BY <1>1, <1>3, <1>5, <2>1
<1>7. ASSUME NEW n \in Range(order), link[n] \in Working, n \notin Reported
      PROVE  Message("reconnect", None, n) \in Range(reports)
  <2>1. PICK k \in DOMAIN order : order[k] = n
      BY DEF Range
  <2>2. <<k, 0>> \in P
      BY <1>4, <1>7, <2>1
  <2>3. PICK i \in DOMAIN f : f[i] = <<k, 0>>
      BY <1>5, <2>2 DEF Range
  <2>4. i \in DOMAIN reports /\ reports[i] = Message("reconnect", None, n)
      BY <1>1, <2>1, <2>3
  <2> QED
      BY <2>4 DEF Range
<1> QED
    BY <1>6, <1>7

-----------------------------------------------------------------------------
(* What the invariant says of a command and of the buffers. *)

(* Commands, ASKING and None are different things. *)
LEMMA Different ==
    /\ None \notin Commands /\ None \notin Nodes /\ Asking \notin Commands /\ None \notin Heard
    /\ IsFiniteSet(Nodes)
<1>1. Heard \subseteq [kind : Kinds, server : Nodes \cup {None}]
    BY DEF Heard, Kinds
<1> QED
    BY <1>1, ClusterRouterAssumption

LEMMA BlockedInFlight ==
    ASSUME ConnTypes, NEW n \in Nodes
    PROVE  /\ Blocked(n) \subseteq Range(inflight[n]) \cap channel
           /\ Final(n) \subseteq Range(inflight[n]) \cap channel
<1>1. inflight[n] \in Seq(Frames)
    BY Zenon DEF ConnTypes
<1>2. Blocked(n) \subseteq Range(inflight[n]) \cap channel
    BY <1>1, TailFacts DEF Blocked
<1>3. Final(n) \subseteq Range(inflight[n]) \cap channel
    BY DEF Final
<1> QED
    BY <1>2, <1>3

(* Away from ASKING the shared buffers hold commands, each in one of them. *)
LEMMA BuffersDisjoint ==
    ASSUME ConnTypes, Wires, Placement, at # "asked" \/ rx # None
    PROVE  /\ \A n \in Nodes : Range(inflight[n]) \subseteq Commands /\ inflight[n] \in Seq(Frames)
           /\ \A m, n \in Nodes : m # n => Range(inflight[m]) \cap Range(inflight[n]) = {}
<1>1. ASSUME NEW n \in Nodes
      PROVE  Range(inflight[n]) \subseteq Commands /\ inflight[n] \in Seq(Frames)
  <2>1. inflight[n] \in Seq(Frames)
      BY Zenon DEF ConnTypes
  <2>2. Range(inflight[n]) \subseteq Frames
      BY <2>1 DEF Range
  <2>3. Asking \notin Range(inflight[n])
      BY Zenon DEF Wires
  <2> QED
      BY <2>1, <2>2, <2>3, Zenon DEF Frames
<1>2. ASSUME NEW m \in Nodes, NEW n \in Nodes, m # n, NEW c \in Range(inflight[m]), c \in Range(inflight[n])
      PROVE  FALSE
    BY <1>1, <1>2, Zenon DEF Placement, Placed
<1> QED
    BY <1>1, <1>2, Zenon

LEMMA DrainedCommands ==
    ASSUME ConnTypes, Wires, Distinct, Placement, at # "asked" \/ rx # None,
           NEW order \in Seq(Nodes), IsInjective(order), NEW left \in Drained(order)
    PROVE  /\ left \in Seq(Commands) /\ IsInjective(left)
           /\ Range(left) = UNION {Unread(n) : n \in Range(order)}
<1>1. Range(order) \subseteq Nodes
    BY DEF Range
<1>2. \A m, n \in Range(order) : m # n => Range(inflight[m]) \cap Range(inflight[n]) = {}
    BY <1>1, BuffersDisjoint, Zenon
<1>3. inflight \in [Nodes -> Seq(Frames)] /\ \A n \in Nodes : IsInjective(inflight[n])
    BY Zenon DEF ConnTypes, Distinct
<1>4. /\ left \in Seq(Frames) /\ IsInjective(left)
      /\ Range(left) = UNION {Unread(n) : n \in Range(order)}
    BY <1>2, <1>3, DrainedFacts, Zenon
<1>5. Range(left) \subseteq Commands
    BY <1>1, <1>4, BuffersDisjoint, Zenon DEF Unread
<1>6. left \in Seq(Commands)
    BY <1>4, <1>5 DEF Range
<1> QED
    BY <1>4, <1>6, Zenon

(* Nothing happens to a command. *)
LEMMA PlacedStays ==
    ASSUME NEW c \in Commands, Placed(c), Queued(c)' <=> Queued(c),
           c \in Range(retry)' <=> c \in Range(retry),
           \A n \in Nodes : c \in Range(inflight[n])' <=> c \in Range(inflight[n]),
           HeldByRouter(c)' <=> HeldByRouter(c), answer'[c] = "pending" <=> answer[c] = "pending"
    PROVE  Placed(c)'
    BY Zenon DEF Placed, Flying

(* The queue only grows, by messages without a command. *)
LEMMA QueueReports ==
    ASSUME RouterTypes, Distinct, NEW reports \in Seq(ReconnectMessages), queue' = queue \o reports
    PROVE  /\ queue' \in Seq(Messages)
           /\ \A c \in Commands : Queued(c)' <=> Queued(c)
           /\ \A i, j \in DOMAIN queue' :
                 queue'[i].cmd = queue'[j].cmd /\ queue'[i].cmd \in Commands => i = j
           /\ Range(queue') = Range(queue) \cup Range(reports)
           /\ Reported \subseteq Reported'
<1>1. queue \in Seq(Messages)
    BY Zenon DEF RouterTypes
<1>2. reports \in Seq(Messages)
    BY DEF Messages
<1>3. queue' \in Seq(Messages) /\ Range(queue') = Range(queue) \cup Range(reports)
    BY <1>1, <1>2, ConcatFacts
<1>4. /\ DOMAIN queue' = 1..(Len(queue) + Len(reports)) /\ DOMAIN queue = 1..Len(queue)
      /\ Len(queue) \in Nat /\ Len(reports) \in Nat
      /\ \A i \in DOMAIN queue : i \in DOMAIN queue' /\ queue'[i] = queue[i]
      /\ \A i \in DOMAIN queue' : i \in DOMAIN queue \/ queue'[i] \in ReconnectMessages
    BY <1>1
<1>5. \A m \in ReconnectMessages : m.cmd \notin Commands
    BY Different DEF ReconnectMessages
<1>6. \A c \in Commands : Queued(c)' <=> Queued(c)
    BY <1>4, <1>5, Zenon DEF Queued
<1>7. ASSUME NEW i \in DOMAIN queue', NEW j \in DOMAIN queue',
             queue'[i].cmd = queue'[j].cmd, queue'[i].cmd \in Commands
      PROVE  i = j
    BY <1>4, <1>5, <1>7, Zenon DEF Distinct
<1>8. Reported \subseteq Reported'
    BY <1>3, Zenon DEF Reported
<1> QED
    BY <1>3, <1>6, <1>7, <1>8, Zenon

(* A connection that had ended may be gone, and a Reconnect stays in the queue. *)
LEMMA EndedKept ==
    ASSUME EndedReported, \A n \in Nodes : link'[n] = "ended" => link[n] = "ended",
           Reported \subseteq Reported', at \in {"policy", "reconnect"} => at' \in {"policy", "reconnect"}
    PROVE  EndedReported'
    BY Zenon DEF EndedReported

-----------------------------------------------------------------------------
(* Closing connections. *)

(* A command is lost with the connections in S. *)
Lost(c, S) == c \in Gone(S) \cup Failed(S)

LEMMA LostFacts ==
    ASSUME ConnTypes, Wires, Placement, at # "asked" \/ rx # None, NEW S \in SUBSET Nodes,
           NEW c \in Commands
    PROVE  /\ Lost(c, S) <=> \E n \in S : c \in Blocked(n) \cup Final(n)
           /\ (\E n \in S : c \in Range(inflight[n])) <=> Lost(c, S) \/ \E n \in S : c \in Unread(n)
           /\ ~(Lost(c, S) /\ \E n \in S : c \in Unread(n))
           /\ Lost(c, S) => Flying(c)
<1>1. Lost(c, S) <=> \E n \in S : c \in Blocked(n) \cup Final(n)
    BY Zenon DEF Lost, Gone, Failed
<1>2. \A n \in Nodes : Blocked(n) \cup Final(n) \subseteq Range(inflight[n])
    BY BlockedInFlight, Zenon
<1>3. (\E n \in S : c \in Range(inflight[n])) <=> Lost(c, S) \/ \E n \in S : c \in Unread(n)
    BY <1>1, <1>2, Zenon DEF Unread
<1>4. ASSUME NEW m \in S, c \in Blocked(m) \cup Final(m), NEW n \in S, c \in Unread(n)
      PROVE  FALSE
  <2>1. c \in Range(inflight[m]) /\ c \in Range(inflight[n]) /\ c \notin Blocked(n) \cup Final(n)
      BY <1>2, <1>4, Zenon DEF Unread
  <2>2. m = n
      BY <2>1, Zenon DEF Placement, Placed
  <2> QED
      BY <1>4, <2>1, <2>2, Zenon
<1>5. Lost(c, S) => Flying(c)
    BY <1>1, <1>2, Zenon DEF Flying
<1> QED
    BY <1>1, <1>3, <1>4, <1>5, Zenon

LEMMA NoneHeld == {} \in SUBSET Commands
    OBVIOUS

LEMMA ClosingFacts ==
    ASSUME ClusterInv, at # "asked", NEW order \in Seq(Nodes), NEW opened \in SUBSET Nodes,
           \A n \in opened : n \in Range(order) \/ link[n] = "none",
           NEW held \in SUBSET Commands, Closing(order, opened, held)
    PROVE  /\ link' \in [Nodes -> {"none", "up", "down", "ended"}]
           /\ inflight' \in [Nodes -> Seq(Frames)] /\ requests' \in [Nodes -> Seq(Frames)]
           /\ replies' \in [Nodes -> Seq(Replies)]
           /\ queue' \in Seq(Messages) /\ channel' \subseteq Commands
           /\ \A n \in Nodes : inflight'[n] = IF n \in Range(order) THEN <<>> ELSE inflight[n]
           /\ \A n \in Nodes : link'[n] = "ended" => link[n] = "ended" /\ n \notin Range(order)
           /\ Reported \subseteq Reported'
           /\ \A c \in Commands : Queued(c)' <=> Queued(c)
           /\ \A i, j \in DOMAIN queue' :
                 queue'[i].cmd = queue'[j].cmd /\ queue'[i].cmd \in Commands => i = j
           /\ Wires'
<1> DEFINE S == Range(order)
<1>1. /\ ConnTypes /\ NodeTypes /\ RouterTypes /\ CommandTypes /\ Wires /\ Distinct /\ Placement
    BY Zenon DEF ClusterInv
<1>2. /\ link' = [n \in Nodes |->
             IF n \in opened THEN "up" ELSE IF n \in S THEN "none" ELSE link[n]]
      /\ inflight' = [n \in Nodes |-> IF n \in S THEN <<>> ELSE inflight[n]]
      /\ requests' = [n \in Nodes |-> IF n \in S THEN <<>> ELSE requests[n]]
      /\ replies' = [n \in Nodes |-> IF n \in S THEN <<>> ELSE replies[n]]
      /\ channel' = (channel \ (Gone(S) \cup Failed(S))) \cup held
    BY Zenon DEF Closing
<1>3. PICK reports \in Reports(order) : queue' = queue \o reports
    BY Zenon DEF Closing
<1>4. reports \in Seq(ReconnectMessages)
    BY ReportsFacts, Zenon
<1>5. /\ queue' \in Seq(Messages)
      /\ \A c \in Commands : Queued(c)' <=> Queued(c)
      /\ \A i, j \in DOMAIN queue' :
            queue'[i].cmd = queue'[j].cmd /\ queue'[i].cmd \in Commands => i = j
      /\ Reported \subseteq Reported'
    BY <1>1, <1>3, <1>4, QueueReports, Zenon
<1> HIDE DEF S
<1>6. /\ link \in [Nodes -> {"none", "up", "down", "ended"}] /\ inflight \in [Nodes -> Seq(Frames)]
      /\ requests \in [Nodes -> Seq(Frames)] /\ channel \subseteq Commands
      /\ replies \in [Nodes -> Seq(Replies)]
    BY <1>1, Zenon DEF ConnTypes, NodeTypes, CommandTypes
<1>7. /\ link' \in [Nodes -> {"none", "up", "down", "ended"}] /\ channel' \subseteq Commands
    BY <1>2, <1>6, Zenon
<1>8. inflight' \in [Nodes -> Seq(Frames)] /\ requests' \in [Nodes -> Seq(Frames)]
    BY <1>2, <1>6, EmptyFacts, Zenon
<1>9. replies' \in [Nodes -> Seq(Replies)]
    BY <1>2, <1>6, EmptyFacts, Zenon
<1>10. \A n \in Nodes : link'[n] = "ended" => link[n] = "ended" /\ n \notin S
    BY <1>2, Zenon
<1>11. ASSUME NEW n \in Nodes
       PROVE  /\ link'[n] = "none" => inflight'[n] = <<>> /\ requests'[n] = <<>> /\ replies'[n] = <<>>
              /\ link'[n] = "up" => Len(inflight'[n]) = Len(requests'[n]) + Len(replies'[n])
              /\ Asking \notin Range(inflight'[n])
  <2>1. /\ link[n] = "none" => inflight[n] = <<>> /\ requests[n] = <<>> /\ replies[n] = <<>>
        /\ link[n] = "up" => Len(inflight[n]) = Len(requests[n]) + Len(replies[n])
        /\ Asking \notin Range(inflight[n])
      BY <1>1, Zenon DEF Wires
  <2>2. CASE n \in S
    <3>1. inflight'[n] = <<>> /\ requests'[n] = <<>> /\ replies'[n] = <<>>
        BY <1>2, <2>2, Zenon
    <3>2. Len(<<>>) = 0 /\ Asking \notin Range(<<>>)
        BY EmptyFacts, Zenon
    <3>3. Len(inflight'[n]) = 0 /\ Len(requests'[n]) = 0 /\ Len(replies'[n]) = 0
        BY <3>1, <3>2, Zenon
    <3>4. Len(inflight'[n]) = Len(requests'[n]) + Len(replies'[n])
        BY <3>3
    <3> QED
        BY <3>1, <3>2, <3>4, Zenon
  <2>3. CASE n \notin S
    <3>1. inflight'[n] = inflight[n] /\ requests'[n] = requests[n] /\ replies'[n] = replies[n]
        BY <1>2, <2>3, Zenon
    <3>2. CASE n \in opened
      <4>1. link[n] = "none" /\ link'[n] = "up"
          BY <1>2, <2>3, <3>2, Zenon DEF S
      <4>2. inflight'[n] = <<>> /\ requests'[n] = <<>> /\ replies'[n] = <<>>
          BY <2>1, <3>1, <4>1, Zenon
      <4>3. Len(inflight'[n]) = 0 /\ Len(requests'[n]) = 0 /\ Len(replies'[n]) = 0
          BY <4>2, EmptyFacts, Zenon
      <4>4. Len(inflight'[n]) = Len(requests'[n]) + Len(replies'[n])
          BY <4>3
      <4> QED
          BY <2>1, <3>1, <4>1, <4>4, Zenon
    <3>3. CASE n \notin opened
      <4>1. link'[n] = link[n]
          BY <1>2, <2>3, <3>3, Zenon
      <4> QED
          BY <2>1, <3>1, <4>1, Zenon
    <3> QED
        BY <3>2, <3>3, Zenon
  <2> QED
      BY <2>2, <2>3, Zenon
<1>12. Wires'
    BY <1>11, Zenon DEF Wires
<1> QED
    BY <1>2, <1>5, <1>7, <1>8, <1>9, <1>10, <1>12, Zenon DEF S

(* What an action of the router that closes connections does to a command that is not in
   its hands: it stays, or it goes with the shared buffer to the retry buffer, or its
   caller is answered. *)
LEMMA ClosedPlaced ==
    ASSUME ClusterInv, at # "asked", NEW order \in Seq(Nodes), IsInjective(order),
           NEW left \in Drained(order), NEW c \in Commands,
           \A n \in Nodes : inflight'[n] = IF n \in Range(order) THEN <<>> ELSE inflight[n],
           Queued(c)' <=> Queued(c), HeldByRouter(c)' <=> HeldByRouter(c),
           c \in Range(retry)' <=> c \in Range(retry) \cup Range(left),
           answer'[c] = AnswersAfter(Range(order))[c]
    PROVE  Placed(c)'
<1> DEFINE S == Range(order)
<1>1. /\ ConnTypes /\ Wires /\ Distinct /\ Placement
    BY Zenon DEF ClusterInv
<1>2. S \in SUBSET Nodes
    BY DEF Range
<1>3. Range(left) = UNION {Unread(n) : n \in S}
    BY <1>1, DrainedCommands, Zenon
<1> HIDE DEF S
<1>4. /\ (\E n \in S : c \in Range(inflight[n])) <=> Lost(c, S) \/ \E n \in S : c \in Unread(n)
      /\ ~(Lost(c, S) /\ \E n \in S : c \in Unread(n))
    BY <1>1, <1>2, LostFacts, Zenon
<1>5. \A n \in Nodes : c \in Range(inflight[n])' <=> n \notin S /\ c \in Range(inflight[n])
    BY EmptyFacts, Zenon DEF S
<1>6. c \in Range(left) <=> \E n \in S : c \in Unread(n)
    BY <1>3, Zenon
<1>7. /\ Lost(c, S) => answer'[c] # "pending"
      /\ ~Lost(c, S) => answer'[c] = answer[c]
    BY Zenon DEF AnswersAfter, Lost, S
<1>8. Placed(c)
    BY <1>1, Zenon DEF Placement
<1>9. CASE \E n \in S : c \in Range(inflight[n])
  <2>1. PICK n \in S : c \in Range(inflight[n])
      BY <1>9, Zenon
  <2>2. n \in Nodes /\ Flying(c)
      BY <1>2, <2>1, Zenon DEF Flying
  <2>3. \A m \in Nodes : c \notin Range(inflight[m])'
      BY <1>5, <1>8, <2>1, <2>2, Zenon DEF Placed
  <2>4. /\ ~Queued(c)' /\ ~HeldByRouter(c)' /\ ~Flying(c)'
        /\ c \in Range(retry)' <=> c \in Range(left)
        /\ answer[c] = "pending"
      BY <1>8, <2>2, <2>3, Zenon DEF Placed, Flying
  <2>5. answer'[c] = "pending" <=> c \in Range(retry)'
      BY <1>4, <1>6, <1>7, <1>9, <2>4, Zenon
  <2> QED
      BY <2>3, <2>4, <2>5, Zenon DEF Placed
<1>10. CASE ~\E n \in S : c \in Range(inflight[n])
  <2>1. /\ \A n \in Nodes : c \in Range(inflight[n])' <=> c \in Range(inflight[n])
        /\ c \in Range(retry)' <=> c \in Range(retry)
        /\ answer'[c] = answer[c]
      BY <1>4, <1>5, <1>6, <1>7, <1>10, Zenon
  <2> QED
      BY <1>8, <2>1, PlacedStays, Zenon
<1> QED
    BY <1>9, <1>10, Zenon

(* The commands in the router's hands are not lost with a connection. *)
LEMMA HandKept ==
    ASSUME ClusterInv, at \notin {"wait", "asked"}, NEW S \in SUBSET Nodes, cmd \in Commands
    PROVE  /\ answer[cmd] = "pending" /\ HeldByRouter(cmd) /\ ~Flying(cmd) /\ ~Lost(cmd, S)
           /\ AnswersAfter(S)[cmd] = "pending"
<1>1. ConnTypes /\ Wires /\ Placement /\ Placed(cmd)
    BY Zenon DEF ClusterInv, Placement
<1>2. answer[cmd] = "pending" /\ HeldByRouter(cmd)
    BY Zenon DEF ClusterInv, Control, HeldByRouter
<1>3. ~Flying(cmd)
    BY <1>1, <1>2, Zenon DEF Placed
<1>4. ~Lost(cmd, S)
    BY <1>1, <1>3, LostFacts, Zenon
<1>5. AnswersAfter(S)[cmd] = answer[cmd]
    BY <1>4, Zenon DEF AnswersAfter, Lost
<1> QED
    BY <1>2, <1>3, <1>4, <1>5, Zenon

LEMMA AnswersTyped ==
    ASSUME CommandTypes, NEW S
    PROVE  AnswersAfter(S) \in [Commands -> {"unsent", "pending", "ok", "error", "canceled"}]
    BY Zenon DEF AnswersAfter, CommandTypes

(* clustered::sync and reconnect_once: the routing table, the connections, the retry
   buffer. *)
LEMMA RebuildFacts ==
    ASSUME ClusterInv, at \notin {"wait", "asked"}, at' # "wait", UNCHANGED <<cmd, attempted, nodeVars>>,
           NEW closed \in SUBSET Nodes, NEW opened \in SUBSET Nodes,
           \A n \in opened : n \in closed \/ link[n] = "none", Rebuild(closed, opened)
    PROVE  /\ NodeTypes' /\ ConnTypes' /\ CommandTypes' /\ queue' \in Seq(Messages)
           /\ Wires' /\ Distinct' /\ Placement' /\ Reported \subseteq Reported'
           /\ cmd \in Commands => answer'[cmd] = "pending"
           /\ \A n \in Nodes : link'[n] = "ended" => link[n] = "ended" /\ n \notin closed
<1>1. PICK order \in Orders(closed) :
         /\ Closing(order, opened, {})
         /\ \E left \in Drained(order) : retry' = retry \o left
    BY Zenon DEF Rebuild
<1>2. PICK left \in Drained(order) : retry' = retry \o left
    BY <1>1, Zenon
<1>3. cache' = owner /\ answer' = AnswersAfter(closed)
    BY Zenon DEF Rebuild
<1>4. /\ ConnTypes /\ NodeTypes /\ CommandTypes /\ Wires /\ Distinct /\ Placement
    BY Zenon DEF ClusterInv
<1>5. order \in Seq(Nodes) /\ IsInjective(order) /\ Range(order) = closed
  <2>1. IsFiniteSet(closed)
      BY Different, FS_Subset, Zenon
  <2>2. order \in Seq(closed) /\ IsInjective(order) /\ Range(order) = closed
      BY <2>1, OrderFacts, Zenon
  <2> QED
      BY <2>2
<1>6. /\ link' \in [Nodes -> {"none", "up", "down", "ended"}]
      /\ inflight' \in [Nodes -> Seq(Frames)] /\ requests' \in [Nodes -> Seq(Frames)]
      /\ replies' \in [Nodes -> Seq(Replies)]
      /\ queue' \in Seq(Messages) /\ channel' \subseteq Commands
      /\ \A n \in Nodes : inflight'[n] = IF n \in closed THEN <<>> ELSE inflight[n]
      /\ \A n \in Nodes : link'[n] = "ended" => link[n] = "ended" /\ n \notin closed
      /\ Reported \subseteq Reported'
      /\ \A c \in Commands : Queued(c)' <=> Queued(c)
      /\ \A i, j \in DOMAIN queue' :
            queue'[i].cmd = queue'[j].cmd /\ queue'[i].cmd \in Commands => i = j
      /\ Wires'
    BY <1>1, <1>5, NoneHeld, ClosingFacts, Zenon
<1>7. left \in Seq(Commands) /\ IsInjective(left) /\ Range(left) = UNION {Unread(n) : n \in closed}
    BY <1>4, <1>5, DrainedCommands, Zenon
<1>8. retry \in Seq(Commands) /\ IsInjective(retry)
    BY <1>4, Zenon DEF ConnTypes, Distinct
<1>9. Range(retry) \cap Range(left) = {}
  <2> SUFFICES ASSUME NEW c \in Range(retry), c \in Range(left)
               PROVE  FALSE
      BY Zenon
  <2>1. c \in Commands
      BY <1>8 DEF Range
  <2>2. Flying(c)
      BY <1>7, Zenon DEF Unread, Flying
  <2> QED
      BY <1>4, <2>1, <2>2, Zenon DEF Placement, Placed
<1>10. /\ retry' \in Seq(Commands) /\ IsInjective(retry') /\ Range(retry') = Range(retry) \cup Range(left)
  <2>1. /\ retry \o left \in Seq(Commands) /\ IsInjective(retry \o left)
        /\ Range(retry \o left) = Range(retry) \cup Range(left)
      BY <1>7, <1>8, <1>9, JoinFacts, Zenon
  <2> QED
      BY <1>2, <2>1
<1>11. NodeTypes' /\ ConnTypes'
    BY <1>3, <1>4, <1>6, <1>10, Zenon DEF NodeTypes, ConnTypes, nodeVars
<1>12. CommandTypes'
    BY <1>3, <1>4, <1>6, AnswersTyped, Zenon DEF CommandTypes
<1>13. \A n \in Nodes : IsInjective(inflight'[n])
    BY <1>4, <1>6, EmptyFacts, Zenon DEF Distinct
<1>14. Distinct'
    BY <1>6, <1>10, <1>13, Zenon DEF Distinct
<1>15. cmd \in Commands => /\ answer[cmd] = "pending" /\ answer'[cmd] = "pending"
    BY <1>3, HandKept, Zenon
<1>16. ASSUME NEW c \in Commands
       PROVE  Placed(c)'
  <2>1. HeldByRouter(c)' <=> HeldByRouter(c)
      BY <1>15, Zenon DEF HeldByRouter
  <2>2. c \in Range(retry)' <=> c \in Range(retry) \cup Range(left)
      BY <1>10, Zenon
  <2>3. answer'[c] = AnswersAfter(Range(order))[c]
      BY <1>3, <1>5, Zenon
  <2>4. \A n \in Nodes : inflight'[n] = IF n \in Range(order) THEN <<>> ELSE inflight[n]
      BY <1>5, <1>6, Zenon
  <2>5. Queued(c)' <=> Queued(c)
      BY <1>6, Zenon
  <2> QED
      BY <1>5, <2>1, <2>2, <2>3, <2>4, <2>5, ClosedPlaced, Zenon
<1> QED
    BY <1>6, <1>11, <1>12, <1>14, <1>15, <1>16, Zenon DEF Placement

(* The end of process_commands. *)
LEMMA EndsKept ==
    ASSUME ClusterInv, at \notin {"wait", "asked"}, NEW answers, Ends(answers),
           attempted' \in [Commands -> Nat],
           answers \in [Commands -> {"unsent", "pending", "ok", "error", "canceled"}],
           \A c \in Commands : answers[c] # answer[c] => c = cmd /\ answers[c] # "pending"
    PROVE  ClusterInv'
<1>1. /\ ConnTypes /\ NodeTypes /\ CommandTypes /\ RouterTypes /\ Wires /\ Distinct /\ Placement
    BY Zenon DEF ClusterInv
<1>2. /\ at' = "ended" /\ next' = "idle" /\ cmd' = None /\ target' = None /\ rx' = None
      /\ retry' = <<>> /\ UNCHANGED <<nodeVars, cache>>
      /\ answer' = [c \in Commands |->
             IF answers[c] = "pending" /\ (c \in {cmd} \cup Range(retry)
                                             \/ \E n \in Nodes : c \in Range(inflight[n]))
             THEN "canceled" ELSE answers[c]]
    BY Zenon DEF Ends
<1>3. PICK order \in Orders(Writers) : Closing(order, {}, {})
    BY Zenon DEF Ends
<1>4. order \in Seq(Nodes) /\ IsInjective(order) /\ Range(order) = Writers
  <2>1. IsFiniteSet(Writers) /\ Writers \subseteq Nodes
      BY Different, FS_Subset, Zenon DEF Writers
  <2>2. order \in Seq(Writers) /\ IsInjective(order) /\ Range(order) = Writers
      BY <2>1, OrderFacts, Zenon
  <2> QED
      BY <2>1, <2>2
<1>5. /\ link' \in [Nodes -> {"none", "up", "down", "ended"}]
      /\ inflight' \in [Nodes -> Seq(Frames)] /\ requests' \in [Nodes -> Seq(Frames)]
      /\ replies' \in [Nodes -> Seq(Replies)]
      /\ queue' \in Seq(Messages) /\ channel' \subseteq Commands
      /\ \A n \in Nodes : inflight'[n] = IF n \in Writers THEN <<>> ELSE inflight[n]
      /\ \A n \in Nodes : link'[n] = "ended" => link[n] = "ended" /\ n \notin Writers
      /\ \A c \in Commands : Queued(c)' <=> Queued(c)
      /\ \A i, j \in DOMAIN queue' :
            queue'[i].cmd = queue'[j].cmd /\ queue'[i].cmd \in Commands => i = j
      /\ Wires'
  <2>1. {} \in SUBSET Nodes /\ \A n \in {} : n \in Range(order) \/ link[n] = "none"
      BY Zenon
  <2> QED
      BY <1>3, <1>4, <2>1, NoneHeld, ClosingFacts, Zenon
<1>6. \A n \in Nodes : inflight'[n] = <<>> /\ link'[n] # "ended"
    BY <1>1, <1>5, Zenon DEF Wires, Writers
<1>7. NodeTypes' /\ ConnTypes'
    BY <1>1, <1>2, <1>5, EmptyFacts, Zenon DEF NodeTypes, ConnTypes, nodeVars
<1>8. RouterTypes' /\ CommandTypes'
  <2>1. answer' \in [Commands -> {"unsent", "pending", "ok", "error", "canceled"}]
      BY <1>2, Zenon
  <2> QED
      BY <1>2, <1>5, <2>1, Zenon DEF RouterTypes, CommandTypes, Stations
<1>9. Control' /\ EndedReported'
    BY <1>2, <1>6, Different, Zenon DEF Control, EndedReported
<1>10. Distinct'
    BY <1>2, <1>5, <1>6, EmptyFacts, Zenon DEF Distinct
<1>11. ASSUME NEW c \in Commands
       PROVE  Placed(c)'
  <2>1. ~HeldByRouter(c)' /\ c \notin Range(retry)' /\ \A n \in Nodes : c \notin Range(inflight[n])'
      BY <1>2, <1>6, EmptyFacts, Different, Zenon DEF HeldByRouter
  <2>2. ~Flying(c)'
      BY <2>1, Zenon DEF Flying
  <2>3. Queued(c)' <=> Queued(c)
      BY <1>5, Zenon
  <2>4. Placed(c)
      BY <1>1, Zenon DEF Placement
  <2>5. cmd = c => HeldByRouter(c)
      BY HandKept, Zenon
  <2>6. answer'[c] = "pending" <=> answers[c] = "pending" /\ cmd # c /\ c \notin Range(retry) /\ ~Flying(c)
      BY <1>2, Zenon DEF Flying
  <2>7. answers[c] = "pending" => answer[c] = "pending"
      BY Zenon
  <2>8. answer[c] = "pending" /\ cmd # c => answers[c] = "pending"
      BY Zenon
  <2>9. HeldByRouter(c) => cmd = c
      BY Zenon DEF HeldByRouter
  <2>10. answer'[c] = "pending" <=> Queued(c)'
      BY <2>3, <2>4, <2>5, <2>6, <2>7, <2>8, <2>9, Zenon DEF Placed
  <2> QED
      BY <2>1, <2>2, <2>10, Zenon DEF Placed
<1> QED
    BY <1>5, <1>7, <1>8, <1>9, <1>10, <1>11, Zenon DEF ClusterInv, Placement

-----------------------------------------------------------------------------
(* Callers, nodes, the network and the reader tasks. *)

LEMMA PlacementSame ==
    ASSUME Placement, Distinct, UNCHANGED <<queue, retry, inflight, answer>>,
           \A c \in Commands : HeldByRouter(c)' <=> HeldByRouter(c)
    PROVE  Placement' /\ Distinct'
<1>1. Distinct'
    BY Zenon DEF Distinct
<1>2. ASSUME NEW c \in Commands
      PROVE  Placed(c)'
  <2>1. Placed(c)
      BY Zenon DEF Placement
  <2>2. /\ Queued(c)' <=> Queued(c)
        /\ c \in Range(retry)' <=> c \in Range(retry)
        /\ \A n \in Nodes : c \in Range(inflight[n])' <=> c \in Range(inflight[n])
      BY Zenon DEF Queued
  <2> QED
      BY <2>1, <2>2, PlacedStays, Zenon
<1> QED
    BY <1>1, <1>2, Zenon DEF Placement

(* A step that only the nodes see. *)
LEMMA NodesOnly ==
    ASSUME ClusterInv, UNCHANGED <<connVars, cache, queue, pcVars, rx, cmdVars>>, NodeTypes',
           \A n \in Nodes : link[n] = "up" => Len(inflight[n]) = Len(requests'[n]) + Len(replies'[n]),
           \A n \in Nodes : link[n] = "none" => requests'[n] = <<>> /\ replies'[n] = <<>>
    PROVE  ClusterInv'
<1>1. UNCHANGED <<link, inflight, retry, cache, queue, at, next, cmd, target, rx, attempted, channel, answer>>
    BY Zenon DEF connVars, pcVars, cmdVars
<1>2. ConnTypes' /\ RouterTypes' /\ CommandTypes'
    BY <1>1, Zenon DEF ClusterInv, ConnTypes, RouterTypes, CommandTypes
<1>3. Control' /\ EndedReported'
    BY <1>1, Zenon DEF ClusterInv, Control, EndedReported, Reported
<1>4. Wires'
    BY <1>1, Zenon DEF ClusterInv, Wires
<1>5. Placement' /\ Distinct'
  <2>1. \A c \in Commands : HeldByRouter(c)' <=> HeldByRouter(c)
      BY <1>1, Zenon DEF HeldByRouter
  <2>2. Placement /\ Distinct
      BY Zenon DEF ClusterInv
  <2> QED
      BY <1>1, <2>1, <2>2, PlacementSame, Zenon
<1> QED
    BY <1>2, <1>3, <1>4, <1>5, Zenon DEF ClusterInv

LEMMA MigrationKept ==
    ASSUME ClusterInv, Migrate \/ MigrationEnds
    PROVE  ClusterInv'
<1>1. UNCHANGED <<connVars, cache, queue, pcVars, rx, cmdVars, requests, replies>>
    BY Zenon DEF Migrate, MigrationEnds, wireVars
<1>2. NodeTypes'
    BY <1>1, Zenon DEF ClusterInv, NodeTypes, Migrate, MigrationEnds
<1>3. \A n \in Nodes : link[n] = "up" => Len(inflight[n]) = Len(requests'[n]) + Len(replies'[n])
    BY <1>1, Zenon DEF ClusterInv, Wires
<1>4. \A n \in Nodes : link[n] = "none" => requests'[n] = <<>> /\ replies'[n] = <<>>
    BY <1>1, Zenon DEF ClusterInv, Wires
<1> QED
    BY <1>1, <1>2, <1>3, <1>4, NodesOnly, Zenon

(* A frame that was served is on its way back. *)
LEMMA Shifted ==
    ASSUME NEW a \in Nat, NEW b \in Nat
    PROVE  (a + 1) + b = a + (b + 1)
    OBVIOUS

LEMMA ServeKept ==
    ASSUME ClusterInv, NEW n \in Nodes, Serve(n)
    PROVE  ClusterInv'
<1>1. /\ link[n] = "up" /\ requests[n] # <<>>
      /\ requests' = [requests EXCEPT ![n] = Tail(@)]
      /\ UNCHANGED <<owner, importer, others, connVars, cache, queue, pcVars, rx, cmdVars>>
    BY Zenon DEF Serve
<1>2. PICK r : /\ r \in {Reply("ok", n)} \cup NodeReplies(n)
               /\ replies' = [replies EXCEPT ![n] = Append(@, r)]
    BY Zenon DEF Serve
<1>3. NodeTypes /\ Wires
    BY Zenon DEF ClusterInv
<1>4. r \in Replies
  <2>1. owner \in Nodes /\ (importer # None => importer \in Nodes)
      BY <1>3, Zenon DEF NodeTypes
  <2>2. \/ r = Reply("ok", n) \/ r = Reply("moved", owner)
        \/ importer # None /\ r = Reply("ask", importer)
      BY <1>2 DEF NodeReplies
  <2> QED
      BY <2>1, <2>2 DEF Reply, Replies
<1>5. /\ requests \in [Nodes -> Seq(Frames)]
      /\ replies \in [Nodes -> Seq(Replies)]
    BY <1>3, Zenon DEF NodeTypes
<1>6. /\ Tail(requests[n]) \in Seq(Frames) /\ Len(requests[n]) = Len(Tail(requests[n])) + 1
      /\ Append(replies[n], r) \in Seq(Replies)
      /\ Len(Append(replies[n], r)) = Len(replies[n]) + 1
  <2>1. requests[n] \in Seq(Frames) /\ replies[n] \in Seq(Replies)
      BY <1>5, Zenon
  <2>2. Tail(requests[n]) \in Seq(Frames) /\ Len(requests[n]) = Len(Tail(requests[n])) + 1
      BY <1>1, <2>1, TailFacts, Zenon
  <2>3. /\ Append(replies[n], r) \in Seq(Replies)
        /\ Len(Append(replies[n], r)) = Len(replies[n]) + 1
      BY <1>4, <2>1, AppendFacts, Zenon
  <2> QED
      BY <2>2, <2>3, Zenon
<1>7. NodeTypes'
    BY <1>1, <1>2, <1>3, <1>5, <1>6, Zenon DEF NodeTypes
<1>8. /\ requests'[n] = Tail(requests[n]) /\ replies'[n] = Append(replies[n], r)
      /\ \A m \in Nodes : m # n => requests'[m] = requests[m] /\ replies'[m] = replies[m]
    BY <1>1, <1>2, <1>5, Zenon
<1>9. Len(inflight[n]) = Len(requests'[n]) + Len(replies'[n])
  <2>1. Len(inflight[n]) = Len(requests[n]) + Len(replies[n])
      BY <1>1, <1>3, Zenon DEF Wires
  <2>2. Len(requests[n]) = Len(requests'[n]) + 1 /\ Len(replies'[n]) = Len(replies[n]) + 1
      BY <1>6, <1>8, Zenon
  <2>3. Tail(requests[n]) \in Seq(Frames) /\ replies[n] \in Seq(Replies)
      BY <1>5, <1>6, Zenon
  <2>4. Len(Tail(requests[n])) \in Nat /\ Len(replies[n]) \in Nat
      BY <2>3
  <2>5. Len(requests'[n]) \in Nat
      BY <1>8, <2>4, Zenon
  <2> QED
      BY <2>1, <2>2, <2>4, <2>5, Shifted, Zenon
<1>10. \A m \in Nodes : link[m] = "up" => Len(inflight[m]) = Len(requests'[m]) + Len(replies'[m])
    BY <1>3, <1>8, <1>9, Zenon DEF Wires
<1>11. \A m \in Nodes : link[m] = "none" => requests'[m] = <<>> /\ replies'[m] = <<>>
    BY <1>1, <1>3, <1>8, Zenon DEF Wires
<1> QED
    BY <1>1, <1>7, <1>10, <1>11, NodesOnly, Zenon

LEMMA BreakKept ==
    ASSUME ClusterInv, NEW n \in Nodes, Break(n)
    PROVE  ClusterInv'
<1>1. /\ link[n] = "up" /\ link' = [link EXCEPT ![n] = "down"]
      /\ requests' = [requests EXCEPT ![n] = <<>>] /\ replies' = [replies EXCEPT ![n] = <<>>]
      /\ UNCHANGED <<nodeVars, inflight, retry, cache, queue, pcVars, rx, cmdVars>>
    BY Zenon DEF Break
<1>2. /\ NodeTypes /\ ConnTypes /\ RouterTypes /\ CommandTypes /\ Control /\ Wires /\ Distinct
      /\ Placement /\ EndedReported
    BY Zenon DEF ClusterInv
<1>3. UNCHANGED <<owner, importer, others, at, next, cmd, target, attempted, channel, answer>>
    BY <1>1, Zenon DEF nodeVars, pcVars, cmdVars
<1>4. NodeTypes' /\ ConnTypes'
    BY <1>1, <1>2, <1>3, EmptyFacts, Zenon DEF NodeTypes, ConnTypes
<1>5. RouterTypes' /\ CommandTypes' /\ Control'
    BY <1>1, <1>2, <1>3, Zenon DEF RouterTypes, CommandTypes, Control
<1>6. /\ link'[n] = "down" /\ \A m \in Nodes : m # n => link'[m] = link[m]
      /\ \A m \in Nodes : m # n => requests'[m] = requests[m] /\ replies'[m] = replies[m]
    BY <1>1, <1>2, Zenon DEF ConnTypes, NodeTypes
<1>7. Wires'
  <2> SUFFICES ASSUME NEW m \in Nodes
               PROVE  /\ link'[m] = "none" =>
                             inflight[m] = <<>> /\ requests'[m] = <<>> /\ replies'[m] = <<>>
                      /\ link'[m] = "up" => Len(inflight[m]) = Len(requests'[m]) + Len(replies'[m])
                      /\ Asking \in Range(inflight[m]) => at = "asked" /\ rx = None /\ m = target
      BY <1>1, <1>3, Zenon DEF Wires
  <2> QED
      BY <1>2, <1>6, Zenon DEF Wires
<1>8. Placement' /\ Distinct'
  <2>1. \A c \in Commands : HeldByRouter(c)' <=> HeldByRouter(c)
      BY <1>1, <1>3, Zenon DEF HeldByRouter
  <2> QED
      BY <1>1, <1>2, <1>3, <2>1, PlacementSame, Zenon
<1>9. EndedReported'
  <2>1. \A m \in Nodes : link'[m] = "ended" => link[m] = "ended"
      BY <1>6, Zenon
  <2>2. Reported \subseteq Reported'
      BY <1>1, Zenon DEF Reported
  <2> QED
      BY <1>2, <1>3, <2>1, <2>2, EndedKept, Zenon
<1> QED
    BY <1>4, <1>5, <1>7, <1>8, <1>9, Zenon DEF ClusterInv

(* A message with a command that is not queued yet. *)
LEMMA QueueAppended ==
    ASSUME RouterTypes, Distinct, NEW m \in Messages, m.cmd \in Commands, ~Queued(m.cmd),
           queue' = Append(queue, m)
    PROVE  /\ queue' \in Seq(Messages)
           /\ \A c \in Commands : Queued(c)' <=> Queued(c) \/ c = m.cmd
           /\ \A i, j \in DOMAIN queue' :
                 queue'[i].cmd = queue'[j].cmd /\ queue'[i].cmd \in Commands => i = j
           /\ Reported \subseteq Reported'
<1>1. queue \in Seq(Messages)
    BY Zenon DEF RouterTypes
<1>2. queue' \in Seq(Messages) /\ Range(queue') = Range(queue) \cup {m}
    BY <1>1, AppendFacts, Zenon
<1>3. /\ DOMAIN queue' = DOMAIN queue \cup {Len(queue) + 1} /\ queue'[Len(queue) + 1] = m
      /\ \A i \in DOMAIN queue : queue'[i] = queue[i]
    BY <1>1
<1>4. \A c \in Commands : Queued(c)' <=> Queued(c) \/ c = m.cmd
    BY <1>3, Zenon DEF Queued
<1>5. ASSUME NEW i \in DOMAIN queue', NEW j \in DOMAIN queue',
             queue'[i].cmd = queue'[j].cmd, queue'[i].cmd \in Commands
      PROVE  i = j
    BY <1>3, <1>5, Zenon DEF Distinct, Queued
<1>6. Reported \subseteq Reported'
    BY <1>2, Zenon DEF Reported
<1> QED
    BY <1>2, <1>4, <1>5, <1>6, Zenon

LEMMA SubmitKept ==
    ASSUME ClusterInv, NEW c \in Commands, Submit(c)
    PROVE  ClusterInv'
<1> DEFINE m == Message("command", c, None)
<1>1. /\ answer[c] = "unsent" /\ answer' = [answer EXCEPT ![c] = "pending"]
      /\ queue' = Append(queue, m)
      /\ UNCHANGED <<nodeVars, wireVars, connVars, cache, pcVars, rx, attempted, channel>>
    BY Zenon DEF Submit
<1>2. /\ NodeTypes /\ ConnTypes /\ RouterTypes /\ CommandTypes /\ Control /\ Wires /\ Distinct
      /\ Placement /\ EndedReported
    BY Zenon DEF ClusterInv
<1>3. UNCHANGED <<owner, importer, others, requests, replies, link, inflight, retry, at, next, cmd, target>>
    BY <1>1, Zenon DEF nodeVars, pcVars, wireVars, connVars
<1>4. m \in Messages /\ m.cmd = c
    BY DEF Message, Messages
<1> HIDE DEF m
<1>5. Placed(c) /\ ~Queued(c)
    BY <1>1, <1>2, Zenon DEF Placement, Placed
<1>6. /\ queue' \in Seq(Messages)
      /\ \A d \in Commands : Queued(d)' <=> Queued(d) \/ d = c
      /\ \A i, j \in DOMAIN queue' :
            queue'[i].cmd = queue'[j].cmd /\ queue'[i].cmd \in Commands => i = j
      /\ Reported \subseteq Reported'
    BY <1>1, <1>2, <1>4, <1>5, QueueAppended, Zenon
<1>7. /\ answer' \in [Commands -> {"unsent", "pending", "ok", "error", "canceled"}]
      /\ answer'[c] = "pending" /\ \A d \in Commands : d # c => answer'[d] = answer[d]
    BY <1>1, <1>2, Zenon DEF CommandTypes
<1>8. NodeTypes' /\ ConnTypes' /\ RouterTypes' /\ CommandTypes'
    BY <1>1, <1>2, <1>3, <1>6, <1>7, Zenon DEF NodeTypes, ConnTypes, RouterTypes, CommandTypes
<1>9. ~Flying(c) /\ c \notin Range(retry) /\ ~HeldByRouter(c)
    BY <1>1, <1>5, Zenon DEF Placed
<1>10. cmd # c
    BY <1>1, <1>2, Zenon DEF Control
<1>11. Control'
    BY <1>1, <1>2, <1>3, <1>7, <1>10, Zenon DEF Control, RouterTypes
<1>12. Wires' /\ Distinct'
    BY <1>2, <1>1, <1>3, <1>6, Zenon DEF Wires, Distinct
<1>13. ASSUME NEW d \in Commands
       PROVE  Placed(d)'
  <2>1. Placed(d)
      BY <1>2, Zenon DEF Placement
  <2>2. /\ d \in Range(retry)' <=> d \in Range(retry)
        /\ \A n \in Nodes : d \in Range(inflight[n])' <=> d \in Range(inflight[n])
      BY <1>3, Zenon
  <2>3. HeldByRouter(d)' <=> HeldByRouter(d)
      BY <1>1, <1>3, <1>7, <1>10, Zenon DEF HeldByRouter
  <2>4. CASE d = c
    <3>1. ~Flying(d)' /\ d \notin Range(retry)' /\ ~HeldByRouter(d)' /\ Queued(d)' /\ answer'[d] = "pending"
        BY <1>6, <1>7, <1>9, <2>2, <2>3, <2>4, Zenon DEF Flying
    <3> QED
        BY <3>1, Zenon DEF Placed, Flying
  <2>5. CASE d # c
      BY <1>6, <1>7, <2>1, <2>2, <2>3, <2>5, PlacedStays, Zenon
  <2> QED
      BY <2>4, <2>5, Zenon
<1>14. EndedReported'
    BY <1>2, <1>3, <1>6, EndedKept, Zenon
<1> QED
    BY <1>8, <1>11, <1>12, <1>13, <1>14, Zenon DEF ClusterInv, Placement

(* A command in a shared buffer is not in the router's hands; the router that has it is
   the one that waits for its reply. *)
LEMMA FlyingFacts ==
    ASSUME ClusterInv, NEW c \in Commands, Flying(c)
    PROVE  /\ answer[c] = "pending" /\ ~HeldByRouter(c) /\ ~Queued(c) /\ c \notin Range(retry)
           /\ cmd = c => WaitsFor(c)
<1>1. Placed(c) /\ Control
    BY Zenon DEF ClusterInv, Placement
<1>2. answer[c] = "pending" /\ ~HeldByRouter(c) /\ ~Queued(c) /\ c \notin Range(retry)
    BY <1>1, Zenon DEF Placed
<1>3. cmd = c => at = "wait" /\ rx = None
    BY <1>2, Zenon DEF HeldByRouter
<1> QED
    BY <1>2, <1>3, Zenon DEF WaitsFor

LEMMA SumFacts ==
    ASSUME NEW a \in Nat, NEW b \in Nat
    PROVE  /\ a + (b + 1) # 0
           /\ \A x \in Nat : x + 1 = a + (b + 1) => x = a + b
    OBVIOUS

LEMMA SumSwapped ==
    ASSUME NEW a \in Nat, NEW b \in Nat
    PROVE  (a + b) + 1 = (a + 1) + b
    OBVIOUS

(* What a reader task does to the frames when it has read a reply. *)
LEMMA ReadFacts ==
    ASSUME ClusterInv, NEW n \in Nodes, ReadReply(n)
    PROVE  /\ inflight[n] # <<>> /\ inflight[n] \in Seq(Frames) /\ Head(inflight[n]) \in Frames
           /\ Head(replies[n]) \in Replies
           /\ NodeTypes' /\ inflight' \in [Nodes -> Seq(Frames)]
           /\ \A m \in Nodes : m # n => inflight'[m] = inflight[m]
           /\ Range(inflight[n]) = Range(inflight'[n]) \cup {Head(inflight[n])}
           /\ Head(inflight[n]) \notin Range(inflight'[n])
           /\ \A m \in Nodes : IsInjective(inflight'[m])
           /\ \A m \in Nodes : link[m] = "up" => Len(inflight'[m]) = Len(requests[m]) + Len(replies'[m])
           /\ \A m \in Nodes : link[m] = "none" =>
                 inflight'[m] = <<>> /\ requests[m] = <<>> /\ replies'[m] = <<>>
<1>1. /\ link[n] = "up" /\ replies[n] # <<>>
      /\ inflight' = [inflight EXCEPT ![n] = Tail(@)] /\ replies' = [replies EXCEPT ![n] = Tail(@)]
      /\ UNCHANGED <<owner, importer, others, requests>>
    BY Zenon DEF ReadReply, nodeVars
<1>2. NodeTypes /\ ConnTypes /\ Wires /\ Distinct
    BY Zenon DEF ClusterInv
<1>3. /\ inflight \in [Nodes -> Seq(Frames)] /\ replies \in [Nodes -> Seq(Replies)]
      /\ inflight[n] \in Seq(Frames) /\ replies[n] \in Seq(Replies) /\ requests[n] \in Seq(Frames)
      /\ IsInjective(inflight[n])
    BY <1>2, Zenon DEF NodeTypes, ConnTypes, Distinct
<1>4. Len(inflight[n]) = Len(requests[n]) + Len(replies[n])
    BY <1>1, <1>2, Zenon DEF Wires
<1>5. Tail(replies[n]) \in Seq(Replies) /\ Head(replies[n]) \in Replies /\ Len(replies[n]) = Len(Tail(replies[n])) + 1
    BY <1>1, <1>3, TailFacts, Zenon
<1>6. Len(Tail(replies[n])) \in Nat /\ Len(requests[n]) \in Nat /\ Len(replies[n]) \in Nat
    BY <1>3, <1>5
<1>7. Len(inflight[n]) # 0
    BY <1>4, <1>5, <1>6, SumFacts, Zenon
<1>8. inflight[n] # <<>>
    BY <1>7, EmptyFacts, Zenon
<1>9. /\ Tail(inflight[n]) \in Seq(Frames) /\ Head(inflight[n]) \in Frames
      /\ Len(inflight[n]) = Len(Tail(inflight[n])) + 1
      /\ Range(inflight[n]) = Range(Tail(inflight[n])) \cup {Head(inflight[n])}
      /\ IsInjective(Tail(inflight[n])) /\ Head(inflight[n]) \notin Range(Tail(inflight[n]))
    BY <1>3, <1>8, TailFacts, Zenon
<1>10. /\ inflight'[n] = Tail(inflight[n]) /\ replies'[n] = Tail(replies[n])
       /\ \A m \in Nodes : m # n => inflight'[m] = inflight[m] /\ replies'[m] = replies[m]
    BY <1>1, <1>3, Zenon
<1>11. inflight' \in [Nodes -> Seq(Frames)] /\ replies' \in [Nodes -> Seq(Replies)]
    BY <1>1, <1>3, <1>5, <1>9, Zenon
<1>12. NodeTypes'
    BY <1>1, <1>2, <1>11, Zenon DEF NodeTypes
<1>13. Len(inflight'[n]) = Len(requests[n]) + Len(replies'[n])
  <2>1. Len(Tail(inflight[n])) \in Nat
      BY <1>9
  <2>2. Len(Tail(inflight[n])) + 1 = Len(requests[n]) + (Len(Tail(replies[n])) + 1)
      BY <1>4, <1>5, <1>9, Zenon
  <2>3. Len(Tail(inflight[n])) = Len(requests[n]) + Len(Tail(replies[n]))
      BY <1>6, <2>1, <2>2, SumFacts, Zenon
  <2> QED
      BY <1>10, <2>3, Zenon
<1>14. \A m \in Nodes : link[m] = "up" => Len(inflight'[m]) = Len(requests[m]) + Len(replies'[m])
    BY <1>2, <1>10, <1>13, Zenon DEF Wires
<1>15. \A m \in Nodes : link[m] = "none" =>
          inflight'[m] = <<>> /\ requests[m] = <<>> /\ replies'[m] = <<>>
    BY <1>1, <1>2, <1>10, Zenon DEF Wires
<1>16. \A m \in Nodes : IsInjective(inflight'[m])
    BY <1>2, <1>9, <1>10, Zenon DEF Distinct
<1> QED
    BY <1>3, <1>5, <1>8, <1>9, <1>10, <1>11, <1>12, <1>14, <1>15, <1>16, Zenon

LEMMA ReadReplyKept ==
    ASSUME ClusterInv, NEW n \in Nodes, ReadReply(n)
    PROVE  ClusterInv'
<1>0. PICK c, r : c = Head(inflight[n]) /\ r = Head(replies[n])
    OBVIOUS
<1>1. /\ IF c = Asking THEN rx' = Reply("asked", n) /\ UNCHANGED <<queue, channel, answer>>
         ELSE IF r.kind = "ok" THEN Responded(c, r) ELSE Redirected(c, r)
      /\ UNCHANGED <<requests, link, retry, cache, pcVars, attempted>>
    BY <1>0, Zenon DEF ReadReply
<1>2. /\ NodeTypes /\ ConnTypes /\ RouterTypes /\ CommandTypes /\ Control /\ Wires /\ Distinct
      /\ Placement /\ EndedReported
    BY Zenon DEF ClusterInv
<1>3. /\ c \in Frames /\ r \in Replies /\ NodeTypes' /\ inflight' \in [Nodes -> Seq(Frames)]
      /\ \A m \in Nodes : m # n => inflight'[m] = inflight[m]
      /\ Range(inflight[n]) = Range(inflight'[n]) \cup {c} /\ c \notin Range(inflight'[n])
      /\ \A m \in Nodes : IsInjective(inflight'[m])
      /\ \A m \in Nodes : link[m] = "up" => Len(inflight'[m]) = Len(requests[m]) + Len(replies'[m])
      /\ \A m \in Nodes : link[m] = "none" =>
            inflight'[m] = <<>> /\ requests[m] = <<>> /\ replies'[m] = <<>>
    BY <1>0, ReadFacts, Zenon
<1>4. UNCHANGED <<at, next, cmd, target>>
    BY <1>1, Zenon DEF pcVars
<1>5. ConnTypes'
    BY <1>1, <1>2, <1>3, Zenon DEF ConnTypes
<1>6. \A m \in Nodes : Range(inflight'[m]) \subseteq Range(inflight[m])
    BY <1>3, Zenon
<1>7. \A d \in Commands, m \in Nodes : d # c => (d \in Range(inflight[m])' <=> d \in Range(inflight[m]))
    BY <1>3, Zenon
<1>8. CASE c = Asking
  <2>1. rx' = Reply("asked", n) /\ UNCHANGED <<queue, channel, answer>>
      BY <1>1, <1>8, Zenon
  <2>2. at = "asked" /\ rx = None /\ n = target
      BY <1>2, <1>3, <1>8, Zenon DEF Wires
  <2>3. rx' \in Heard /\ rx'.kind = "asked"
      BY <2>1 DEF Heard, Reply
  <2>4. RouterTypes' /\ CommandTypes'
      BY <1>1, <1>2, <1>4, <2>1, <2>3, Zenon DEF RouterTypes, CommandTypes
  <2>5. Control'
      BY <1>2, <1>4, <2>1, <2>2, Zenon DEF Control
  <2>6. \A m \in Nodes : Asking \notin Range(inflight'[m])
      BY <1>2, <1>3, <1>8, <2>2, Zenon DEF Wires
  <2>7. Wires'
      BY <1>1, <1>3, <2>6, Zenon DEF Wires
  <2>8. Distinct'
      BY <1>1, <1>2, <1>3, <2>1, Zenon DEF Distinct
  <2>9. ASSUME NEW d \in Commands
        PROVE  Placed(d)'
    <3>1. /\ Queued(d)' <=> Queued(d)
          /\ d \in Range(retry)' <=> d \in Range(retry)
          /\ \A m \in Nodes : d \in Range(inflight[m])' <=> d \in Range(inflight[m])
        BY <1>1, <1>7, <1>8, <2>1, Different, Zenon DEF Queued
    <3>2. HeldByRouter(d)' <=> HeldByRouter(d)
        BY <1>4, <2>1, <2>2, Zenon DEF HeldByRouter
    <3> QED
        BY <1>2, <2>1, <3>1, <3>2, PlacedStays, Zenon DEF Placement
  <2>10. EndedReported'
      BY <1>1, <1>2, <1>4, <2>1, Zenon DEF EndedReported, Reported
  <2> QED
      BY <1>3, <1>5, <2>4, <2>5, <2>7, <2>8, <2>9, <2>10, Zenon DEF ClusterInv, Placement
<1>9. CASE c # Asking
  <2>1. c \in Commands /\ Flying(c)
      BY <1>3, <1>9, Zenon DEF Frames, Flying
  <2>2. /\ answer[c] = "pending" /\ ~HeldByRouter(c) /\ ~Queued(c) /\ c \notin Range(retry)
        /\ cmd = c => WaitsFor(c)
      BY <2>1, FlyingFacts, Zenon
  <2>3. ~Flying(c)'
      BY <1>2, <1>3, <2>1, Zenon DEF Flying, Placement, Placed
  <2>4. \A m \in Nodes : Asking \in Range(inflight'[m]) => at = "asked" /\ rx = None /\ m = target
      BY <1>2, <1>6, Zenon DEF Wires
  <2>5. rx' # rx => WaitsFor(c)
      BY <1>1, <1>9, Zenon DEF Responded, Redirected
  <2>6. Wires'
      BY <1>1, <1>3, <1>4, <2>4, <2>5, Zenon DEF Wires, WaitsFor
  <2>7. CASE r.kind = "ok"
    <3>1. Responded(c, r)
        BY <1>1, <1>9, <2>7, Zenon
    <3>2. /\ answer' = [answer EXCEPT ![c] = "ok"] /\ UNCHANGED queue /\ channel' = channel \ {c}
          /\ rx' = rx \/ (WaitsFor(c) /\ rx' = Reply("continue", None))
        BY <3>1, Zenon DEF Responded
    <3>3. Reply("continue", None) \in Heard /\ Reply("continue", None).kind = "continue"
        BY DEF Reply, Heard
    <3>4. /\ answer' \in [Commands -> {"unsent", "pending", "ok", "error", "canceled"}]
          /\ answer'[c] = "ok" /\ \A d \in Commands : d # c => answer'[d] = answer[d]
        BY <1>2, <2>1, <3>2, Zenon DEF CommandTypes
    <3>5. RouterTypes' /\ CommandTypes'
        BY <1>1, <1>2, <1>4, <3>2, <3>3, <3>4, Zenon DEF RouterTypes, CommandTypes
    <3>6. Control'
      <4>1. CASE cmd = c
        <5>1. at = "wait" /\ rx = None /\ (rx' = None \/ rx'.kind = "continue")
            BY <2>2, <3>2, <3>3, <4>1, Zenon DEF WaitsFor
        <5> QED
            BY <1>2, <1>4, <2>1, <3>4, <4>1, <5>1, Zenon DEF Control
      <4>2. CASE cmd # c
        <5>1. rx' = rx
            BY <3>2, <4>2, Zenon DEF WaitsFor
        <5>2. cmd \in Commands => answer'[cmd] = answer[cmd]
            BY <3>4, <4>2, Zenon
        <5>3. at = "wait" => cmd \in Commands
            BY <1>2, Zenon DEF Control
        <5> QED
            BY <1>2, <1>4, <5>1, <5>2, <5>3, Zenon DEF Control
      <4> QED
          BY <4>1, <4>2, Zenon
    <3>7. Distinct' /\ EndedReported'
        BY <1>1, <1>2, <1>3, <1>4, <3>2, Zenon DEF Distinct, EndedReported, Reported
    <3>8. ASSUME NEW d \in Commands
          PROVE  Placed(d)'
      <4>1. /\ Queued(d)' <=> Queued(d)
            /\ d \in Range(retry)' <=> d \in Range(retry)
          BY <1>1, <3>2, Zenon DEF Queued
      <4>2. CASE d = c
        <5>1. ~Flying(d)' /\ d \notin Range(retry)' /\ ~HeldByRouter(d)' /\ ~Queued(d)' /\ answer'[d] # "pending"
            BY <2>2, <2>3, <3>4, <4>1, <4>2, Zenon DEF HeldByRouter
        <5> QED
            BY <5>1, Zenon DEF Placed, Flying
      <4>3. CASE d # c
        <5>1. HeldByRouter(d)' <=> HeldByRouter(d)
            BY <1>4, <3>2, <3>4, <4>3, Zenon DEF HeldByRouter, WaitsFor
        <5> QED
            BY <1>2, <1>7, <3>4, <4>1, <4>3, <5>1, PlacedStays, Zenon DEF Placement
      <4> QED
          BY <4>2, <4>3, Zenon
    <3> QED
        BY <1>3, <1>5, <2>6, <3>5, <3>6, <3>7, <3>8, Zenon DEF ClusterInv, Placement
  <2>8. CASE r.kind # "ok"
    <3>1. Redirected(c, r)
        BY <1>1, <1>9, <2>8, Zenon
    <3>2. answer' = answer /\ channel' = channel \ {c}
        BY <3>1, Zenon DEF Redirected
    <3>3. CASE c \in channel /\ WaitsFor(c)
      <4>1. rx' = r /\ UNCHANGED queue /\ cmd = c /\ at = "wait"
          BY <3>1, <3>3, Zenon DEF Redirected, WaitsFor
      <4>2. r \in Heard /\ r.kind # "continue" /\ r # None
        <5>1. r \in Heard /\ r.kind # "continue"
            BY <1>3, <2>8 DEF Heard, Replies
        <5> QED
            BY <5>1, Different, Zenon
      <4>3. RouterTypes' /\ CommandTypes'
          BY <1>1, <1>2, <1>4, <3>2, <4>1, <4>2, Zenon DEF RouterTypes, CommandTypes
      <4>4. Control'
          BY <1>2, <1>4, <2>2, <3>2, <4>1, <4>2, Zenon DEF Control
      <4>5. Distinct' /\ EndedReported'
          BY <1>1, <1>2, <1>3, <1>4, <4>1, Zenon DEF Distinct, EndedReported, Reported
      <4>6. ASSUME NEW d \in Commands
            PROVE  Placed(d)'
        <5>1. /\ Queued(d)' <=> Queued(d)
              /\ d \in Range(retry)' <=> d \in Range(retry)
            BY <1>1, <4>1, Zenon DEF Queued
        <5>2. CASE d = c
          <6>1. HeldByRouter(d)'
              BY <1>4, <2>2, <3>2, <4>1, <4>2, <5>2, Zenon DEF HeldByRouter
          <6>2. ~Flying(d)' /\ d \notin Range(retry)' /\ ~Queued(d)' /\ answer'[d] = "pending"
              BY <2>2, <2>3, <3>2, <5>1, <5>2, Zenon
          <6> QED
              BY <6>1, <6>2, Zenon DEF Placed, Flying
        <5>3. CASE d # c
          <6>1. HeldByRouter(d)' <=> HeldByRouter(d)
              BY <1>4, <4>1, <5>3, Zenon DEF HeldByRouter
          <6> QED
              BY <1>2, <1>7, <3>2, <5>1, <5>3, <6>1, PlacedStays, Zenon DEF Placement
        <5> QED
            BY <5>2, <5>3, Zenon
      <4> QED
          BY <1>3, <1>5, <2>6, <4>3, <4>4, <4>5, <4>6, Zenon DEF ClusterInv, Placement
    <3>4. CASE ~(c \in channel /\ WaitsFor(c))
      <4> DEFINE m == Message(r.kind, c, r.server)
      <4>1. queue' = Append(queue, m) /\ rx' = rx
          BY <3>1, <3>4, Zenon DEF Redirected
      <4>2. m \in Messages /\ m.cmd = c
          BY <1>3, <2>1, <2>8 DEF Message, Messages, Replies
      <4> HIDE DEF m
      <4>3. /\ queue' \in Seq(Messages)
            /\ \A d \in Commands : Queued(d)' <=> Queued(d) \/ d = c
            /\ \A i, j \in DOMAIN queue' :
                  queue'[i].cmd = queue'[j].cmd /\ queue'[i].cmd \in Commands => i = j
            /\ Reported \subseteq Reported'
          BY <1>2, <2>1, <2>2, <4>1, <4>2, QueueAppended, Zenon
      <4>4. RouterTypes' /\ CommandTypes'
          BY <1>1, <1>2, <1>4, <3>2, <4>1, <4>3, Zenon DEF RouterTypes, CommandTypes
      <4>5. Control' /\ EndedReported'
          BY <1>1, <1>2, <1>4, <3>2, <4>1, <4>3, Zenon DEF Control, EndedReported
      <4>6. Distinct'
          BY <1>1, <1>2, <1>3, <4>3, Zenon DEF Distinct
      <4>7. ASSUME NEW d \in Commands
            PROVE  Placed(d)'
        <5>1. /\ d \in Range(retry)' <=> d \in Range(retry)
              /\ HeldByRouter(d)' <=> HeldByRouter(d)
            BY <1>1, <1>4, <3>2, <4>1, Zenon DEF HeldByRouter
        <5>2. CASE d = c
          <6>1. Queued(d)'
              BY <2>1, <4>3, <5>2, Zenon
          <6>2. ~Flying(d)' /\ d \notin Range(retry)' /\ ~HeldByRouter(d)' /\ answer'[d] = "pending"
              BY <2>2, <2>3, <3>2, <5>1, <5>2, Zenon
          <6> QED
              BY <6>1, <6>2, Zenon DEF Placed, Flying
        <5>3. CASE d # c
          <6>1. Queued(d)' <=> Queued(d)
              BY <4>3, <5>3, Zenon
          <6> QED
              BY <1>2, <1>7, <3>2, <5>1, <5>3, <6>1, PlacedStays, Zenon DEF Placement
        <5> QED
            BY <5>2, <5>3, Zenon
      <4> QED
          BY <1>3, <1>5, <2>6, <4>4, <4>5, <4>6, <4>7, Zenon DEF ClusterInv, Placement
    <3> QED
        BY <3>3, <3>4, Zenon
  <2> QED
      BY <2>7, <2>8, Zenon
<1> QED
    BY <1>8, <1>9, Zenon

LEMMA ReaderEndsKept ==
    ASSUME ClusterInv, NEW n \in Nodes, ReaderEnds(n)
    PROVE  ClusterInv'
<1>1. /\ link[n] = "down" /\ link' = [link EXCEPT ![n] = "ended"]
      /\ channel' = channel \ (Blocked(n) \cup Final(n))
      /\ UNCHANGED <<nodeVars, wireVars, retry, cache, pcVars, attempted>>
    BY Zenon DEF ReaderEnds
<1>2. PICK left \in Drained(<<n>>) : inflight' = [inflight EXCEPT ![n] = left]
    BY Zenon DEF ReaderEnds
<1>3. PICK reports \in Reports(<<n>>) : queue' = queue \o reports
    BY Zenon DEF ReaderEnds
<1>4. PICK heard : heard = {c \in Blocked(n) : WaitsFor(c)}
    OBVIOUS
<1>5. /\ rx' = IF heard # {} THEN Reply("closed", n)
               ELSE IF \E c \in Final(n) : WaitsFor(c) THEN Reply("continue", None)
               ELSE rx
      /\ answer' = [c \in Commands |->
             IF c \in Final(n) THEN "error"
             ELSE IF c \in Blocked(n) \ heard THEN "canceled" ELSE answer[c]]
    BY <1>4, Zenon DEF ReaderEnds
<1>6. /\ NodeTypes /\ ConnTypes /\ RouterTypes /\ CommandTypes /\ Control /\ Wires /\ Distinct
      /\ Placement /\ EndedReported
    BY Zenon DEF ClusterInv
<1>7. UNCHANGED <<owner, importer, others, requests, replies, at, next, cmd, target>>
    BY <1>1, Zenon DEF nodeVars, wireVars, pcVars
<1>8. /\ <<n>> \in Seq(Nodes) /\ Range(<<n>>) = {n} /\ IsInjective(<<n>>)
    BY SingleFacts, Zenon
<1>9. left \in Seq(Frames) /\ IsInjective(left) /\ Range(left) = Unread(n)
  <2>1. \A m1, m2 \in Range(<<n>>) : m1 # m2 => Range(inflight[m1]) \cap Range(inflight[m2]) = {}
      BY <1>8, Zenon
  <2>2. inflight \in [Nodes -> Seq(Frames)] /\ \A m \in Nodes : IsInjective(inflight[m])
      BY <1>6, Zenon DEF ConnTypes, Distinct
  <2>3. left \in Seq(Frames) /\ IsInjective(left) /\ Range(left) = UNION {Unread(m) : m \in Range(<<n>>)}
      BY <1>8, <2>1, <2>2, DrainedFacts, Zenon
  <2> QED
      BY <1>8, <2>3
<1>10. /\ inflight' \in [Nodes -> Seq(Frames)] /\ inflight'[n] = left
       /\ \A m \in Nodes : m # n => inflight'[m] = inflight[m]
       /\ link'[n] = "ended" /\ \A m \in Nodes : m # n => link'[m] = link[m]
    BY <1>1, <1>2, <1>6, <1>9, Zenon DEF ConnTypes
<1>11. NodeTypes' /\ ConnTypes'
    BY <1>1, <1>6, <1>7, <1>10, Zenon DEF NodeTypes, ConnTypes
<1>12. Blocked(n) \cup Final(n) \subseteq Range(inflight[n]) /\ Blocked(n) \cap Final(n) = {}
       /\ Blocked(n) \cup Final(n) \subseteq channel
    BY <1>6, BlockedInFlight, Zenon DEF Final
<1>13. \A c \in Commands : c \in Range(inflight[n]) => Flying(c)
    BY Zenon DEF Flying
<1>14. ASSUME NEW c \in Commands, c \in Blocked(n) \cup Final(n)
       PROVE  /\ answer[c] = "pending" /\ ~HeldByRouter(c) /\ ~Queued(c) /\ c \notin Range(retry)
              /\ cmd = c => WaitsFor(c)
    BY <1>12, <1>13, <1>14, FlyingFacts, Zenon
<1>15. /\ reports \in Seq(ReconnectMessages)
       /\ n \notin Reported => Message("reconnect", None, n) \in Range(reports)
    BY <1>1, <1>8, ReportsFacts, Zenon DEF Working
<1>16. /\ queue' \in Seq(Messages) /\ \A c \in Commands : Queued(c)' <=> Queued(c)
       /\ \A i, j \in DOMAIN queue' :
             queue'[i].cmd = queue'[j].cmd /\ queue'[i].cmd \in Commands => i = j
       /\ Range(queue') = Range(queue) \cup Range(reports) /\ Reported \subseteq Reported'
    BY <1>3, <1>6, <1>15, QueueReports, Zenon
<1>17. answer' \in [Commands -> {"unsent", "pending", "ok", "error", "canceled"}]
    BY <1>5, <1>6, Zenon DEF CommandTypes
<1>18. /\ Reply("closed", n) \in Heard /\ Reply("closed", n).kind # "continue"
       /\ Reply("continue", None) \in Heard /\ Reply("continue", None).kind = "continue"
    BY DEF Reply, Heard
<1>19. RouterTypes' /\ CommandTypes'
    BY <1>1, <1>5, <1>6, <1>7, <1>16, <1>17, <1>18, Zenon DEF RouterTypes, CommandTypes
<1>20. ASSUME cmd \in Blocked(n) \cup Final(n)
       PROVE  /\ at = "wait" /\ rx = None /\ rx' # None
              /\ rx'.kind = "continue" <=> answer'[cmd] # "pending"
              /\ answer'[cmd] # "unsent" /\ cmd \in Commands
  <2>1. cmd \in Commands
      BY <1>6, <1>12, <1>20, Zenon DEF CommandTypes
  <2>2. WaitsFor(cmd) /\ answer[cmd] = "pending"
      BY <1>14, <1>20, <2>1, Zenon
  <2>3. CASE cmd \in Blocked(n)
    <3>1. cmd \in heard /\ cmd \notin Final(n)
        BY <1>4, <1>12, <2>2, <2>3, Zenon
    <3>2. rx' = Reply("closed", n) /\ answer'[cmd] = answer[cmd]
        BY <1>5, <2>1, <3>1, Zenon
    <3> QED
        BY <1>18, <2>1, <2>2, <3>2, Different, Zenon DEF WaitsFor
  <2>4. CASE cmd \in Final(n)
    <3>1. heard = {}
        BY <1>4, <1>12, <2>4, Zenon DEF WaitsFor
    <3>2. rx' = Reply("continue", None) /\ answer'[cmd] = "error"
        BY <1>5, <2>1, <2>2, <2>4, <3>1, Zenon
    <3> QED
        BY <1>18, <2>1, <2>2, <3>2, Different, Zenon DEF WaitsFor
  <2> QED
      BY <1>20, <2>3, <2>4, Zenon
<1>21. ASSUME cmd \notin Blocked(n) \cup Final(n)
       PROVE  rx' = rx /\ (cmd \in Commands => answer'[cmd] = answer[cmd])
    BY <1>4, <1>5, <1>21, Zenon DEF WaitsFor
<1>22. Control'
  <2>1. CASE cmd \in Blocked(n) \cup Final(n)
      BY <1>6, <1>7, <1>20, <2>1, Zenon DEF Control
  <2>2. CASE cmd \notin Blocked(n) \cup Final(n)
    <3>1. at = "wait" => cmd \in Commands
        BY <1>6, Zenon DEF Control
    <3> QED
        BY <1>6, <1>7, <1>21, <2>2, <3>1, Zenon DEF Control
  <2> QED
      BY <2>1, <2>2, Zenon
<1>23. Wires'
  <2> SUFFICES ASSUME NEW m \in Nodes
               PROVE  /\ link'[m] = "none" =>
                             inflight'[m] = <<>> /\ requests[m] = <<>> /\ replies[m] = <<>>
                      /\ link'[m] = "up" => Len(inflight'[m]) = Len(requests[m]) + Len(replies[m])
                      /\ Asking \in Range(inflight'[m]) => at = "asked" /\ rx' = None /\ m = target
      BY <1>7, Zenon DEF Wires
  <2>1. /\ link'[m] = "none" => inflight'[m] = <<>> /\ requests[m] = <<>> /\ replies[m] = <<>>
        /\ link'[m] = "up" => Len(inflight'[m]) = Len(requests[m]) + Len(replies[m])
      BY <1>6, <1>10, Zenon DEF Wires
  <2>2. Asking \in Range(inflight'[m]) => Asking \in Range(inflight[m])
      BY <1>9, <1>10, Zenon DEF Unread
  <2>3. at = "asked" => rx' = rx
      BY <1>20, <1>21, Zenon
  <2> QED
      BY <1>6, <2>1, <2>2, <2>3, Zenon DEF Wires
<1>24. Distinct'
    BY <1>1, <1>6, <1>9, <1>10, <1>16, Zenon DEF Distinct
<1>25. ASSUME NEW c \in Commands
       PROVE  Placed(c)'
  <2>1. /\ Queued(c)' <=> Queued(c)
        /\ c \in Range(retry)' <=> c \in Range(retry)
      BY <1>1, <1>16, Zenon
  <2>2. Placed(c)
      BY <1>6, Zenon DEF Placement
  <2>3. CASE c \in Blocked(n) \cup Final(n)
    <3>1. ~Flying(c)'
      <4>1. \A m \in Nodes : c \notin Range(inflight'[m])
          BY <1>9, <1>10, <1>12, <2>2, <2>3, Zenon DEF Unread, Placed
      <4> QED
          BY <4>1, Zenon DEF Flying
    <3>2. ~Queued(c)' /\ c \notin Range(retry)'
        BY <1>14, <2>1, <2>3, Zenon
    <3>3. HeldByRouter(c)' <=> answer'[c] = "pending"
      <4>1. CASE cmd = c
          BY <1>7, <1>20, <2>3, <4>1, Zenon DEF HeldByRouter
      <4>2. CASE cmd # c
        <5>1. c \notin heard
            BY <1>4, <4>2, Zenon DEF WaitsFor
        <5>2. answer'[c] # "pending"
            BY <1>5, <2>3, <5>1, Zenon
        <5> QED
            BY <5>2, Zenon DEF HeldByRouter
      <4> QED
          BY <4>1, <4>2, Zenon
    <3> QED
        BY <3>1, <3>2, <3>3, Zenon DEF Placed, Flying
  <2>4. CASE c \notin Blocked(n) \cup Final(n)
    <3>1. answer'[c] = answer[c]
        BY <1>5, <2>4, Zenon
    <3>2. \A m \in Nodes : c \in Range(inflight[m])' <=> c \in Range(inflight[m])
        BY <1>9, <1>10, <2>4, Zenon DEF Unread
    <3>3. HeldByRouter(c)' <=> HeldByRouter(c)
        BY <1>7, <1>21, <2>4, <3>1, Zenon DEF HeldByRouter
    <3> QED
        BY <2>1, <2>2, <3>1, <3>2, <3>3, PlacedStays, Zenon
  <2> QED
      BY <2>3, <2>4, Zenon
<1>26. EndedReported'
  <2>1. n \in Reported'
    <3>1. n \notin Reported => Message("reconnect", None, n) \in Range(queue')
        BY <1>15, <1>16, Zenon
    <3>2. Message("reconnect", None, n).type = "reconnect" /\ Message("reconnect", None, n).server = n
        BY DEF Message
    <3>3. Message("reconnect", None, n) \in Range(queue') => n \in Reported'
        BY <3>2, Zenon DEF Reported
    <3> QED
        BY <1>16, <3>1, <3>3, Zenon
  <2> QED
      BY <1>6, <1>7, <1>10, <1>16, <2>1, Zenon DEF EndedReported
<1> QED
    BY <1>11, <1>19, <1>22, <1>23, <1>24, <1>25, <1>26, Zenon DEF ClusterInv, Placement

-----------------------------------------------------------------------------
(* The router task. *)

(* The message that is taken from the queue. *)
LEMMA QueueTaken ==
    ASSUME RouterTypes, Distinct, queue # <<>>, queue' = Tail(queue)
    PROVE  /\ queue' \in Seq(Messages) /\ Head(queue) \in Messages
           /\ \A c \in Commands : Queued(c) <=> Queued(c)' \/ c = Head(queue).cmd
           /\ Head(queue).cmd \in Commands => ~\E i \in DOMAIN queue' : queue'[i].cmd = Head(queue).cmd
           /\ \A i, j \in DOMAIN queue' :
                 queue'[i].cmd = queue'[j].cmd /\ queue'[i].cmd \in Commands => i = j
           /\ Range(queue) = Range(queue') \cup {Head(queue)}
<1>1. queue \in Seq(Messages)
    BY Zenon DEF RouterTypes
<1>2. queue' \in Seq(Messages) /\ Head(queue) \in Messages /\ Range(queue) = Range(queue') \cup {Head(queue)}
    BY <1>1, TailFacts, Zenon
<1>3. /\ Head(queue) = queue[1] /\ Len(queue) \in Nat /\ Len(queue) > 0 /\ DOMAIN queue = 1..Len(queue)
      /\ DOMAIN queue' = 1..(Len(queue) - 1) /\ \A i \in DOMAIN queue' : queue'[i] = queue[i + 1]
    BY <1>1
<1>4. /\ 1 \in DOMAIN queue
      /\ \A i \in DOMAIN queue' : i + 1 \in DOMAIN queue /\ i + 1 # 1
      /\ \A i \in DOMAIN queue : i = 1 \/ \E j \in DOMAIN queue' : i = j + 1
      /\ \A i, j \in DOMAIN queue' : i + 1 = j + 1 => i = j
  <2>1. 1 \in DOMAIN queue
      BY <1>3
  <2>2. \A i \in DOMAIN queue' : i + 1 \in DOMAIN queue /\ i + 1 # 1
      BY <1>3
  <2>3. ASSUME NEW i \in DOMAIN queue, i # 1
        PROVE  \E j \in DOMAIN queue' : i = j + 1
    <3>1. i - 1 \in 1..(Len(queue) - 1) /\ i = (i - 1) + 1
        BY <1>3, <2>3
    <3> QED
        BY <1>3, <3>1, Zenon
  <2>4. \A i, j \in DOMAIN queue' : i + 1 = j + 1 => i = j
      BY <1>3
  <2> QED
      BY <2>1, <2>2, <2>3, <2>4, Zenon
<1>5. \A c \in Commands : Queued(c) <=> Queued(c)' \/ c = Head(queue).cmd
  <2> SUFFICES ASSUME NEW c \in Commands
               PROVE  Queued(c) <=> Queued(c)' \/ c = Head(queue).cmd
      BY Zenon
  <2>1. Queued(c) => Queued(c)' \/ c = Head(queue).cmd
    <3>1. ASSUME NEW i \in DOMAIN queue, queue[i] # Head(queue)
          PROVE  \E j \in DOMAIN queue' : queue'[j] = queue[i]
      <4>1. PICK j \in DOMAIN queue' : i = j + 1
          BY <1>3, <1>4, <3>1, Zenon
      <4>2. queue'[j] = queue[i]
          BY <1>3, <4>1, Zenon
      <4> QED
          BY <4>2, Zenon
    <3> QED
        BY <3>1, Zenon DEF Queued
  <2>2. Queued(c)' => Queued(c)
    <3>1. \A j \in DOMAIN queue' : \E i \in DOMAIN queue : queue'[j] = queue[i]
        BY <1>3, <1>4, Zenon
    <3> QED
        BY <3>1, Zenon DEF Queued
  <2>3. c = Head(queue).cmd => Queued(c)
      BY <1>3, <1>4, Zenon DEF Queued
  <2> QED
      BY <2>1, <2>2, <2>3, Zenon
<1>6. ASSUME Head(queue).cmd \in Commands, NEW i \in DOMAIN queue', queue'[i].cmd = Head(queue).cmd
      PROVE  FALSE
    BY <1>3, <1>4, <1>6, Zenon DEF Distinct
<1>7. ASSUME NEW i \in DOMAIN queue', NEW j \in DOMAIN queue',
             queue'[i].cmd = queue'[j].cmd, queue'[i].cmd \in Commands
      PROVE  i = j
  <2>1. /\ i + 1 \in DOMAIN queue /\ j + 1 \in DOMAIN queue /\ queue'[i] = queue[i + 1]
        /\ queue'[j] = queue[j + 1]
      BY <1>3, <1>4, Zenon
  <2>2. i + 1 = j + 1
      BY <1>7, <2>1, Zenon DEF Distinct
  <2> QED
      BY <1>4, <2>2, Zenon
<1> QED
    BY <1>2, <1>5, <1>6, <1>7, Zenon

LEMMA TakeKept ==
    ASSUME ClusterInv, Take
    PROVE  ClusterInv'
<1>1. PICK m : m = Head(queue)
    OBVIOUS
<1>2. /\ at = "idle" /\ queue # <<>> /\ queue' = Tail(queue) /\ cmd' = m.cmd
      /\ UNCHANGED <<nodeVars, wireVars, connVars, cache, rx, cmdVars>>
    BY <1>1, Zenon DEF Take
<1>3. /\ NodeTypes /\ ConnTypes /\ RouterTypes /\ CommandTypes /\ Control /\ Wires /\ Distinct
      /\ Placement /\ EndedReported
    BY Zenon DEF ClusterInv
<1>4. UNCHANGED <<owner, importer, others, requests, replies, link, inflight, retry, attempted, channel, answer>>
    BY <1>2, Zenon DEF nodeVars, wireVars, connVars, cmdVars
<1>5. /\ queue' \in Seq(Messages) /\ m \in Messages
      /\ \A c \in Commands : Queued(c) <=> Queued(c)' \/ c = m.cmd
      /\ m.cmd \in Commands => ~\E i \in DOMAIN queue' : queue'[i].cmd = m.cmd
      /\ \A i, j \in DOMAIN queue' :
            queue'[i].cmd = queue'[j].cmd /\ queue'[i].cmd \in Commands => i = j
      /\ Range(queue) = Range(queue') \cup {m}
    BY <1>1, <1>2, <1>3, QueueTaken, Zenon
<1>6. cmd = None /\ rx = None
    BY <1>2, <1>3, Zenon DEF Control
<1>7. \/ /\ cmd' \in Commands /\ at' = "write" /\ next' = "idle" /\ target' = None /\ m.type = "command"
      \/ /\ cmd' \in Commands /\ at' = "ask" /\ next' = "idle" /\ target' \in Nodes /\ m.type = "ask"
      \/ /\ cmd' \in Commands /\ at' = "sync" /\ next' = "direct" /\ target' \in Nodes /\ m.type = "moved"
      \/ /\ cmd' = None /\ at' \in {"idle", "policy"} /\ next' = "idle" /\ target' = None
         /\ at' = "idle" => link[m.server] \in Working
  <2>1. CASE m \in [type : {"command"}, cmd : Commands, server : {None}]
      BY <1>1, <1>2, <2>1 DEF Take
  <2>2. CASE m \in [type : {"ask", "moved"}, cmd : Commands, server : Nodes]
      BY <1>1, <1>2, <2>2 DEF Take
  <2>3. CASE m \in ReconnectMessages
      BY <1>1, <1>2, <2>3 DEF Take, ReconnectMessages
  <2> QED
      BY <1>5, <2>1, <2>2, <2>3, Zenon DEF Messages
<1>8. cmd' \in Commands => answer[cmd'] = "pending"
    BY <1>2, <1>3, <1>5, Zenon DEF Placement, Placed
<1>9. NodeTypes' /\ ConnTypes' /\ CommandTypes'
    BY <1>2, <1>3, <1>4, Zenon DEF NodeTypes, ConnTypes, CommandTypes
<1>10. RouterTypes'
  <2>1. at' \in Stations /\ next' \in {"idle", "write", "direct", "ask", "askwrite"}
        /\ cmd' \in Commands \cup {None} /\ target' \in Nodes \cup {None}
      BY <1>7 DEF Stations
  <2> QED
      BY <1>2, <1>3, <1>5, <2>1, Zenon DEF RouterTypes
<1>11. Control'
    BY <1>2, <1>4, <1>6, <1>7, <1>8, Different, Zenon DEF Control
<1>12. Wires'
  <2>1. \A n \in Nodes : Asking \notin Range(inflight[n])
      BY <1>2, <1>3, Zenon DEF Wires
  <2> QED
      BY <1>3, <1>4, <2>1, Zenon DEF Wires
<1>13. Distinct'
    BY <1>3, <1>4, <1>5, Zenon DEF Distinct
<1>14. ASSUME NEW c \in Commands
       PROVE  Placed(c)'
  <2>1. Placed(c) /\ ~HeldByRouter(c)
      BY <1>3, <1>6, Different, Zenon DEF Placement, HeldByRouter
  <2>2. /\ c \in Range(retry)' <=> c \in Range(retry)
        /\ \A n \in Nodes : c \in Range(inflight[n])' <=> c \in Range(inflight[n])
        /\ answer'[c] = answer[c]
      BY <1>4, Zenon
  <2>3. at' # "wait"
      BY <1>7, Zenon
  <2>4. CASE c = m.cmd
    <3>1. Queued(c) /\ ~Queued(c)'
        BY <1>5, <2>4, Zenon DEF Queued
    <3>2. HeldByRouter(c)' /\ c \notin Range(retry) /\ ~Flying(c) /\ answer[c] = "pending"
        BY <1>2, <2>1, <2>2, <2>3, <2>4, <3>1, Zenon DEF HeldByRouter, Placed
    <3>3. ~Flying(c)'
        BY <2>2, <3>2, Zenon DEF Flying
    <3> QED
        BY <2>2, <3>1, <3>2, <3>3, Zenon DEF Placed, Flying
  <2>5. CASE c # m.cmd
    <3>1. Queued(c)' <=> Queued(c)
        BY <1>5, <2>5, Zenon
    <3>2. ~HeldByRouter(c)'
        BY <1>2, <2>5, Zenon DEF HeldByRouter
    <3> QED
        BY <2>1, <2>2, <3>1, <3>2, PlacedStays, Zenon
  <2> QED
      BY <2>4, <2>5, Zenon
<1>15. EndedReported'
  <2> SUFFICES ASSUME NEW n \in Nodes, link[n] = "ended", at' \notin {"policy", "reconnect"}
               PROVE  n \in Reported'
      BY <1>4, Zenon DEF EndedReported
  <2>1. PICK x \in Range(queue) : x.type = "reconnect" /\ x.server = n
    <3>1. n \in Reported
        BY <1>2, <1>3, Zenon DEF EndedReported
    <3> QED
        BY <3>1, Zenon DEF Reported
  <2>2. x # m
    <3>1. m.type = "reconnect" => at' = "idle" /\ link[m.server] \in Working
        BY <1>7, Zenon
    <3> QED
        BY <2>1, <3>1, Zenon DEF Working
  <2>3. x \in Range(queue')
      BY <1>5, <2>2, Zenon
  <2> QED
      BY <2>1, <2>3, Zenon DEF Reported
<1> QED
    BY <1>9, <1>10, <1>11, <1>12, <1>13, <1>14, <1>15, Zenon DEF ClusterInv, Placement

(* A step of the router that touches no connection and no buffer. *)
LEMMA RouterOnly ==
    ASSUME ClusterInv, at # "asked" \/ rx # None,
           UNCHANGED <<nodeVars, wireVars, connVars, cache, queue, channel>>,
           RouterTypes', CommandTypes', Control',
           \A c \in Commands : HeldByRouter(c)' <=> HeldByRouter(c) /\ answer'[c] = "pending",
           \A c \in Commands : answer'[c] # answer[c] => HeldByRouter(c) /\ answer'[c] # "pending",
           at \in {"policy", "reconnect"} => at' \in {"policy", "reconnect"}
    PROVE  ClusterInv'
<1>1. /\ NodeTypes /\ ConnTypes /\ RouterTypes /\ Wires /\ Distinct /\ Placement /\ EndedReported
    BY Zenon DEF ClusterInv
<1>2. UNCHANGED <<owner, importer, others, requests, replies, link, inflight, retry, cache, queue, channel>>
    BY Zenon DEF nodeVars, wireVars, connVars
<1>3. NodeTypes' /\ ConnTypes' /\ Distinct'
    BY <1>1, <1>2, Zenon DEF NodeTypes, ConnTypes, Distinct
<1>4. Wires'
  <2>1. \A n \in Nodes : Asking \notin Range(inflight[n])
      BY <1>1, Zenon DEF Wires
  <2> QED
      BY <1>1, <1>2, <2>1, Zenon DEF Wires
<1>5. EndedReported'
    BY <1>1, <1>2, Zenon DEF EndedReported, Reported
<1>6. ASSUME NEW c \in Commands
      PROVE  Placed(c)'
  <2>1. /\ Queued(c)' <=> Queued(c)
        /\ c \in Range(retry)' <=> c \in Range(retry)
        /\ Flying(c)' <=> Flying(c)
        /\ \A n \in Nodes : c \in Range(inflight[n])' <=> c \in Range(inflight[n])
      BY <1>2, Zenon DEF Queued, Flying
  <2>2. Placed(c)
      BY <1>1, Zenon DEF Placement
  <2>3. CASE answer'[c] = answer[c]
    <3>1. HeldByRouter(c)' <=> HeldByRouter(c)
        BY <2>3, Zenon DEF HeldByRouter
    <3> QED
        BY <2>1, <2>2, <2>3, <3>1, PlacedStays, Zenon
  <2>4. CASE answer'[c] # answer[c]
    <3>1. HeldByRouter(c) /\ answer'[c] # "pending" /\ ~HeldByRouter(c)'
        BY <2>4, Zenon
    <3>2. ~Queued(c)' /\ c \notin Range(retry)' /\ ~Flying(c)'
        BY <2>1, <2>2, <3>1, Zenon DEF Placed
    <3> QED
        BY <3>1, <3>2, Zenon DEF Placed, Flying
  <2> QED
      BY <2>3, <2>4, Zenon
<1> QED
    BY <1>3, <1>4, <1>5, <1>6, Zenon DEF ClusterInv, Placement

LEMMA GiveUpKept ==
    ASSUME ClusterInv, at \in {"write", "direct"}, GiveUp
    PROVE  ClusterInv'
<1>1. /\ answer' = [answer EXCEPT ![cmd] = "error"] /\ at' = "idle" /\ next' = "idle"
      /\ cmd' = None /\ target' = None /\ rx' = rx /\ attempted' = attempted
      /\ UNCHANGED <<nodeVars, wireVars, connVars, cache, queue, channel>>
    BY Zenon DEF GiveUp, Idle, Answered
<1>2. RouterTypes /\ CommandTypes /\ Control
    BY Zenon DEF ClusterInv
<1>3. rx = None /\ cmd \in Commands
    BY <1>2, Zenon DEF Control
<1>4. /\ answer' \in [Commands -> {"unsent", "pending", "ok", "error", "canceled"}]
      /\ \A c \in Commands : answer'[c] = IF c = cmd THEN "error" ELSE answer[c]
    BY <1>1, <1>2, <1>3, Zenon DEF CommandTypes
<1>5. RouterTypes' /\ CommandTypes'
    BY <1>1, <1>2, <1>4, Zenon DEF RouterTypes, CommandTypes, Stations
<1>6. Control'
    BY <1>1, <1>3, Different, Zenon DEF Control
<1>7. HeldByRouter(cmd)
    BY <1>3, HandKept, Zenon
<1>8. \A c \in Commands : HeldByRouter(c)' <=> HeldByRouter(c) /\ answer'[c] = "pending"
    BY <1>1, <1>4, Different, Zenon DEF HeldByRouter
<1>9. \A c \in Commands : answer'[c] # answer[c] => HeldByRouter(c) /\ answer'[c] # "pending"
    BY <1>4, <1>7, Zenon
<1> QED
    BY <1>1, <1>5, <1>6, <1>8, <1>9, RouterOnly, Zenon

LEMMA WaitKept ==
    ASSUME ClusterInv, Wait
    PROVE  ClusterInv'
<1>1. /\ at = "wait" /\ rx # None /\ rx' = None /\ attempted' = attempted
      /\ UNCHANGED <<nodeVars, wireVars, connVars, cache, queue, channel>>
    BY Zenon DEF Wait
<1>2. RouterTypes /\ CommandTypes /\ Control
    BY Zenon DEF ClusterInv
<1>3. cmd \in Commands /\ rx \in Heard
    BY <1>1, <1>2, Zenon DEF Control, RouterTypes
<1>4. CASE WaitContinue
  <2>1. /\ answer' = answer /\ at' = "idle" /\ next' = "idle" /\ cmd' = None /\ target' = None
        /\ rx.kind = "continue"
      BY <1>4, Zenon DEF WaitContinue, Idle
  <2>2. RouterTypes' /\ CommandTypes' /\ Control'
      BY <1>1, <1>2, <2>1, Different, Zenon DEF RouterTypes, CommandTypes, Stations, Control
  <2>3. \A c \in Commands : HeldByRouter(c)' <=> HeldByRouter(c) /\ answer'[c] = "pending"
      BY <1>1, <1>2, <2>1, Different, Zenon DEF HeldByRouter, Control
  <2> QED
      BY <1>1, <2>1, <2>2, <2>3, RouterOnly, Zenon
<1>5. CASE rx.kind # "continue"
  <2>1. answer[cmd] = "pending" /\ HeldByRouter(cmd)
      BY <1>1, <1>2, <1>3, <1>5, Zenon DEF Control, HeldByRouter
  <2>2. CASE WaitMoved
    <3>1. /\ answer' = answer /\ cmd' = cmd /\ target' = target
          /\ (at' = "write" /\ next' = next) \/ (at' = "sync" /\ next' = "write")
        BY <2>2, Zenon DEF WaitMoved
    <3>2. RouterTypes' /\ CommandTypes'
        BY <1>1, <1>2, <3>1, Zenon DEF RouterTypes, CommandTypes, Stations
    <3>3. Control'
        BY <1>1, <1>2, <1>3, <2>1, <3>1, Zenon DEF Control
    <3>4. \A c \in Commands : HeldByRouter(c)' <=> HeldByRouter(c) /\ answer'[c] = "pending"
        BY <1>1, <3>1, Zenon DEF HeldByRouter
    <3> QED
        BY <1>1, <3>1, <3>2, <3>3, <3>4, RouterOnly, Zenon
  <2>3. CASE WaitAsk
    <3>1. /\ answer' = answer /\ cmd' = cmd /\ target' = rx.server /\ at' = "ask" /\ next' = next
          /\ rx.kind = "ask"
        BY <2>3, Zenon DEF WaitAsk
    <3>2. rx.server \in Nodes
        BY <1>3, <3>1 DEF Heard
    <3>3. RouterTypes' /\ CommandTypes'
        BY <1>1, <1>2, <3>1, <3>2, Zenon DEF RouterTypes, CommandTypes, Stations
    <3>4. Control'
        BY <1>1, <1>2, <1>3, <2>1, <3>1, <3>2, Zenon DEF Control
    <3>5. \A c \in Commands : HeldByRouter(c)' <=> HeldByRouter(c) /\ answer'[c] = "pending"
        BY <1>1, <3>1, Zenon DEF HeldByRouter
    <3> QED
        BY <1>1, <3>1, <3>3, <3>4, <3>5, RouterOnly, Zenon
  <2>4. CASE WaitClosed
    <3>1. at' = "policy" /\ target' = target
        BY <2>4, Zenon DEF WaitClosed
    <3>2. CASE attempted[cmd] >= MaxAttempts
      <4>1. answer' = [answer EXCEPT ![cmd] = "error"] /\ next' = "idle" /\ cmd' = None
          BY <2>4, <3>2, Zenon DEF WaitClosed, Answered
      <4>2. /\ answer' \in [Commands -> {"unsent", "pending", "ok", "error", "canceled"}]
            /\ \A c \in Commands : answer'[c] = IF c = cmd THEN "error" ELSE answer[c]
          BY <1>2, <1>3, <4>1, Zenon DEF CommandTypes
      <4>3. RouterTypes' /\ CommandTypes' /\ Control'
          BY <1>1, <1>2, <3>1, <4>1, <4>2, Different, Zenon DEF RouterTypes, CommandTypes, Stations, Control
      <4>4. \A c \in Commands : HeldByRouter(c)' <=> HeldByRouter(c) /\ answer'[c] = "pending"
          BY <4>1, <4>2, Different, Zenon DEF HeldByRouter
      <4>5. \A c \in Commands : answer'[c] # answer[c] => HeldByRouter(c) /\ answer'[c] # "pending"
          BY <2>1, <4>2, Zenon
      <4> QED
          BY <1>1, <3>1, <4>3, <4>4, <4>5, RouterOnly, Zenon
    <3>3. CASE ~(attempted[cmd] >= MaxAttempts)
      <4>1. answer' = answer /\ next' = "write" /\ cmd' = cmd
          BY <2>4, <3>3, Zenon DEF WaitClosed
      <4>2. RouterTypes' /\ CommandTypes'
          BY <1>1, <1>2, <3>1, <4>1, Zenon DEF RouterTypes, CommandTypes, Stations
      <4>3. Control'
          BY <1>1, <1>2, <1>3, <2>1, <3>1, <4>1, Different, Zenon DEF Control
      <4>4. \A c \in Commands : HeldByRouter(c)' <=> HeldByRouter(c) /\ answer'[c] = "pending"
          BY <1>1, <3>1, <4>1, Zenon DEF HeldByRouter
      <4> QED
          BY <1>1, <3>1, <4>1, <4>2, <4>3, <4>4, RouterOnly, Zenon
    <3> QED
        BY <3>2, <3>3, Zenon
  <2> QED
      BY <1>5, <2>2, <2>3, <2>4, Zenon DEF Wait, WaitContinue
<1> QED
    BY <1>4, <1>5, Zenon DEF Wait, WaitMoved, WaitAsk, WaitClosed

=============================================================================
