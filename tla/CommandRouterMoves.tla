------------------------- MODULE CommandRouterMoves -------------------------
(***************************************************************************)
(* Proofs about CommandRouter, second part: how often a command occurs in  *)
(* a sequence, what the router has in its hands, and how the steps of the  *)
(* callers and of the router up to the write move a command from one place *)
(* to another, or answer its caller.                                       *)
(***************************************************************************)
EXTENDS CommandRouterProofs

(***************************************************************************)
(* How often a command occurs in a sequence.                               *)
(***************************************************************************)

Positions(s, c) == {i \in DOMAIN s : s[i] = c}

LEMMA PositionsFinite ==
    ASSUME NEW X, NEW s \in Seq(X), NEW c
    PROVE  /\ IsFiniteSet(Positions(s, c))
           /\ Occurrences(s, c) = Cardinality(Positions(s, c))
           /\ Occurrences(s, c) \in Nat
<1>1. IsFiniteSet(1..Len(s)) /\ Positions(s, c) \in SUBSET (1..Len(s))
    BY FS_Interval DEF Positions
<1>2. Occurrences(s, c) = Cardinality(Positions(s, c))
    BY Zenon DEF Occurrences, Positions
<1> QED
    BY Zenon, <1>1, <1>2, FS_Subset, FS_CardinalityType

(* A sequence holds a command if the command occurs in it. *)
LEMMA OccurrencesMember ==
    ASSUME NEW X, NEW s \in Seq(X), NEW c
    PROVE  c \in Range(s) <=> Occurrences(s, c) > 0
<1>1. c \in Range(s) <=> Positions(s, c) # {}
    BY Zenon DEF Range, Positions
<1> QED
    BY <1>1, PositionsFinite, FS_EmptySet

LEMMA OccurrencesEmpty ==
    ASSUME NEW c
    PROVE  Occurrences(<<>>, c) = 0
<1>1. {i \in DOMAIN <<>> : <<>>[i] = c} = {}
    OBVIOUS
<1> QED
    BY <1>1, FS_EmptySet, Zenon DEF Occurrences

(* What the queues do: t is s with x pushed, s without its first or its last element x,
   or s followed by r. *)
Pushed(s, x, t) == t = Append(s, x)
Popped(s, x, t) == s # <<>> /\ x = Head(s) /\ t = Tail(s)
TakenBack(s, x, t) == s # <<>> /\ x = Last(s) /\ t = Front(s)
Joined(s, r, t) == t = s \o r

LEMMA PushedCount ==
    ASSUME NEW X, NEW s \in Seq(X), NEW x \in X, NEW t, Pushed(s, x, t), NEW c
    PROVE  /\ t \in Seq(X)
           /\ Occurrences(t, c) = Occurrences(s, c) + (IF x = c THEN 1 ELSE 0)
<1>1. t \in Seq(X)
    BY DEF Pushed
<1>2. /\ IsFiniteSet(Positions(s, c)) /\ Occurrences(s, c) = Cardinality(Positions(s, c))
      /\ Occurrences(s, c) \in Nat
    BY Zenon, PositionsFinite
<1>3. Occurrences(t, c) = Cardinality(Positions(t, c))
    BY Zenon, <1>1, PositionsFinite
<1>4. Len(s) + 1 \notin Positions(s, c)
    BY DEF Positions
<1>5. CASE x = c
  <2>1. Positions(t, c) = Positions(s, c) \cup {Len(s) + 1}
      BY <1>5 DEF Pushed, Positions
  <2>2. Cardinality(Positions(s, c) \cup {Len(s) + 1}) = Cardinality(Positions(s, c)) + 1
      BY Zenon, <1>2, <1>4, FS_AddElement
  <2> QED
      BY Zenon, <1>1, <1>2, <1>3, <1>5, <2>1, <2>2
<1>6. CASE x # c
  <2>1. Positions(t, c) = Positions(s, c)
      BY <1>6 DEF Pushed, Positions
  <2> QED
      BY <1>1, <1>2, <1>3, <1>6, <2>1
<1> QED
    BY Zenon, <1>1, <1>5, <1>6

LEMMA TakenBackCount ==
    ASSUME NEW X, NEW s \in Seq(X), NEW x, NEW t, TakenBack(s, x, t), NEW c
    PROVE  /\ t \in Seq(X) /\ x \in X
           /\ Occurrences(s, c) = Occurrences(t, c) + (IF x = c THEN 1 ELSE 0)
<1>1. /\ x \in X /\ t \in Seq(X) /\ Len(t) = Len(s) - 1
      /\ \A i \in 1..Len(s) - 1 : t[i] = s[i]
    BY LastFront, Zenon DEF TakenBack
<1>2. s # <<>> /\ x = s[Len(s)]
    BY Zenon DEF TakenBack, Last
<1>3. Pushed(t, x, s)
    BY <1>1, <1>2 DEF Pushed
<1> QED
    BY <1>1, <1>3, PushedCount

(* The positions of a sequence within a longer one, moved by n. *)
LEMMA ShiftedPositions ==
    ASSUME NEW X, NEW s \in Seq(X), NEW c, NEW n \in Nat, NEW P,
           \A i \in P : i \in Int /\ i - n \in Positions(s, c),
           \A k \in Positions(s, c) : k + n \in P
    PROVE  IsFiniteSet(P) /\ Cardinality(P) = Occurrences(s, c)
<1> DEFINE shift == [i \in P |-> i - n]
<1>1. IsFiniteSet(Positions(s, c)) /\ Occurrences(s, c) = Cardinality(Positions(s, c))
    BY Zenon, PositionsFinite
<1>2. \A k \in Positions(s, c) : (k + n) - n = k
    BY DEF Positions
<1>3. shift \in Injection(P, Positions(s, c))
    BY DEF Injection, IsInjective
<1>4. \A k \in Positions(s, c) : \E i \in P : shift[i] = k
    BY Zenon, <1>2
<1>5. shift \in Surjection(P, Positions(s, c))
    BY <1>4, Zenon DEF Surjection
<1> QED
    BY Zenon, <1>1, <1>3, <1>5, FS_Injection

LEMMA JoinedCount ==
    ASSUME NEW X, NEW s \in Seq(X), NEW r \in Seq(X), NEW t, Joined(s, r, t), NEW c
    PROVE  /\ t \in Seq(X)
           /\ Occurrences(t, c) = Occurrences(s, c) + Occurrences(r, c)
<1> DEFINE P == {i \in Len(s) + 1 .. Len(s) + Len(r) : r[i - Len(s)] = c}
<1>1. t \in Seq(X)
    BY DEF Joined
<1>2. Positions(t, c) = Positions(s, c) \cup P
    BY DEF Joined, Positions
<1>3. Positions(s, c) \cap P = {}
    BY DEF Positions
<1>4. IsFiniteSet(P) /\ Cardinality(P) = Occurrences(r, c)
  <2>1. /\ \A i \in P : i \in Int /\ i - Len(s) \in Positions(r, c)
        /\ \A k \in Positions(r, c) : k + Len(s) \in P
      BY DEF Positions
  <2>2. Len(s) \in Nat
      OBVIOUS
  <2> HIDE DEF P
  <2> QED
      BY Zenon, <2>1, <2>2, ShiftedPositions
<1>5. /\ IsFiniteSet(Positions(s, c)) /\ Occurrences(s, c) = Cardinality(Positions(s, c))
      /\ Occurrences(t, c) = Cardinality(Positions(t, c))
      /\ Occurrences(s, c) \in Nat /\ Occurrences(r, c) \in Nat
    BY Zenon, <1>1, PositionsFinite
<1> HIDE DEF P
<1>6. Cardinality(Positions(s, c) \cup P)
        = Cardinality(Positions(s, c)) + Cardinality(P) - Cardinality(Positions(s, c) \cap P)
    BY Zenon, <1>4, <1>5, FS_Union
<1>7. Cardinality(Positions(s, c) \cap P) = 0
    BY Zenon, <1>3, FS_EmptySet
<1> QED
    BY <1>1, <1>2, <1>4, <1>5, <1>6, <1>7

LEMMA PoppedCount ==
    ASSUME NEW X, NEW s \in Seq(X), NEW x, NEW t, Popped(s, x, t), NEW c
    PROVE  /\ t \in Seq(X) /\ x \in X
           /\ Occurrences(s, c) = Occurrences(t, c) + (IF x = c THEN 1 ELSE 0)
<1> DEFINE P == {i \in 2 .. Len(s) : s[i] = c}
<1>1. /\ t \in Seq(X) /\ Len(t) = Len(s) - 1 /\ \A i \in 1..Len(s) - 1 : t[i] = s[i + 1]
      /\ s # <<>> /\ x = s[1] /\ x \in X
    BY HeadTail DEF Popped
<1>2. IsFiniteSet(P) /\ Cardinality(P) = Occurrences(t, c)
  <2>1. /\ \A i \in P : i \in Int /\ i - 1 \in Positions(t, c)
        /\ \A k \in Positions(t, c) : k + 1 \in P
      BY <1>1 DEF Positions
  <2> HIDE DEF P
  <2> QED
      BY Zenon, <1>1, <2>1, ShiftedPositions
<1>3. Positions(s, c) = IF x = c THEN P \cup {1} ELSE P
    BY <1>1 DEF Positions
<1>4. 1 \notin P
    OBVIOUS
<1>5. Occurrences(s, c) = Cardinality(Positions(s, c)) /\ Occurrences(t, c) \in Nat
    BY Zenon, <1>1, PositionsFinite
<1> HIDE DEF P
<1>6. Cardinality(P \cup {1}) = Cardinality(P) + 1
    BY Zenon, <1>2, <1>4, FS_AddElement
<1> QED
    BY <1>1, <1>2, <1>3, <1>5, <1>6

(* A kept position that is not later has not the higher rank. *)
LEMMA RankMonotone ==
    ASSUME NEW kept, kept \subseteq Nat, IsFiniteSet(kept), NEW i \in kept, NEW j \in kept,
           Rank(kept, i) < Rank(kept, j)
    PROVE  i < j
<1> DEFINE below(x) == {y \in kept : y <= x}
<1>1. SUFFICES ASSUME j <= i PROVE FALSE
    OBVIOUS
<1>2. below(i) \in SUBSET kept /\ below(j) \in SUBSET below(i)
  <2>1. \A y \in kept : y <= j => y <= i
      BY <1>1
  <2> QED
      BY <2>1, Zenon
<1>3. Rank(kept, i) = Cardinality(below(i)) /\ Rank(kept, j) = Cardinality(below(j))
    BY Zenon DEF Rank
<1> HIDE DEF below
<1>4. IsFiniteSet(below(i)) /\ IsFiniteSet(below(j))
    BY <1>2, FS_Subset, Zenon
<1>5. /\ Cardinality(below(j)) <= Cardinality(below(i))
      /\ Cardinality(below(i)) \in Nat /\ Cardinality(below(j)) \in Nat
    BY <1>2, <1>4, FS_Subset, FS_CardinalityType, Zenon
<1> QED
    BY <1>3, <1>5

(* check_final_write_attempt rebuilds the buffer from some of its positions, in order. *)
LEMMA WithoutPositions ==
    ASSUME NEW X, NEW s \in Seq(X), NEW S
    PROVE  \E from \in [DOMAIN Without(s, S) -> DOMAIN s] :
              /\ \A k \in DOMAIN Without(s, S) : Without(s, S)[k] = s[from[k]] /\ s[from[k]] \notin S
              /\ \A k, l \in DOMAIN Without(s, S) : from[k] = from[l] => k = l
              /\ \A k, l \in DOMAIN Without(s, S) : k < l => from[k] < from[l]
<1> DEFINE kept == {i \in DOMAIN s : s[i] \notin S}
           n == Cardinality(kept)
           pick(k) == CHOOSE i \in kept : Rank(kept, i) = k
           from == [k \in 1..n |-> pick(k)]
<1>1. kept \subseteq Nat /\ IsFiniteSet(kept)
  <2>1. IsFiniteSet(1..Len(s)) /\ kept \in SUBSET (1..Len(s))
      BY FS_Interval
  <2> QED
      BY <2>1, FS_Subset
<1>2. \A k \in 1..n : pick(k) \in kept /\ Rank(kept, pick(k)) = k
  <2> HIDE DEF kept
  <2> QED
      BY Zenon, <1>1, RankIsBijection
<1>3. Without(s, S) = [k \in 1..n |-> s[pick(k)]]
    BY Zenon DEF Without, Rank
<1>4. \A i \in kept : i \in DOMAIN s /\ s[i] \notin S
    OBVIOUS
<1> HIDE DEF kept, n, pick
<1>5. from \in [DOMAIN Without(s, S) -> DOMAIN s]
    BY Zenon, <1>2, <1>3, <1>4
<1>6. \A k \in DOMAIN Without(s, S) : Without(s, S)[k] = s[from[k]] /\ s[from[k]] \notin S
    BY Zenon, <1>2, <1>3, <1>4
<1>7. \A k, l \in DOMAIN Without(s, S) : from[k] = from[l] => k = l
    BY Zenon, <1>2, <1>3
<1>8. \A k, l \in DOMAIN Without(s, S) : k < l => from[k] < from[l]
  <2> SUFFICES ASSUME NEW k \in 1..n, NEW l \in 1..n, k < l
               PROVE  pick(k) < pick(l)
      BY Zenon, <1>3
  <2>1. pick(k) \in kept /\ pick(l) \in kept /\ Rank(kept, pick(k)) < Rank(kept, pick(l))
      BY Zenon, <1>2
  <2> QED
      BY Zenon, <1>1, <2>1, RankMonotone
<1> QED
    BY Zenon, <1>5, <1>6, <1>7, <1>8

Filtered(s, S, t) == t = Without(s, S)

LEMMA FilteredCount ==
    ASSUME NEW X, NEW s \in Seq(X), NEW S, NEW t, Filtered(s, S, t), NEW c
    PROVE  /\ t \in Seq(X)
           /\ Occurrences(t, c) <= Occurrences(s, c)
           /\ c \in S => Occurrences(t, c) = 0
           /\ c \notin S /\ Occurrences(s, c) > 0 => Occurrences(t, c) > 0
<1>1. t \in Seq(X) /\ \A x \in Range(s) \ S : x \in Range(t)
    BY WithoutKeepsOthers, Zenon DEF Filtered
<1>2. PICK from \in [DOMAIN t -> DOMAIN s] :
            /\ \A k \in DOMAIN t : t[k] = s[from[k]] /\ s[from[k]] \notin S
            /\ \A k, l \in DOMAIN t : from[k] = from[l] => k = l
    BY WithoutPositions DEF Filtered
<1>3. /\ IsFiniteSet(Positions(s, c)) /\ Occurrences(s, c) = Cardinality(Positions(s, c))
      /\ IsFiniteSet(Positions(t, c)) /\ Occurrences(t, c) = Cardinality(Positions(t, c))
    BY Zenon, <1>1, PositionsFinite
<1>4. Occurrences(t, c) <= Occurrences(s, c)
  <2> DEFINE f == [k \in Positions(t, c) |-> from[k]]
  <2>1. f \in Injection(Positions(t, c), Positions(s, c))
      BY <1>2, Zenon DEF Injection, IsInjective, Positions
  <2> QED
      BY <1>3, <2>1, FS_Injection
<1>5. ASSUME c \in S
      PROVE  Occurrences(t, c) = 0
  <2>1. Positions(t, c) = {}
      BY <1>2, <1>5 DEF Positions
  <2> QED
      BY Zenon, <1>3, <2>1, FS_EmptySet
<1>6. ASSUME c \notin S, Occurrences(s, c) > 0
      PROVE  Occurrences(t, c) > 0
    BY Zenon, <1>1, <1>6, OccurrencesMember
<1> QED
    BY Zenon, <1>1, <1>4, <1>5, <1>6

-----------------------------------------------------------------------------
(***************************************************************************)
(* The places of a command.                                                *)
(***************************************************************************)

(* The router has no command in its hands where it takes the next message, and its queue
   of commands to replay is empty except in retry_buffer.  Before it has written a command
   nobody has answered on the router channel. *)
Hands ==
    /\ pc \in {"recv", "stopped", "closeWrite"} => cmd = NoCommand
    /\ pc \in Reconnecting /\ resume # "rewrite" => cmd = NoCommand
    /\ pc \notin {"replay", "rframe", "rcount", "closeReplay"} => replay = <<>>
    /\ pc \in {"write", "sleep"} => rx \in {"none", "empty"}

NotSent(c) == outcome[c] \in {"unsent", "closing"}

(* What OneOwner says of one command, and that a command that was not sent is nowhere. *)
Owned(c) ==
    /\ Owners(c) <= 1
    /\ outcome[c] = "waiting" => Owners(c) = 1
    /\ NotSent(c) => Owners(c) = 0 /\ attempted[c] = 0

OwnerInv == Hands /\ \A c \in Commands : Owned(c)

(* The counts of a command are natural numbers. *)
LEMMA CountTypes ==
    ASSUME TypeOK, NEW c \in Commands
    PROVE  /\ Occurrences(chan, c) \in Nat /\ Occurrences(buffer, c) \in Nat
           /\ Occurrences(retry, c) \in Nat /\ Occurrences(replay, c) \in Nat
    BY PositionsFinite, Zenon DEF TypeOK, CallerTypes, RouterTypes, StreamTypes

(* What the router is about to write is not on the connection. *)
LEMMA UnwrittenNotInBuffer ==
    ASSUME TypeOK, Shape, OwnerInv, pc \in {"write", "sleep"}
    PROVE  cmd \notin Range(buffer)
<1>1. cmd \in Commands
    BY Zenon DEF Shape
<1>2. InHand(cmd)
    BY Zenon DEF InHand
<1>3. Owners(cmd) <= 1
    BY <1>1, Zenon DEF OwnerInv, Owned
<1>4. ~(Occurrences(buffer, cmd) > 0)
    BY <1>1, <1>2, <1>3, CountTypes DEF Owners
<1> QED
    BY <1>4, OccurrencesMember, Zenon DEF TypeOK, StreamTypes

(* The reader task can only wake the router up for a command it has written. *)
LEMMA WakesWritten ==
    ASSUME Inv, OwnerInv, pc \in {"write", "sleep"}
    PROVE  \A c \in Range(buffer) : tx[c] # "live"
    BY UnwrittenNotInBuffer DEF Inv, TypeOK, StreamTypes, Wakeups, Range

LEMMA ReadResponseHands ==
    ASSUME Inv, OwnerInv, ReadResponse
    PROVE  Hands'
<1>1. pc \in {"write", "sleep"} => rx' = rx
  <2> SUFFICES ASSUME pc \in {"write", "sleep"}, buffer # <<>>
               PROVE  rx' = rx
      BY Zenon DEF ReadResponse
  <2>1. Head(buffer) \in Range(buffer)
      BY DEF Range, Inv, TypeOK, StreamTypes
  <2> QED
      BY <2>1, WakesWritten, Zenon DEF ReadResponse, Unblock
<1> QED
    BY <1>1, Zenon DEF OwnerInv, Hands, ReadResponse, Reconnecting

LEMMA CheckBlockedHands ==
    ASSUME Inv, OwnerInv, CheckBlockedRouter, UNCHANGED <<pc, cmd, resume, replay>>
    PROVE  Hands'
<1>1. pc \in {"write", "sleep"} => rx' = rx
  <2> SUFFICES ASSUME pc \in {"write", "sleep"}, buffer # <<>>
               PROVE  rx' = rx
      BY Zenon DEF CheckBlockedRouter
  <2>1. Head(buffer) \in Range(buffer)
      BY DEF Range, Inv, TypeOK, StreamTypes
  <2> QED
      BY <2>1, WakesWritten, Zenon DEF CheckBlockedRouter, Unblock
<1> QED
    BY <1>1, Zenon DEF OwnerInv, Hands, Reconnecting

LEMMA CheckFinalHands ==
    ASSUME Inv, OwnerInv, CheckFinalAttempt
    PROVE  Hands'
<1>1. pc \in {"write", "sleep"} => rx' = rx
    BY WakesWritten, Zenon DEF CheckFinalAttempt, OnFinalAttempt
<1> QED
    BY <1>1, Zenon DEF OwnerInv, Hands, CheckFinalAttempt, Reconnecting

(* One step keeps what the router has in its hands. *)
LEMMA HandsStep ==
    ASSUME Inv, OwnerInv, [Next]_vars
    PROVE  Hands'
<1>1. CASE \/ UNCHANGED vars \/ ForceReconnection \/ NotifyRouter \/ ReaderEnds
           \/ ServerExecutes \/ ServerCloses \/ ConnectionLost
           \/ \E c \in Commands : Send(c) \/ TimeOut(c) \/ ServerExecutesOrphan(c)
    BY <1>1 DEF OwnerInv, Hands, Reconnecting, ForceReconnection, NotifyRouter, ReaderEnds,
        ServerExecutes, ServerCloses, ConnectionLost, Send, TimeOut, ServerExecutesOrphan,
        policyVars, callerVars, commandVars, routerVars, connVars, envVars, vars
<1>2. CASE Connect
    BY <1>2, Zenon DEF OwnerInv, Hands, Reconnecting, Connect, callerVars, commandVars, connVars
<1>3. ASSUME NEW c \in Commands, BeginQuit(c)
      PROVE  Hands'
    BY <1>3, Zenon DEF OwnerInv, Hands, Reconnecting, BeginQuit, CloseSink, envVars
<1>4. CASE ReceiveCommand
    BY <1>4, Zenon DEF OwnerInv, Hands, Reconnecting, ReceiveCommand, policyVars, callerVars,
        commandVars, connVars, envVars, Inv, Wakeups
<1>5. CASE ReceiveReconnect
    BY <1>5, Zenon DEF OwnerInv, Hands, Reconnecting, ReceiveReconnect, Working, StartReconnect,
        callerVars, commandVars, envVars, CloseSink
<1>6. CASE WriteRefused
    BY <1>6, Zenon DEF OwnerInv, Hands, Reconnecting, WriteRefused, Tried, Ignored, policyVars, connVars,
        envVars
<1>7. CASE MissingConnection
    BY <1>7, Zenon DEF OwnerInv, Hands, Reconnecting, MissingConnection, Tried, policyVars, callerVars,
        connVars, envVars
<1>8. CASE WriteTimedOut
    BY <1>8, Zenon DEF OwnerInv, Hands, Reconnecting, WriteTimedOut, TimedOut, Tried, Ignored,
        policyVars, connVars, envVars
<1>9. CASE ApplyBackpressure
    BY <1>9, Zenon DEF OwnerInv, Hands, Reconnecting, ApplyBackpressure, CanWrite, Tried, Ignored,
        Receiver, policyVars, connVars, envVars
<1>10. CASE SleepElapsed
    BY <1>10, Zenon DEF OwnerInv, Hands, Reconnecting, SleepElapsed, policyVars, callerVars, commandVars,
        connVars, envVars
<1>11. CASE PushCommand
    BY <1>11, Zenon DEF OwnerInv, Hands, Reconnecting, PushCommand, CanWrite, Tried, Receiver, policyVars,
        envVars
<1>12. CASE WriteFrame
    BY <1>12, Zenon DEF OwnerInv, Hands, Reconnecting, WriteFrame, policyVars, callerVars, commandVars,
        envVars
<1>13. CASE CountFrame
    BY <1>13, Zenon DEF OwnerInv, Hands, Reconnecting, CountFrame, policyVars, callerVars, commandVars,
        envVars
<1>14. CASE WriteFails
    BY <1>14, Zenon DEF OwnerInv, Hands, Reconnecting, WriteFails, policyVars, envVars
<1>15. CASE RouterUnblocked
    BY <1>15, Zenon DEF OwnerInv, Hands, Reconnecting, RouterUnblocked, CloseSink, policyVars, callerVars,
        commandVars, envVars
<1>16. CASE RouterSeesClose
    BY <1>16, Zenon DEF OwnerInv, Hands, Reconnecting, RouterSeesClose, StartReconnect, commandVars,
        envVars, CloseSink
<1>17. CASE ClosedAfterWrite
    BY <1>17, Zenon DEF OwnerInv, Hands, Reconnecting, ClosedAfterWrite, ReleaseConnection, policyVars,
        callerVars, commandVars
<1>18. CASE ClosedBeforeConnect
    BY <1>18, Zenon DEF OwnerInv, Hands, Reconnecting, ClosedBeforeConnect, ReleaseConnection, policyVars,
        callerVars, commandVars
<1>19. CASE ClosedAndStopped
    BY <1>19, Zenon DEF OwnerInv, Hands, Reconnecting, ClosedAndStopped, ReleaseConnection
<1>20. CASE DelayElapsed
    BY <1>20, Zenon DEF OwnerInv, Hands, Reconnecting, DelayElapsed, CloseSink, callerVars, commandVars,
        envVars
<1>21. CASE ConnectionMade
    BY <1>21, Zenon DEF OwnerInv, Hands, Reconnecting, ConnectionMade, policyVars, callerVars,
        commandVars, envVars
<1>22. CASE ConnectionRefused
    BY <1>22, Zenon DEF OwnerInv, Hands, Reconnecting, ConnectionRefused, StartReconnect, callerVars,
        commandVars, CloseSink
<1>23. CASE ReplayCommand
    BY <1>23, Zenon DEF OwnerInv, Hands, Reconnecting, ReplayCommand, TimedOut, policyVars, envVars
<1>24. CASE ReplayFinished
    BY <1>24, Zenon DEF OwnerInv, Hands, Reconnecting, ReplayFinished, AfterReconnect, CloseSink,
        callerVars, commandVars, envVars, Inv, Wakeups
<1>25. CASE ClosedDuringReplay
    BY <1>25, Zenon DEF OwnerInv, Hands, Reconnecting, ClosedDuringReplay, ReleaseConnection,
        AfterReconnect, Inv, Wakeups
<1>26. CASE ReadResponse
    BY Zenon, <1>26, ReadResponseHands
<1>27. CASE ReaderSeesEnd
    BY <1>27, CheckBlockedHands, Zenon DEF ReaderSeesEnd
<1>28. CASE CheckFinalAttempt
    BY Zenon, <1>28, CheckFinalHands
<1>29. CASE ReaderFails
    BY <1>29, CheckBlockedHands, Zenon DEF ReaderFails
<1> QED
    BY Zenon, <1>1, <1>2, <1>3, <1>4, <1>5, <1>6, <1>7, <1>8, <1>9, <1>10, <1>11, <1>12, <1>13, <1>14,
        <1>15, <1>16, <1>17, <1>18, <1>19, <1>20, <1>21, <1>22, <1>23, <1>24, <1>25, <1>26,
        <1>27, <1>28, <1>29
    DEF Next, CallerNext, RouterNext, ReaderNext, ServerNext, FaultNext

-----------------------------------------------------------------------------
(* How the steps of the callers and of the router up to the write move a   *)
(* command.                                                                *)

(* A step that moves a command, or touches it only after it was sent. *)
LEMMA OwnedMoved ==
    ASSUME NEW c \in Commands, Owned(c), Owners(c)' = Owners(c),
           outcome'[c] = outcome[c] \/ (NotSent(c) /\ outcome'[c] \in {"unsent", "closing"}),
           attempted'[c] = attempted[c] \/ ~NotSent(c)
    PROVE  Owned(c)'
    BY Zenon DEF Owned, NotSent

(* A step that answers the caller: the command may be dropped. *)
LEMMA OwnedAnswered ==
    ASSUME NEW c \in Commands, Owned(c), Owners(c)' \in Nat, Owners(c) \in Nat,
           Owners(c)' <= Owners(c), outcome'[c] \in Final
    PROVE  Owned(c)'
    BY DEF Owned, NotSent, Final

(* A command that is somewhere was sent. *)
LEMMA OwnedWasSent ==
    ASSUME NEW c \in Commands, Owned(c), Owners(c) # 0
    PROVE  ~NotSent(c)
    BY Zenon DEF Owned

(* Owners is a natural number, and at least one for the command in the router's hands. *)
LEMMA OwnersTypes ==
    ASSUME TypeOK, NEW c \in Commands
    PROVE  Owners(c) \in Nat /\ (InHand(c) => Owners(c) # 0)
    BY CountTypes DEF Owners

(* respond_to_caller, seen by one caller. *)
LEMMA AnswerOf ==
    ASSUME NEW c \in Commands, NEW S, NEW how
    PROVE  Answer(outcome, S, how)[c] = IF c \in S /\ outcome[c] = "waiting" THEN how ELSE outcome[c]
    BY Zenon DEF Answer

(* What the router does with the command in its hands before it has written it: it
   answers the caller, or finds it gone, and lets go of the command. *)
LEMMA LetGoOwned ==
    ASSUME Inv, OwnerInv, pc \in {"write", "sleep"}, NEW c \in Commands,
           pc' = "recv", cmd' = NoCommand,
           UNCHANGED <<chan, buffer, retry, replay, sending>>,
           c # cmd => \/ outcome'[c] = outcome[c]
                      \/ NotSent(c) /\ outcome'[c] \in {"unsent", "closing"},
           c # cmd => attempted'[c] = attempted[c],
           outcome[cmd] = "waiting" => outcome'[cmd] \in Final,
           outcome[cmd] # "waiting" => outcome'[cmd] = outcome[cmd]
    PROVE  Owned(c)'
<1>1. cmd \in Commands /\ Owned(c) /\ Owned(cmd)
    BY Zenon DEF Inv, Shape, OwnerInv
<1>2. InHand(cmd) /\ ~InHand(c)' /\ ~GivenBack(c) /\ ~GivenBack(c)'
    BY CommandsAssumption, Zenon DEF InHand, GivenBack
<1>3. TypeOK /\ Owners(c) \in Nat
    BY OwnersTypes, Zenon DEF Inv
<1>4. CASE c # cmd
  <2>1. ~InHand(c)
      BY <1>4, Zenon DEF InHand
  <2>2. Owners(c)' = Owners(c)
      BY <1>2, <2>1, Zenon DEF Owners
  <2> QED
      BY Zenon, <1>1, <1>4, <2>2, OwnedMoved
<1>5. CASE c = cmd
  <2>1. ~NotSent(cmd)
      BY Zenon, <1>1, <1>2, <1>3, OwnersTypes, OwnedWasSent
  <2>2. outcome'[c] \in Final
      BY <1>1, <1>3, <1>5, <2>1, Zenon DEF TypeOK, CallerTypes, NotSent
  <2>3. Owners(c)' \in Nat /\ Owners(c)' <= Owners(c)
      BY <1>2, <1>3, <1>5, CountTypes DEF Owners
  <2> QED
      BY Zenon, <1>1, <1>3, <2>2, <2>3, OwnedAnswered
<1> QED
    BY Zenon, <1>4, <1>5

(* What the proofs below use of the invariants, for one command. *)
LEMMA OwnerFacts ==
    ASSUME Inv, OwnerInv, NEW c \in Commands
    PROVE  /\ TypeOK /\ Shape /\ Hands /\ Wakeups /\ Owned(c)
           /\ Occurrences(chan, c) \in Nat /\ Occurrences(buffer, c) \in Nat
           /\ Occurrences(retry, c) \in Nat /\ Occurrences(replay, c) \in Nat
           /\ Owners(c) \in Nat /\ (Owners(c) # 0 => ~NotSent(c))
    BY CountTypes, OwnersTypes, Zenon DEF Inv, OwnerInv, Owned

(* A message that is no command leaves the places of the commands as they are. *)
LEMMA MessageOwned ==
    ASSUME Inv, OwnerInv, NEW c \in Commands, NEW m \in {"Reconnect", "Force"},
           Pushed(chan, m, chan'), UNCHANGED <<buffer, retry, replay, cmd, sending, pc, rx>>,
           UNCHANGED <<outcome, attempted>>
    PROVE  Owned(c)'
<1>1. m # c /\ chan \in Seq(Commands \cup {"Reconnect", "Force"})
    BY CommandsAssumption, Zenon DEF Inv, TypeOK, CallerTypes
<1>2. Occurrences(chan', c) = Occurrences(chan, c) + 0
    BY <1>1, PushedCount
<1>3. Owners(c)' = Owners(c)
    BY <1>2, OwnerFacts DEF Owners, InHand, GivenBack
<1> QED
    BY Zenon, <1>3, OwnedMoved, OwnerFacts

LEMMA SendOwned ==
    ASSUME Inv, OwnerInv, NEW c \in Commands, NEW d \in Commands, Send(d)
    PROVE  Owned(c)'
<1> /\ TypeOK /\ Shape /\ Hands /\ Wakeups /\ Owned(c)
    /\ Occurrences(chan, c) \in Nat /\ Occurrences(buffer, c) \in Nat
    /\ Occurrences(retry, c) \in Nat /\ Occurrences(replay, c) \in Nat
    /\ Owners(c) \in Nat /\ (Owners(c) # 0 => ~NotSent(c))
    BY Zenon, OwnerFacts
<1>1. /\ Pushed(chan, d, chan') /\ chan \in Seq(Commands \cup {"Reconnect", "Force"})
      /\ d \in Commands \cup {"Reconnect", "Force"}
    BY Zenon DEF Pushed, Send, TypeOK, CallerTypes
<1>2. /\ d = c => Occurrences(chan', c) = Occurrences(chan, c) + 1
      /\ d # c => Occurrences(chan', c) = Occurrences(chan, c)
    BY <1>1, PushedCount
<1>3. UNCHANGED <<buffer, retry, replay, cmd, sending, pc, rx, attempted>>
    BY Zenon DEF Send, routerVars, connVars, commandVars
<1>4. CASE d # c
  <2>1. Owners(c)' = Owners(c)
      BY <1>2, <1>3, <1>4, Zenon DEF Owners, InHand, GivenBack
  <2>2. outcome'[c] = outcome[c]
      BY <1>4, Zenon DEF Send, TypeOK, CallerTypes
  <2> QED
      BY Zenon, <1>3, <2>1, <2>2, OwnedMoved
<1>5. CASE d = c
  <2>1. NotSent(c)
      BY <1>5, Zenon DEF Send, NotSent
  <2>2. Owners(c)' = 1
    <3>1. Owners(c) = 0
        BY <2>1, Zenon DEF Owned
    <3>2. (InHand(c)' <=> InHand(c)) /\ (GivenBack(c)' <=> GivenBack(c))
        BY <1>3, Zenon DEF InHand, GivenBack
    <3> QED
        BY <1>2, <1>3, <1>5, <3>1, <3>2 DEF Owners
  <2>3. outcome'[c] = "waiting"
      BY <1>5, Zenon DEF Send, TypeOK, CallerTypes
  <2> QED
      BY <2>2, <2>3 DEF Owned, NotSent
<1> QED
    BY Zenon, <1>4, <1>5

LEMMA TimeOutOwned ==
    ASSUME Inv, OwnerInv, NEW c \in Commands, NEW d \in Commands, TimeOut(d)
    PROVE  Owned(c)'
<1>1. Owners(c)' = Owners(c) /\ attempted' = attempted
    BY Zenon DEF TimeOut, Owners, InHand, GivenBack, routerVars, connVars, commandVars
<1>2. \/ outcome'[c] = outcome[c]
      \/ outcome'[c] \in Final
    BY OwnerFacts, Zenon DEF TimeOut, TypeOK, CallerTypes, Final
<1> QED
    BY <1>1, <1>2, OwnerFacts, OwnedMoved, OwnedAnswered

LEMMA BeginQuitOwned ==
    ASSUME Inv, OwnerInv, NEW c \in Commands, NEW d \in Commands, BeginQuit(d)
    PROVE  Owned(c)'
<1> /\ TypeOK /\ Shape /\ Hands /\ Wakeups /\ Owned(c)
    /\ Occurrences(chan, c) \in Nat /\ Occurrences(buffer, c) \in Nat
    /\ Occurrences(retry, c) \in Nat /\ Occurrences(replay, c) \in Nat
    /\ Owners(c) \in Nat /\ (Owners(c) # 0 => ~NotSent(c))
    BY Zenon, OwnerFacts
<1>1. UNCHANGED <<chan, buffer, retry, replay, sending, attempted>> /\ NotSent(d)
    BY Zenon DEF BeginQuit, NotSent
<1>2. CASE outcome' = [outcome EXCEPT ![d] = "closing"] /\ cmd' = cmd /\ rx' = rx
           /\ (pc' = pc \/ (pc = "delay" /\ pc' = "closeStop"))
  <2>1. Owners(c)' = Owners(c)
      BY <1>1, <1>2, Zenon DEF Owners, InHand, GivenBack
  <2>2. outcome'[c] = outcome[c] \/ (NotSent(c) /\ outcome'[c] = "closing")
      BY <1>1, <1>2, Zenon DEF TypeOK, CallerTypes
  <2> QED
      BY Zenon, <1>1, <2>1, <2>2, OwnedMoved
<1>3. CASE /\ pc = "sleep" /\ pc' = "recv" /\ cmd' = NoCommand
           /\ outcome' = [Answer(outcome, {cmd}, "error") EXCEPT ![d] = "closing"]
  <2>1. cmd \in Commands /\ InHand(cmd)
      BY <1>3, Zenon DEF Shape, InHand
  <2>2. ~NotSent(cmd) /\ d # cmd
      BY Zenon, <1>1, <2>1, OwnersTypes, OwnerFacts
  <2>3. \A x \in Commands : x # d => outcome'[x] = Answer(outcome, {cmd}, "error")[x]
      BY <1>3, Zenon DEF Answer
  <2>4. outcome'[d] = "closing"
      BY <1>3, Zenon DEF Answer
  <2>5. c # cmd => \/ outcome'[c] = outcome[c]
                   \/ NotSent(c) /\ outcome'[c] \in {"unsent", "closing"}
      BY Zenon, <1>1, <2>3, <2>4, AnswerOf
  <2>6. outcome'[cmd] = IF outcome[cmd] = "waiting" THEN "error" ELSE outcome[cmd]
      BY Zenon, <2>1, <2>2, <2>3, AnswerOf
  <2> QED
      BY <1>1, <1>3, <2>5, <2>6, LetGoOwned, Zenon DEF Final
<1> QED
    BY <1>2, <1>3, Zenon DEF BeginQuit

(* Steps between which every command stays where it is and no caller hears anything. *)
LEMMA StayingOwned ==
    ASSUME Inv, OwnerInv, NEW c \in Commands,
           \/ UNCHANGED vars \/ Connect \/ SleepElapsed \/ WriteFrame \/ CountFrame
           \/ RouterUnblocked \/ DelayElapsed \/ ConnectionRefused \/ ReplayFinished
           \/ ReaderEnds \/ ServerExecutes \/ ServerCloses \/ ConnectionLost
           \/ \E d \in Commands : ServerExecutesOrphan(d)
    PROVE  Owned(c)'
<1> /\ TypeOK /\ Shape /\ Hands /\ Wakeups /\ Owned(c)
    /\ Occurrences(chan, c) \in Nat /\ Occurrences(buffer, c) \in Nat
    /\ Occurrences(retry, c) \in Nat /\ Occurrences(replay, c) \in Nat
    /\ Owners(c) \in Nat /\ (Owners(c) # 0 => ~NotSent(c))
    BY Zenon, OwnerFacts
<1>1. CASE \/ UNCHANGED vars \/ ReaderEnds \/ ServerExecutes \/ ServerCloses \/ ConnectionLost
           \/ \E d \in Commands : ServerExecutesOrphan(d)
  <2>1. Owners(c)' = Owners(c) /\ UNCHANGED <<outcome, attempted>>
      BY <1>1, Zenon DEF Owners, InHand, GivenBack, ReaderEnds, ServerExecutes, ServerCloses,
          ConnectionLost, ServerExecutesOrphan, vars, callerVars, commandVars, routerVars,
          connVars
  <2> QED
      BY Zenon, <2>1, OwnedMoved
<1>2. CASE Connect \/ SleepElapsed \/ DelayElapsed \/ ConnectionRefused \/ ReplayFinished
  <2>1. /\ UNCHANGED <<chan, buffer, retry, replay, cmd, sending, outcome, attempted>>
        /\ pc \notin {"frame", "count", "await", "closeWrite", "closeReplay"}
        /\ pc' \notin {"frame", "count", "await", "closeWrite", "closeReplay"}
      BY <1>2, Zenon DEF Connect, SleepElapsed, DelayElapsed, ConnectionRefused, ReplayFinished,
          AfterReconnect, StartReconnect, callerVars, commandVars, connVars
  <2>2. Owners(c)' = Owners(c)
      BY <2>1, Zenon DEF Owners, InHand, GivenBack
  <2> QED
      BY Zenon, <2>1, <2>2, OwnedMoved
<1>3. CASE WriteFrame \/ CountFrame \/ RouterUnblocked
  <2>1. /\ UNCHANGED <<chan, buffer, retry, replay, outcome, attempted>>
        /\ GivenBack(c)' = GivenBack(c)
      BY <1>3, Zenon DEF WriteFrame, CountFrame, RouterUnblocked, GivenBack, callerVars, commandVars,
          connVars
  <2>2. InHand(c)' = InHand(c)
      BY <1>3, CommandsAssumption, Zenon DEF WriteFrame, CountFrame, RouterUnblocked, InHand
  <2>3. Owners(c)' = Owners(c)
      BY <2>1, <2>2, Zenon DEF Owners
  <2> QED
      BY Zenon, <2>1, <2>3, OwnedMoved
<1> QED
    BY Zenon, <1>1, <1>2, <1>3

LEMMA ReceiveCommandOwned ==
    ASSUME Inv, OwnerInv, NEW c \in Commands, ReceiveCommand
    PROVE  Owned(c)'
<1> /\ TypeOK /\ Shape /\ Hands /\ Wakeups /\ Owned(c)
    /\ Occurrences(chan, c) \in Nat /\ Occurrences(buffer, c) \in Nat
    /\ Occurrences(retry, c) \in Nat /\ Occurrences(replay, c) \in Nat
    /\ Owners(c) \in Nat /\ (Owners(c) # 0 => ~NotSent(c))
    BY Zenon, OwnerFacts
<1>1. /\ Popped(chan, cmd', chan') /\ chan \in Seq(Commands \cup {"Reconnect", "Force"})
      /\ cmd = NoCommand /\ pc = "recv" /\ pc' = "write"
      /\ UNCHANGED <<buffer, retry, replay, sending, outcome, attempted>>
    BY Zenon DEF Popped, ReceiveCommand, Hands, TypeOK, CallerTypes, callerVars, commandVars, connVars
<1>2. /\ cmd' = c => Occurrences(chan, c) = Occurrences(chan', c) + 1
      /\ cmd' # c => Occurrences(chan, c) = Occurrences(chan', c)
    BY <1>1, PoppedCount, PositionsFinite
<1>3. Owners(c)' = Owners(c)
  <2>1. Occurrences(chan', c) \in Nat
      BY <1>1, PoppedCount, PositionsFinite
  <2> QED
      BY <1>1, <1>2, <2>1, CommandsAssumption DEF Owners, InHand, GivenBack
<1> QED
    BY Zenon, <1>1, <1>3, OwnedMoved

LEMMA ReceiveReconnectOwned ==
    ASSUME Inv, OwnerInv, NEW c \in Commands, ReceiveReconnect
    PROVE  Owned(c)'
<1> /\ TypeOK /\ Shape /\ Hands /\ Wakeups /\ Owned(c)
    /\ Occurrences(chan, c) \in Nat /\ Occurrences(buffer, c) \in Nat
    /\ Occurrences(retry, c) \in Nat /\ Occurrences(replay, c) \in Nat
    /\ Owners(c) \in Nat /\ (Owners(c) # 0 => ~NotSent(c))
    BY Zenon, OwnerFacts
<1> DEFINE m == Head(chan)
<1>1. /\ Popped(chan, m, chan') /\ chan \in Seq(Commands \cup {"Reconnect", "Force"})
      /\ m # c
    BY CommandsAssumption, Zenon DEF Popped, ReceiveReconnect, TypeOK, CallerTypes
<1>2. /\ UNCHANGED <<buffer, retry, replay, cmd, sending, outcome, attempted>>
      /\ pc = "recv" /\ pc' \in {"recv", "delay", "closeStop"}
    BY Zenon DEF ReceiveReconnect, StartReconnect, callerVars, commandVars
<1> HIDE DEF m
<1>3. Occurrences(chan, c) = Occurrences(chan', c) /\ Occurrences(chan', c) \in Nat
    BY <1>1, PoppedCount, PositionsFinite
<1>4. Owners(c)' = Owners(c)
    BY <1>2, <1>3, Zenon DEF Owners, InHand, GivenBack
<1> QED
    BY Zenon, <1>2, <1>4, OwnedMoved

LEMMA IgnoredOwned ==
    ASSUME Inv, OwnerInv, NEW c \in Commands, WriteRefused \/ WriteTimedOut
    PROVE  Owned(c)'
<1> /\ TypeOK /\ Shape /\ Hands /\ Wakeups /\ Owned(c)
    /\ Occurrences(chan, c) \in Nat /\ Occurrences(buffer, c) \in Nat
    /\ Occurrences(retry, c) \in Nat /\ Occurrences(replay, c) \in Nat
    /\ Owners(c) \in Nat /\ (Owners(c) # 0 => ~NotSent(c))
    BY Zenon, OwnerFacts
<1>1. /\ UNCHANGED <<chan, buffer, retry, replay, sending>> /\ cmd \in Commands
      /\ pc = "write" /\ pc' = "recv" /\ cmd' = NoCommand
      /\ attempted' = Tried
      /\ \/ outcome' = Answer(outcome, {cmd}, "attempts")
         \/ outcome[cmd] # "waiting" /\ outcome' = outcome
    BY Zenon DEF WriteRefused, WriteTimedOut, Ignored, TimedOut, Shape, connVars
<1>2. c # cmd => outcome'[c] = outcome[c] /\ attempted'[c] = attempted[c]
    BY <1>1, AnswerOf DEF Tried, TypeOK, CommandTypes
<1>3. /\ outcome[cmd] = "waiting" => outcome'[cmd] \in Final
      /\ outcome[cmd] # "waiting" => outcome'[cmd] = outcome[cmd]
    BY <1>1, AnswerOf DEF Final
<1> QED
    BY Zenon, <1>1, <1>2, <1>3, LetGoOwned

LEMMA ApplyBackpressureOwned ==
    ASSUME Inv, OwnerInv, NEW c \in Commands, ApplyBackpressure
    PROVE  Owned(c)'
<1> /\ TypeOK /\ Shape /\ Hands /\ Wakeups /\ Owned(c)
    /\ Occurrences(chan, c) \in Nat /\ Occurrences(buffer, c) \in Nat
    /\ Occurrences(retry, c) \in Nat /\ Occurrences(replay, c) \in Nat
    /\ Owners(c) \in Nat /\ (Owners(c) # 0 => ~NotSent(c))
    BY Zenon, OwnerFacts
<1>1. /\ UNCHANGED <<chan, buffer, retry, replay, sending>> /\ cmd \in Commands
      /\ pc = "write" /\ InHand(cmd)
      /\ attempted' = Tried
    BY Zenon DEF ApplyBackpressure, CanWrite, Shape, InHand, connVars
<1>2. c # cmd => attempted'[c] = attempted[c]
    BY <1>1, Zenon DEF Tried, TypeOK, CommandTypes
<1>3. CASE pc' = "recv" /\ cmd' = NoCommand /\ outcome' = Answer(outcome, {cmd}, "backpressure")
  <2>1. /\ c # cmd => outcome'[c] = outcome[c]
        /\ outcome[cmd] = "waiting" => outcome'[cmd] \in Final
        /\ outcome[cmd] # "waiting" => outcome'[cmd] = outcome[cmd]
      BY <1>1, <1>3, AnswerOf, Zenon DEF Final
  <2> QED
      BY Zenon, <1>1, <1>2, <1>3, <2>1, LetGoOwned
<1>4. CASE pc' \in {"sleep", "write"} /\ UNCHANGED <<outcome, cmd>>
  <2>1. Owners(c)' = Owners(c)
      BY <1>1, <1>4, Zenon DEF Owners, InHand, GivenBack
  <2>2. c = cmd => ~NotSent(c)
      BY Zenon, <1>1, OwnersTypes
  <2> QED
      BY Zenon, <1>2, <1>4, <2>1, <2>2, OwnedMoved
<1> QED
    BY <1>1, <1>3, <1>4, Zenon DEF ApplyBackpressure, Ignored

LEMMA MissingConnectionOwned ==
    ASSUME Inv, OwnerInv, NEW c \in Commands, MissingConnection
    PROVE  Owned(c)'
<1> /\ TypeOK /\ Shape /\ Hands /\ Wakeups /\ Owned(c)
    /\ Occurrences(chan, c) \in Nat /\ Occurrences(buffer, c) \in Nat
    /\ Occurrences(retry, c) \in Nat /\ Occurrences(replay, c) \in Nat
    /\ Owners(c) \in Nat /\ (Owners(c) # 0 => ~NotSent(c))
    BY Zenon, OwnerFacts
<1>1. /\ Pushed(retry, cmd, retry') /\ retry \in Seq(Commands) /\ cmd \in Commands
      /\ UNCHANGED <<chan, buffer, replay, sending, outcome>>
      /\ pc = "write" /\ pc' = "closeStop" /\ cmd' = NoCommand /\ attempted' = Tried
    BY Zenon DEF Pushed, MissingConnection, Shape, TypeOK, RouterTypes, callerVars, connVars
<1>2. /\ cmd = c => Occurrences(retry', c) = Occurrences(retry, c) + 1
      /\ cmd # c => Occurrences(retry', c) = Occurrences(retry, c)
    BY <1>1, PushedCount
<1>3. Owners(c)' = Owners(c)
    BY <1>1, <1>2, CommandsAssumption DEF Owners, InHand, GivenBack
<1>4. attempted'[c] = attempted[c] \/ ~NotSent(c)
  <2>1. c = cmd => ~NotSent(c)
      BY <1>1, OwnersTypes, Zenon DEF InHand
  <2> QED
      BY <1>1, <2>1, Zenon DEF Tried, TypeOK, CommandTypes
<1> QED
    BY Zenon, <1>1, <1>3, <1>4, OwnedMoved

(* A caller that was sent for is answered, or was before. *)
LEMMA FinallyAnswered ==
    ASSUME TypeOK, NEW c \in Commands, ~NotSent(c), outcome[c] = "waiting" => outcome'[c] \in Final,
           outcome[c] # "waiting" => outcome'[c] = outcome[c]
    PROVE  outcome'[c] \in Final
    BY Zenon DEF TypeOK, CallerTypes, NotSent

LEMMA PushCommandOwned ==
    ASSUME Inv, OwnerInv, NEW c \in Commands, PushCommand
    PROVE  Owned(c)'
<1> /\ TypeOK /\ Shape /\ Hands /\ Wakeups /\ Owned(c)
    /\ Occurrences(chan, c) \in Nat /\ Occurrences(buffer, c) \in Nat
    /\ Occurrences(retry, c) \in Nat /\ Occurrences(replay, c) \in Nat
    /\ Owners(c) \in Nat /\ (Owners(c) # 0 => ~NotSent(c))
    BY Zenon, OwnerFacts
<1>1. /\ UNCHANGED <<chan, retry, replay, cmd>> /\ cmd \in Commands
      /\ pc = "write" /\ pc' = "frame" /\ attempted' = Tried
      /\ rx' \in {"none", "empty", "continue"}
    BY Zenon DEF PushCommand, CanWrite, Shape, Hands, Receiver
<1>2. (InHand(c) <=> c = cmd) /\ ~InHand(c)' /\ ~GivenBack(c) /\ ~GivenBack(c)'
    BY <1>1, Zenon DEF InHand, GivenBack
<1>3. c = cmd => ~NotSent(c)
    BY Zenon, <1>2, OwnersTypes
<1>4. c # cmd => attempted'[c] = attempted[c]
    BY <1>1, Zenon DEF Tried, TypeOK, CommandTypes
<1>5. CASE cmd \in NoResponses
  <2>1. buffer' = buffer /\ outcome' = Answer(outcome, {cmd}, "ok")
      BY <1>5, Zenon DEF PushCommand
  <2>2. CASE c # cmd
    <3>1. Owners(c)' = Owners(c)
        BY <1>1, <1>2, <2>1, <2>2, Zenon DEF Owners
    <3>2. outcome'[c] = outcome[c]
        BY Zenon, <2>1, <2>2, AnswerOf
    <3> QED
        BY Zenon, <1>4, <2>2, <3>1, <3>2, OwnedMoved
  <2>3. CASE c = cmd
    <3>1. Owners(c)' \in Nat /\ Owners(c)' <= Owners(c)
        BY <1>1, <1>2, <2>1, <2>3 DEF Owners
    <3>2. outcome'[c] \in Final
        BY <1>3, <2>1, <2>3, AnswerOf, FinallyAnswered, Zenon DEF Final
    <3> QED
        BY Zenon, <3>1, <3>2, OwnedAnswered
  <2> QED
      BY Zenon, <2>2, <2>3
<1>6. CASE cmd \notin NoResponses
  <2>1. Pushed(buffer, cmd, buffer') /\ outcome' = outcome /\ buffer \in Seq(Commands)
      BY <1>6, Zenon DEF Pushed, PushCommand, TypeOK, StreamTypes
  <2>2. /\ cmd = c => Occurrences(buffer', c) = Occurrences(buffer, c) + 1
        /\ cmd # c => Occurrences(buffer', c) = Occurrences(buffer, c)
      BY <1>1, <2>1, PushedCount
  <2>3. Owners(c)' = Owners(c)
      BY <1>1, <1>2, <2>2 DEF Owners
  <2> QED
      BY Zenon, <1>3, <1>4, <2>1, <2>3, OwnedMoved
<1> QED
    BY Zenon, <1>5, <1>6

LEMMA WriteFailsOwned ==
    ASSUME Inv, OwnerInv, NEW c \in Commands, WriteFails
    PROVE  Owned(c)'
<1> /\ TypeOK /\ Shape /\ Hands /\ Wakeups /\ Owned(c)
    /\ Occurrences(chan, c) \in Nat /\ Occurrences(buffer, c) \in Nat
    /\ Occurrences(retry, c) \in Nat /\ Occurrences(replay, c) \in Nat
    /\ Owners(c) \in Nat /\ (Owners(c) # 0 => ~NotSent(c))
    BY Zenon, OwnerFacts
<1>1. /\ UNCHANGED <<chan, retry, replay, attempted>> /\ ~GivenBack(c)
      /\ pc' \in {"recv", "replay", "closeWrite", "closeReplay"}
    BY Zenon DEF WriteFails, GivenBack
<1>2. /\ c \in InChannel => InHand(c) /\ ~InHand(c)' /\ ~NotSent(c)
      /\ c \notin InChannel => (InHand(c)' <=> InHand(c))
  <2>1. CASE pc = "frame"
    <3>1. (c \in InChannel <=> InHand(c)) /\ ~InHand(c)'
        BY <2>1, CommandsAssumption, Zenon DEF WriteFails, InChannel, InHand
    <3> QED
        BY Zenon, <3>1, OwnersTypes
  <2>2. CASE pc = "rframe"
    <3>1. c \notin InChannel /\ (InHand(c)' <=> InHand(c))
        BY <2>2, Zenon DEF WriteFails, InChannel, InHand, Wakeups
    <3> QED
        BY Zenon, <3>1
  <2> QED
      BY <2>1, <2>2, Zenon DEF WriteFails
<1>3. \A d \in Commands : Dropped(outcome, InChannel)[d] =
        IF d \in InChannel /\ outcome[d] = "waiting" THEN "canceled" ELSE outcome[d]
    BY Zenon DEF Dropped, Answer
<1>4. CASE buffer = <<>>
  <2>1. /\ buffer' = buffer /\ outcome' = Dropped(outcome, InChannel) /\ ~GivenBack(c)'
      BY <1>4, Zenon DEF WriteFails, GivenBack
  <2>2. CASE c \in InChannel
    <3>1. Owners(c)' \in Nat /\ Owners(c)' <= Owners(c)
        BY <1>1, <1>2, <2>1, <2>2 DEF Owners
    <3>2. outcome'[c] \in Final
        BY <1>2, <1>3, <2>1, <2>2, FinallyAnswered, Zenon DEF Final
    <3> QED
        BY Zenon, <3>1, <3>2, OwnedAnswered
  <2>3. CASE c \notin InChannel
    <3>1. Owners(c)' = Owners(c) /\ outcome'[c] = outcome[c]
        BY <1>1, <1>2, <1>3, <2>1, <2>3, Zenon DEF Owners
    <3> QED
        BY Zenon, <1>1, <3>1, OwnedMoved
  <2> QED
      BY Zenon, <2>2, <2>3
<1>5. CASE buffer # <<>>
  <2> DEFINE last == PopRecent(buffer).command
  <2>1. TakenBack(buffer, last, buffer') /\ buffer \in Seq(Commands)
      BY <1>5, Zenon DEF TakenBack, WriteFails, PopRecent, TypeOK, StreamTypes
  <2>2. pc' \in {"closeWrite", "closeReplay"}
      BY <1>5, Zenon DEF WriteFails
  <2>3. \/ /\ outcome' = Answer(Dropped(outcome, InChannel), {last}, "error")
           /\ sending' = NoCommand
        \/ /\ outcome' = Dropped(outcome, InChannel)
           /\ sending' = last
      BY <1>5, Zenon DEF WriteFails
  <2> HIDE DEF last
  <2>4. /\ last = c => Occurrences(buffer, c) = Occurrences(buffer', c) + 1
        /\ last # c => Occurrences(buffer, c) = Occurrences(buffer', c)
      BY <2>1, TakenBackCount, PositionsFinite
  <2>5. last \in Commands /\ Occurrences(buffer', c) \in Nat
      BY Zenon, <2>1, TakenBackCount, PositionsFinite
  <2>6. ASSUME last = c
        PROVE  ~NotSent(c) /\ ~InHand(c)
    <3>1. Occurrences(buffer, c) >= 1
        BY <2>4, <2>5, <2>6
    <3>2. Owners(c) <= 1
        BY Zenon DEF Owned
    <3>3. ~InHand(c) /\ Owners(c) # 0
        BY <1>1, <3>1, <3>2 DEF Owners
    <3> QED
        BY Zenon, <3>3
  <2>7. CASE sending' = last /\ c \notin InChannel /\ outcome' = Dropped(outcome, InChannel)
    <3>1. Owners(c)' = Owners(c)
        BY <1>1, <1>2, <2>2, <2>4, <2>5, <2>7 DEF Owners, GivenBack
    <3>2. outcome'[c] = outcome[c]
        BY Zenon, <1>3, <2>7
    <3> QED
        BY Zenon, <1>1, <3>1, <3>2, OwnedMoved
  <2>8. CASE last # c /\ c \notin InChannel /\ sending' = NoCommand
             /\ outcome' = Answer(Dropped(outcome, InChannel), {last}, "error")
    <3>1. Owners(c)' = Owners(c)
        BY <1>1, <1>2, <2>2, <2>4, <2>5, <2>8, CommandsAssumption, Zenon DEF Owners, GivenBack
    <3>2. outcome'[c] = outcome[c]
        BY <1>3, <2>8, Zenon DEF Answer
    <3> QED
        BY Zenon, <1>1, <3>1, <3>2, OwnedMoved
  <2>9. CASE c \in InChannel \/ (last = c /\ sending' = NoCommand
               /\ outcome' = Answer(Dropped(outcome, InChannel), {last}, "error"))
    <3>1. Owners(c)' \in Nat /\ Owners(c)' <= Owners(c)
        BY <1>1, <1>2, <2>2, <2>3, <2>4, <2>5, <2>6, <2>9, CommandsAssumption
        DEF Owners, GivenBack
    <3>2. outcome'[c] \in Final
      <4>1. /\ outcome[c] = "waiting" => outcome'[c] \in {"canceled", "error"}
            /\ outcome[c] # "waiting" => outcome'[c] = outcome[c]
          BY <1>3, <2>3, <2>9, Zenon DEF Answer
      <4> QED
          BY <1>2, <2>6, <2>9, <4>1, FinallyAnswered, Zenon DEF Final
    <3> QED
        BY Zenon, <3>1, <3>2, OwnedAnswered
  <2> QED
      BY Zenon, <2>3, <2>7, <2>8, <2>9
<1> QED
    BY Zenon, <1>4, <1>5

LEMMA RouterSeesCloseOwned ==
    ASSUME Inv, OwnerInv, NEW c \in Commands, RouterSeesClose
    PROVE  Owned(c)'
<1> /\ TypeOK /\ Shape /\ Hands /\ Wakeups /\ Owned(c)
    /\ Occurrences(chan, c) \in Nat /\ Occurrences(buffer, c) \in Nat
    /\ Occurrences(retry, c) \in Nat /\ Occurrences(replay, c) \in Nat
    /\ Owners(c) \in Nat /\ (Owners(c) # 0 => ~NotSent(c))
    BY Zenon, OwnerFacts
<1>1. /\ UNCHANGED <<chan, buffer, retry, replay, attempted, sending>> /\ cmd \in Commands
      /\ pc = "await" /\ rx = "closed" /\ pc' \in {"delay", "closeStop"}
    BY Zenon DEF RouterSeesClose, StartReconnect, Shape, commandVars
<1>2. (InHand(c) <=> c = cmd) /\ (InHand(c)' <=> c = cmd') /\ ~GivenBack(c) /\ ~GivenBack(c)'
    BY <1>1, Zenon DEF InHand, GivenBack
<1>3. CASE cmd' = cmd /\ outcome' = outcome
  <2>1. Owners(c)' = Owners(c)
      BY <1>1, <1>2, <1>3, Zenon DEF Owners
  <2> QED
      BY Zenon, <1>1, <1>3, <2>1, OwnedMoved
<1>4. CASE cmd' = NoCommand /\ outcome' = Answer(outcome, {cmd}, "error")
  <2>1. CASE c # cmd
    <3>1. Owners(c)' = Owners(c) /\ outcome'[c] = outcome[c]
        BY <1>1, <1>2, <1>4, <2>1, AnswerOf, CommandsAssumption, Zenon DEF Owners
    <3> QED
        BY Zenon, <1>1, <3>1, OwnedMoved
  <2>2. CASE c = cmd
    <3>1. Owners(c)' \in Nat /\ Owners(c)' <= Owners(c)
        BY <1>1, <1>2, <1>4, <2>2, CommandsAssumption DEF Owners
    <3>2. ~NotSent(c)
        BY Zenon, <1>2, <2>2, OwnersTypes
    <3>3. outcome'[c] \in Final
        BY <1>4, <2>2, <3>2, AnswerOf, FinallyAnswered, Zenon DEF Final
    <3> QED
        BY Zenon, <3>1, <3>3, OwnedAnswered
  <2> QED
      BY Zenon, <2>1, <2>2
<1> QED
    BY <1>3, <1>4, Zenon DEF RouterSeesClose
=============================================================================
