------------------------- MODULE CommandRouterProofs -------------------------
(***************************************************************************)
(* Proofs about CommandRouter, first part, for every set of commands and   *)
(* every configuration: facts about the sequences the module computes      *)
(* with, the type invariant and the shape of the router task (Shape); then *)
(* the inductive invariant Inv, and from it the pairing of responses with  *)
(* commands, the exactness of in_flight, and the waker of a blocked        *)
(* router.                                                                 *)
(***************************************************************************)
EXTENDS CommandRouter, FiniteSetTheorems, TLAPS

(***************************************************************************)
(* Sequences.                                                              *)
(***************************************************************************)

(* What Head and Tail take off the shared buffer, the channel and the queues. *)
LEMMA HeadTail ==
    ASSUME NEW X, NEW s \in Seq(X), s # <<>>
    PROVE  /\ Head(s) \in X
           /\ Tail(s) \in Seq(X)
           /\ Len(Tail(s)) = Len(s) - 1
           /\ \A i \in 1..Len(s) - 1 : Tail(s)[i] = s[i + 1]
    OBVIOUS

(* What pop_recent_command takes off the shared buffer. *)
LEMMA LastFront ==
    ASSUME NEW X, NEW s \in Seq(X), s # <<>>
    PROVE  /\ Last(s) \in X
           /\ Front(s) \in Seq(X)
           /\ Len(Front(s)) = Len(s) - 1
           /\ \A i \in 1..Len(s) - 1 : Front(s)[i] = s[i]
<1>1. Len(s) \in 1..Len(s) /\ Len(s) - 1 \in Nat
    OBVIOUS
<1>2. Last(s) \in X
    BY <1>1 DEF Last
<1>3. Front(s) = [i \in 1..Len(s) - 1 |-> s[i]]
    BY DEF Front
<1>4. Front(s) \in Seq(X)
    BY <1>1, <1>3
<1>5. Len(Front(s)) = Len(s) - 1
    BY <1>1, <1>3
<1> QED
    BY Zenon, <1>2, <1>3, <1>4, <1>5

(* push_command keeps the type of the buffer, and puts its command there. *)
LEMMA AppendType ==
    ASSUME NEW X, NEW s \in Seq(X), NEW x \in X
    PROVE  Append(s, x) \in Seq(X)
    OBVIOUS

LEMMA AppendMember ==
    ASSUME NEW X, NEW s \in Seq(X), NEW x \in X
    PROVE  x \in Range(Append(s, x))
<1>1. Append(s, x)[Len(s) + 1] = x /\ Len(s) + 1 \in DOMAIN Append(s, x)
    OBVIOUS
<1> QED
    BY <1>1, Zenon DEF Range

(* Popping the front of the buffer removes no other command. *)
LEMMA TailMember ==
    ASSUME NEW X, NEW s \in Seq(X), NEW x \in Range(s), s # <<>>, x # Head(s)
    PROVE  x \in Range(Tail(s))
<1>1. PICK i \in 1..Len(s) : s[i] = x
    BY DEF Range
<1>2. i - 1 \in DOMAIN Tail(s) /\ Tail(s)[i - 1] = x
    BY <1>1
<1> QED
    BY <1>2, Zenon DEF Range

(* A command occurs a natural number of times in a sequence. *)
LEMMA OccurrencesType ==
    ASSUME NEW X, NEW s \in Seq(X), NEW c
    PROVE  Occurrences(s, c) \in Nat
<1>1. IsFiniteSet(1..Len(s))
    BY FS_Interval
<1>2. IsFiniteSet({i \in DOMAIN s : s[i] = c})
    BY <1>1, FS_Subset
<1> QED
    BY <1>2, FS_CardinalityType, Zenon DEF Occurrences

(* The rank of a position among the kept ones, as Without computes it. *)
Rank(kept, i) == Cardinality({j \in kept : j <= i})

(* The rank is a bijection of the kept positions with 1..n: it is injective,
   and an injection between finite sets of one size is onto. *)
LEMMA RankIsBijection ==
    ASSUME NEW kept, kept \subseteq Nat, IsFiniteSet(kept)
    PROVE  /\ Cardinality(kept) \in Nat
           /\ \A i \in kept : Rank(kept, i) \in 1..Cardinality(kept)
           /\ \A i, j \in kept : Rank(kept, i) = Rank(kept, j) => i = j
           /\ \A k \in 1..Cardinality(kept) : \E i \in kept : Rank(kept, i) = k
<1> DEFINE below(i) == {j \in kept : j <= i}
           n == Cardinality(kept)
           rank == [i \in kept |-> Rank(kept, i)]
<1>1. n \in Nat
    BY Zenon, FS_CardinalityType
<1>2. ASSUME NEW i \in kept
      PROVE  /\ IsFiniteSet(below(i))
             /\ Cardinality(below(i)) \in Nat
             /\ Cardinality(below(i)) <= n
  <2>1. below(i) \in SUBSET kept
      OBVIOUS
  <2> QED
      BY Zenon, <2>1, FS_Subset, FS_CardinalityType
<1>3. ASSUME NEW i \in kept
      PROVE  Cardinality(below(i)) # 0
    BY <1>2, FS_EmptySet
<1>4. ASSUME NEW i \in kept, NEW j \in kept, i < j
      PROVE  Cardinality(below(i)) # Cardinality(below(j))
  <2>1. i \in Nat /\ j \in Nat /\ \A k \in kept : k \in Nat
      OBVIOUS
  <2>2. \A k \in kept : k <= i => k <= j
      BY <2>1, <1>4
  <2>3. below(i) \in SUBSET below(j)
      BY Zenon, <2>2
  <2>4. j \in below(j) /\ j \notin below(i)
      BY <2>1, <1>4
  <2> QED
      BY Zenon, <2>3, <2>4, <1>2, FS_Subset
<1>5. \A i \in kept : Rank(kept, i) \in 1..n
    BY <1>1, <1>2, <1>3 DEF Rank
<1>6. ASSUME NEW i \in kept, NEW j \in kept, Rank(kept, i) = Rank(kept, j)
      PROVE  i = j
    BY <1>4, <1>6 DEF Rank
<1>7. rank \in Injection(kept, 1..n)
    BY <1>5, <1>6, Zenon DEF Injection, IsInjective
<1>8. rank \in Surjection(kept, 1..n)
  <2>1. IsFiniteSet(1..n) /\ Cardinality(1..n) = n
      BY <1>1, FS_Interval
  <2> QED
      BY Zenon, <2>1, <1>7, FS_Injection
<1>9. \A k \in 1..n : \E i \in kept : Rank(kept, i) = k
    BY <1>8, Zenon DEF Surjection
<1> QED
    BY Zenon, <1>1, <1>5, <1>6, <1>9

(* check_final_write_attempt rebuilds the buffer without the commands it
   answered: what is left is a sequence and holds all the others. *)
LEMMA WithoutKeepsOthers ==
    ASSUME NEW X, NEW s \in Seq(X), NEW S
    PROVE  /\ Without(s, S) \in Seq(X)
           /\ \A x \in Range(s) \ S : x \in Range(Without(s, S))
<1> DEFINE kept == {i \in DOMAIN s : s[i] \notin S}
           n == Cardinality(kept)
           pick(k) == CHOOSE i \in kept : Rank(kept, i) = k
<1>1. kept \subseteq Nat /\ IsFiniteSet(kept) /\ kept \subseteq 1..Len(s)
  <2>1. IsFiniteSet(1..Len(s))
      BY FS_Interval
  <2>2. kept \in SUBSET (1..Len(s))
      OBVIOUS
  <2> QED
      BY <2>1, <2>2, FS_Subset
<1>2. /\ n \in Nat
      /\ \A i \in kept : Rank(kept, i) \in 1..n
      /\ \A i, j \in kept : Rank(kept, i) = Rank(kept, j) => i = j
      /\ \A k \in 1..n : \E i \in kept : Rank(kept, i) = k
  <2> HIDE DEF kept
  <2> QED
      BY Zenon, <1>1, RankIsBijection
<1>3. \A k \in 1..n : pick(k) \in kept /\ Rank(kept, pick(k)) = k
  <2> HIDE DEF kept
  <2> QED
      BY Zenon, <1>2
<1>4. Without(s, S) = [k \in 1..n |-> s[pick(k)]]
    BY Zenon DEF Without, Rank
<1>5. Without(s, S) \in Seq(X)
  <2>1. \A k \in 1..n : s[pick(k)] \in X
    <3> HIDE DEF pick
    <3> QED
        BY <1>3, <1>1
  <2> HIDE DEF n, pick
  <2> QED
      BY <2>1, <1>2, <1>4
<1>6. ASSUME NEW x \in Range(s) \ S
      PROVE  x \in Range(Without(s, S))
  <2>1. PICK i \in kept : s[i] = x
      BY Zenon DEF Range
  <2>2. Rank(kept, i) \in 1..n /\ pick(Rank(kept, i)) = i
    <3> HIDE DEF kept
    <3> QED
        BY Zenon, <1>2, <1>3
  <2>3. Rank(kept, i) \in DOMAIN Without(s, S) /\ Without(s, S)[Rank(kept, i)] = x
    <3> HIDE DEF kept, n, pick
    <3> QED
        BY Zenon, <1>4, <2>1, <2>2
  <2> QED
      BY <2>3, Zenon DEF Range
<1> QED
    BY Zenon, <1>5, <1>6

-----------------------------------------------------------------------------
(***************************************************************************)
(* The type invariant: the actions that need more than one step.           *)
(***************************************************************************)

(* Giving a connection up leaves an empty, well-typed one. *)
LEMMA ReleaseTypes ==
    ASSUME TypeOK, ReleaseConnection
    PROVE  ConnectionTypes' /\ StreamTypes' /\ orphans' \in [Commands -> Nat]
<1>1. \A c \in Commands : Occurrences(requests, c) \in Nat
    BY OccurrencesType, Zenon DEF TypeOK, StreamTypes
<1>2. orphans' \in [Commands -> Nat]
    BY <1>1 DEF TypeOK, ServerTypes, ReleaseConnection
<1>3. ConnectionTypes'
    BY Zenon DEF ReleaseConnection, ConnectionTypes
<1>4. StreamTypes'
    BY DEF ReleaseConnection, StreamTypes
<1> QED
    BY Zenon, <1>2, <1>3, <1>4

(* Answering callers keeps the type of the outcomes. *)
LEMMA AnswerType ==
    ASSUME CallerTypes, NEW S, NEW how \in Final
    PROVE  Answer(outcome, S, how) \in
               [Commands -> {"unsent", "closing", "waiting"} \cup Final]
    BY Zenon DEF CallerTypes, Answer

(* quit, which may interrupt the router's sleep and fail its command. *)
LEMMA BeginQuitOutcome ==
    ASSUME TypeOK, NEW c \in Commands, BeginQuit(c)
    PROVE  CallerTypes'
<1>1. "error" \in Final
    BY Zenon DEF Final
<1>2. outcome' \in [Commands -> {"unsent", "closing", "waiting"} \cup Final]
    BY <1>1, AnswerType DEF TypeOK, CallerTypes, BeginQuit
<1> QED
    BY <1>2, Zenon DEF TypeOK, CallerTypes, BeginQuit, envVars

(* Backpressure changes the attempts, the channel and the flag of one command. *)
LEMMA ApplyBackpressureTypes ==
    ASSUME TypeOK, Shape, ApplyBackpressure
    PROVE  CommandTypes'
<1>1. cmd \in Commands
    BY Zenon DEF Shape, ApplyBackpressure, CanWrite
<1>2. attempted' \in [Commands -> Nat]
    BY <1>1 DEF TypeOK, CommandTypes, ApplyBackpressure, Tried
<1>3. tx' \in [Commands -> {"none", "live", "dead"}]
    BY <1>1, Zenon DEF TypeOK, CommandTypes, ApplyBackpressure, Ignored, WithChannel
<1>4. skip' \in [Commands -> BOOLEAN]
    BY <1>1, Zenon DEF TypeOK, CommandTypes, ApplyBackpressure
<1> QED
    BY <1>2, <1>3, <1>4, Zenon DEF CommandTypes

(* A failed write gives the most recent command back. *)
LEMMA WriteFailsTypes ==
    ASSUME TypeOK, WriteFails
    PROVE  CommandTypes' /\ StreamTypes'
<1>1. tx' \in [Commands -> {"none", "live", "dead"}]
  <2>1. ReceiverGone(tx) \in [Commands -> {"none", "live", "dead"}]
      BY Zenon DEF TypeOK, CommandTypes, ReceiverGone
  <2> QED
      BY <2>1, Zenon DEF WriteFails
<1>2. CommandTypes'
    BY <1>1, Zenon DEF TypeOK, CommandTypes, WriteFails
<1>3. buffer' \in Seq(Commands)
  <2>1. buffer' \in {buffer, PopRecent(buffer).rest}
      BY Zenon DEF WriteFails
  <2>2. buffer # <<>> \/ buffer' = buffer
      BY Zenon DEF WriteFails
  <2> QED
      BY <2>1, <2>2, LastFront, Zenon DEF TypeOK, StreamTypes, PopRecent
<1>4. StreamTypes'
    BY <1>3, Zenon DEF TypeOK, StreamTypes, WriteFails
<1> QED
    BY Zenon, <1>2, <1>4

(* retry_buffer works on the front of its queue. *)
LEMMA ReplayCommandTypes ==
    ASSUME TypeOK, ReplayCommand
    PROVE  CommandTypes' /\ StreamTypes'
<1> DEFINE c == Head(replay)
<1>1. c \in Commands
    BY DEF TypeOK, RouterTypes, ReplayCommand
<1>2. attempted' \in [Commands -> Nat]
  <2>1. attempted' \in {attempted, [attempted EXCEPT ![c] = @ + 1]}
      BY Zenon DEF ReplayCommand
  <2> QED
      BY <1>1, <2>1 DEF TypeOK, CommandTypes
<1>3. skip' \in [Commands -> BOOLEAN]
  <2>1. skip' \in {skip, [skip EXCEPT ![c] = TRUE]}
      BY Zenon DEF ReplayCommand
  <2> QED
      BY <1>1, <2>1, Zenon DEF TypeOK, CommandTypes
<1>4. tx' \in [Commands -> {"none", "live", "dead"}]
    BY <1>1, Zenon DEF TypeOK, CommandTypes, ReplayCommand
<1>5. StreamTypes'
  <2>1. buffer' \in {buffer, Append(buffer, c)}
      BY Zenon DEF ReplayCommand
  <2>2. UNCHANGED <<inFlight, requests, replies>>
      BY Zenon DEF ReplayCommand
  <2>3. buffer \in Seq(Commands)
      BY Zenon DEF TypeOK, StreamTypes
  <2>4. buffer' \in Seq(Commands)
      BY Zenon, <1>1, <2>1, <2>3, AppendType
  <2> QED
      BY <2>2, <2>4, Zenon DEF TypeOK, StreamTypes
<1> QED
    BY <1>2, <1>3, <1>4, <1>5, Zenon DEF CommandTypes

(* The reader task pops the front of the buffer with each response. *)
LEMMA ReadResponseTypes ==
    ASSUME TypeOK, ReadResponse
    PROVE  StreamTypes'
<1>1. buffer' \in Seq(Commands)
  <2>1. CASE buffer = <<>>
      BY <2>1, Zenon DEF TypeOK, StreamTypes, ReadResponse
  <2>2. CASE buffer # <<>>
      BY <2>2, HeadTail, Zenon DEF TypeOK, StreamTypes, ReadResponse
  <2> QED
      BY Zenon, <2>1, <2>2
<1>2. replies' \in Seq(Commands)
    BY DEF TypeOK, StreamTypes, ReadResponse
<1>3. inFlight' \in Int
    BY DEF TypeOK, StreamTypes, ReadResponse, DecrInFlight
<1> QED
    BY <1>1, <1>2, <1>3, Zenon DEF TypeOK, StreamTypes, ReadResponse

(* check_blocked_router pops the front of the buffer or leaves it alone. *)
LEMMA CheckBlockedTypes ==
    ASSUME TypeOK, CheckBlockedRouter
    PROVE  buffer' \in Seq(Commands)
<1>1. CASE buffer = <<>>
    BY <1>1, Zenon DEF TypeOK, StreamTypes, CheckBlockedRouter
<1>2. CASE buffer # <<>>
    BY <1>2, HeadTail, Zenon DEF TypeOK, StreamTypes, CheckBlockedRouter
<1> QED
    BY Zenon, <1>1, <1>2

(* check_final_write_attempt filters the buffer. *)
LEMMA CheckFinalTypes ==
    ASSUME TypeOK, CheckFinalAttempt
    PROVE  StreamTypes'
<1>1. buffer' \in Seq(Commands)
    BY WithoutKeepsOthers, Zenon DEF TypeOK, StreamTypes, CheckFinalAttempt
<1> QED
    BY <1>1, Zenon DEF TypeOK, StreamTypes, CheckFinalAttempt

(* push_command appends the command in hand, or nothing. *)
LEMMA PushCommandTypes ==
    ASSUME TypeOK, Shape, PushCommand
    PROVE  StreamTypes'
<1>1. cmd \in Commands
    BY Zenon DEF Shape, PushCommand, CanWrite
<1>2. buffer' \in {buffer, Append(buffer, cmd)}
    BY Zenon DEF PushCommand
<1>3. UNCHANGED <<inFlight, requests, replies>>
    BY Zenon DEF PushCommand
<1>4. buffer \in Seq(Commands)
    BY Zenon DEF TypeOK, StreamTypes
<1>5. buffer' \in Seq(Commands)
    BY <1>1, <1>2, <1>4
<1> QED
    BY <1>3, <1>5, Zenon DEF TypeOK, StreamTypes

-----------------------------------------------------------------------------
(***************************************************************************)
(* One step keeps the type invariant and Shape: the actions that leave the *)
(* variables of a part alone come first, then one step per action.         *)
(***************************************************************************)

(* Callers, the channel and the answers. *)
LEMMA CallerTypesStep ==
    ASSUME TypeOK, Shape, [Next]_vars
    PROVE  CallerTypes'
<1>1. CASE UNCHANGED vars
    BY <1>1, Zenon DEF vars, callerVars, envVars, TypeOK, CallerTypes
<1>2. CASE Connect
    BY <1>2, Zenon DEF TypeOK, CallerTypes, Connect, callerVars, commandVars, connVars
<1>3. CASE \/ MissingConnection \/ SleepElapsed \/ WriteFrame \/ CountFrame
           \/ RouterUnblocked \/ ClosedAfterWrite \/ ClosedBeforeConnect
           \/ DelayElapsed \/ ConnectionMade \/ ConnectionRefused
           \/ ReplayFinished
    BY <1>3, Zenon DEF TypeOK, CallerTypes, MissingConnection, policyVars, callerVars,
        connVars, envVars, SleepElapsed, commandVars, WriteFrame, CountFrame,
        RouterUnblocked, ClosedAfterWrite, ClosedBeforeConnect, DelayElapsed,
        ConnectionMade, ConnectionRefused, ReplayFinished
<1>4. CASE \/ ReaderEnds \/ ServerExecutes \/ ServerCloses \/ ConnectionLost
           \/ \E c \in Commands : ServerExecutesOrphan(c)
    BY <1>4, Zenon DEF TypeOK, CallerTypes, ReaderEnds, policyVars, callerVars,
        commandVars, routerVars, envVars, ServerExecutes, ServerCloses,
        ConnectionLost, ServerExecutesOrphan, connVars
<1>5. CASE ForceReconnection
    BY <1>5 DEF TypeOK, CallerTypes, Final, ForceReconnection, policyVars,
        callerVars, commandVars, routerVars, connVars
<1>6. ASSUME NEW c \in Commands, Send(c)
      PROVE  CallerTypes'
    BY <1>6 DEF TypeOK, CallerTypes, Final, Send, policyVars, commandVars,
        routerVars, connVars
<1>7. ASSUME NEW c \in Commands, BeginQuit(c)
      PROVE  CallerTypes'
    BY Zenon, <1>7, BeginQuitOutcome
<1>8. ASSUME NEW c \in Commands, TimeOut(c)
      PROVE  CallerTypes'
    BY <1>8, Zenon DEF TypeOK, CallerTypes, Final, TimeOut, policyVars, commandVars,
        routerVars, connVars, envVars
<1>9. CASE ReceiveCommand
    BY <1>9 DEF TypeOK, CallerTypes, Final, ReceiveCommand, policyVars, callerVars,
        commandVars, connVars, envVars
<1>10. CASE ReceiveReconnect
    BY <1>10 DEF TypeOK, CallerTypes, Final, ReceiveReconnect, Working,
        StartReconnect, callerVars, commandVars, envVars, CloseSink
<1>11. CASE WriteRefused
    BY <1>11, Zenon DEF TypeOK, CallerTypes, Final, WriteRefused, Tried, Ignored, Answer,
        policyVars, connVars, envVars
<1>12. CASE WriteTimedOut
    BY <1>12, Zenon DEF TypeOK, CallerTypes, Final, WriteTimedOut, TimedOut, Tried,
        Ignored, policyVars, connVars, envVars
<1>13. CASE ApplyBackpressure
    BY <1>13, Zenon DEF TypeOK, CallerTypes, Final, ApplyBackpressure, CanWrite, Tried,
        Ignored, Answer, WithChannel, Receiver, policyVars, connVars, envVars,
        TimedOut
<1>14. CASE PushCommand
    BY <1>14, Zenon DEF TypeOK, CallerTypes, Final, PushCommand, CanWrite, Tried, Answer,
        Receiver, WithChannel, policyVars, envVars, TimedOut
<1>15. CASE WriteFails
    BY <1>15 DEF TypeOK, CallerTypes, Final, WriteFails, Dropped, InChannel,
        ReceiverGone, PopRecent, CloseSink, Answer, policyVars, envVars, Last, Front
<1>16. CASE RouterSeesClose
    BY <1>16, Zenon DEF TypeOK, CallerTypes, Final, RouterSeesClose, Answer,
        StartReconnect, commandVars, envVars, CloseSink
<1>17. CASE ClosedAndStopped
    BY <1>17, Zenon DEF TypeOK, CallerTypes, Final, ClosedAndStopped, ReaderGone,
        ReleaseConnection, Dropped, Answer
<1>18. CASE ReplayCommand
    BY <1>18, Zenon DEF TypeOK, CallerTypes, Final, ReplayCommand, TimedOut, Answer,
        policyVars, envVars
<1>19. CASE ClosedDuringReplay
    BY <1>19, Zenon DEF TypeOK, CallerTypes, Final, ClosedDuringReplay, ReaderGone,
        ReleaseConnection, Requeue, Dropped, AfterReconnect, Answer, Optional
<1>20. CASE ReadResponse
    BY <1>20, Zenon DEF TypeOK, CallerTypes, Final, ReadResponse, DecrInFlight, Answer,
        Unblock, policyVars, envVars
<1>21. CASE ReaderSeesEnd
    BY <1>21, Zenon DEF TypeOK, CallerTypes, Final, ReaderSeesEnd, CheckBlockedRouter,
        policyVars, envVars, Unblock, Dropped, Answer
<1>22. CASE CheckFinalAttempt
    BY <1>22, Zenon DEF TypeOK, CallerTypes, Final, CheckFinalAttempt, OnFinalAttempt,
        Answer, policyVars, envVars
<1>23. CASE NotifyRouter
    BY <1>23 DEF TypeOK, CallerTypes, Final, NotifyRouter, policyVars, callerVars,
        commandVars, routerVars, envVars
<1>24. CASE ReaderFails
    BY <1>24, Zenon DEF TypeOK, CallerTypes, Final, ReaderFails, CheckBlockedRouter,
        policyVars, Unblock, Dropped, Answer
<1> QED
    BY Zenon, <1>1, <1>2, <1>3, <1>4, <1>5, <1>6, <1>7, <1>8, <1>9, <1>10, <1>11, <1>12,
        <1>13, <1>14, <1>15, <1>16, <1>17, <1>18, <1>19, <1>20, <1>21, <1>22, <1>23,
        <1>24
    DEF Next, CallerNext, RouterNext, ReaderNext, ServerNext, FaultNext

(* The fields of the commands. *)
LEMMA CommandTypesStep ==
    ASSUME TypeOK, Shape, [Next]_vars
    PROVE  CommandTypes'
<1>1. CASE UNCHANGED vars
    BY <1>1, Zenon DEF vars, commandVars, TypeOK, CommandTypes
<1>2. CASE \/ Connect \/ ForceReconnection
           \/ \E c \in Commands : Send(c) \/ TimeOut(c)
    BY <1>2, Zenon DEF TypeOK, CommandTypes, Connect, callerVars, commandVars, connVars,
        ForceReconnection, policyVars, routerVars, Send, TimeOut, envVars
<1>3. CASE \/ ReceiveCommand \/ ReceiveReconnect \/ SleepElapsed \/ WriteFrame
           \/ CountFrame \/ RouterUnblocked
    BY <1>3, Zenon DEF TypeOK, CommandTypes, ReceiveCommand, policyVars, callerVars,
        commandVars, connVars, envVars, ReceiveReconnect, SleepElapsed, WriteFrame,
        CountFrame, RouterUnblocked
<1>4. CASE \/ RouterSeesClose \/ ClosedAfterWrite \/ ClosedBeforeConnect
           \/ DelayElapsed \/ ConnectionMade \/ ConnectionRefused
           \/ ReplayFinished
    BY <1>4, Zenon DEF TypeOK, CommandTypes, RouterSeesClose, commandVars, envVars,
        ClosedAfterWrite, policyVars, callerVars, ClosedBeforeConnect, DelayElapsed,
        ConnectionMade, ConnectionRefused, ReplayFinished
<1>5. CASE \/ NotifyRouter \/ ReaderEnds \/ ServerExecutes \/ ServerCloses
           \/ ConnectionLost \/ \E c \in Commands : ServerExecutesOrphan(c)
    BY <1>5, Zenon DEF TypeOK, CommandTypes, NotifyRouter, policyVars, callerVars,
        commandVars, routerVars, envVars, ReaderEnds, ServerExecutes, ServerCloses,
        ConnectionLost, ServerExecutesOrphan, connVars
<1>6. ASSUME NEW c \in Commands, BeginQuit(c)
      PROVE  CommandTypes'
    BY <1>6, Zenon DEF TypeOK, CommandTypes, BeginQuit, CloseSink, Answer, envVars
<1>7. CASE WriteRefused
    BY <1>7 DEF TypeOK, CommandTypes, Shape, Sending, Reconnecting, WriteRefused,
        Tried, Ignored, Answer, policyVars, connVars, envVars
<1>8. CASE MissingConnection
    BY <1>8 DEF TypeOK, CommandTypes, Shape, Sending, Reconnecting,
        MissingConnection, Tried, ReceiverGone, WithChannel, policyVars, callerVars,
        connVars, envVars
<1>9. CASE WriteTimedOut
    BY <1>9 DEF TypeOK, CommandTypes, Shape, Sending, Reconnecting, WriteTimedOut,
        TimedOut, Tried, Ignored, policyVars, connVars, envVars
<1>10. CASE ApplyBackpressure
    BY Zenon, <1>10, ApplyBackpressureTypes
<1>11. CASE PushCommand
    BY <1>11 DEF TypeOK, CommandTypes, Shape, Sending, Reconnecting, PushCommand,
        CanWrite, Tried, Answer, Receiver, WithChannel, policyVars, envVars,
        TimedOut
<1>12. CASE WriteFails
    BY Zenon, <1>12, WriteFailsTypes
<1>13. CASE ClosedAndStopped
    BY <1>13, Zenon DEF TypeOK, CommandTypes, ClosedAndStopped, ReaderGone,
        ReleaseConnection, Dropped, Answer
<1>14. CASE ReplayCommand
    BY Zenon, <1>14, ReplayCommandTypes
<1>15. CASE ClosedDuringReplay
    BY <1>15, Zenon DEF TypeOK, CommandTypes, ClosedDuringReplay, ReaderGone,
        ReleaseConnection, Requeue, Dropped, AfterReconnect, Answer, Optional
<1>16. CASE ReadResponse
    BY <1>16, Zenon DEF TypeOK, CommandTypes, ReadResponse, DecrInFlight, Answer, Unblock,
        policyVars, envVars
<1>17. CASE ReaderSeesEnd
    BY <1>17, Zenon DEF TypeOK, CommandTypes, ReaderSeesEnd, CheckBlockedRouter,
        policyVars, envVars, Unblock, Dropped, Answer
<1>18. CASE CheckFinalAttempt
    BY <1>18, Zenon DEF TypeOK, CommandTypes, CheckFinalAttempt, OnFinalAttempt, Answer,
        policyVars, envVars
<1>19. CASE ReaderFails
    BY <1>19, Zenon DEF TypeOK, CommandTypes, ReaderFails, CheckBlockedRouter, policyVars,
        Unblock, Dropped, Answer
<1> QED
    BY Zenon, <1>1, <1>2, <1>3, <1>4, <1>5, <1>6, <1>7, <1>8, <1>9, <1>10, <1>11, <1>12,
        <1>13, <1>14, <1>15, <1>16, <1>17, <1>18, <1>19
    DEF Next, CallerNext, RouterNext, ReaderNext, ServerNext, FaultNext

(* The router task and its queues. *)
LEMMA RouterTypesStep ==
    ASSUME TypeOK, Shape, [Next]_vars
    PROVE  RouterTypes'
<1>1. CASE UNCHANGED vars
    BY <1>1, Zenon DEF vars, routerVars, policyVars, TypeOK, RouterTypes
<1>2. CASE \/ ForceReconnection \/ \E c \in Commands : Send(c) \/ TimeOut(c)
    BY <1>2, Zenon DEF TypeOK, RouterTypes, ForceReconnection, policyVars, callerVars,
        commandVars, routerVars, connVars, Send, TimeOut, envVars
<1>3. CASE \/ NotifyRouter \/ ReaderEnds \/ ServerExecutes \/ ServerCloses
           \/ ConnectionLost \/ \E c \in Commands : ServerExecutesOrphan(c)
    BY <1>3, Zenon DEF TypeOK, RouterTypes, NotifyRouter, policyVars, callerVars,
        commandVars, routerVars, envVars, ReaderEnds, ServerExecutes, ServerCloses,
        ConnectionLost, ServerExecutesOrphan, connVars
<1>4. CASE Connect
    BY <1>4 DEF TypeOK, RouterTypes, Places, States, Connect, callerVars,
        commandVars, connVars
<1>5. ASSUME NEW c \in Commands, BeginQuit(c)
      PROVE  RouterTypes'
    BY <1>5, Zenon DEF TypeOK, RouterTypes, Places, States, BeginQuit, CloseSink, Answer,
        envVars
<1>6. CASE ReceiveCommand
    BY <1>6, Zenon DEF TypeOK, RouterTypes, Places, States, ReceiveCommand, policyVars,
        callerVars, commandVars, connVars, envVars
<1>7. CASE ReceiveReconnect
    BY <1>7 DEF TypeOK, RouterTypes, Places, States, ReceiveReconnect, Working,
        StartReconnect, callerVars, commandVars, envVars, CloseSink
<1>8. CASE WriteRefused
    BY <1>8, Zenon DEF TypeOK, RouterTypes, Places, States, WriteRefused, Tried, Ignored,
        Answer, policyVars, connVars, envVars
<1>9. CASE MissingConnection
    BY <1>9 DEF TypeOK, RouterTypes, Places, States, Shape, Sending, Reconnecting,
        MissingConnection, Tried, ReceiverGone, WithChannel, policyVars, callerVars,
        connVars, envVars
<1>10. CASE WriteTimedOut
    BY <1>10, Zenon DEF TypeOK, RouterTypes, Places, States, WriteTimedOut, TimedOut,
        Tried, Ignored, policyVars, connVars, envVars
<1>11. CASE ApplyBackpressure
    BY <1>11, Zenon DEF TypeOK, RouterTypes, Places, States, ApplyBackpressure, CanWrite,
        Tried, Ignored, Answer, WithChannel, Receiver, policyVars, connVars,
        envVars, TimedOut
<1>12. CASE SleepElapsed
    BY <1>12, Zenon DEF TypeOK, RouterTypes, Places, States, SleepElapsed, policyVars,
        callerVars, commandVars, connVars, envVars
<1>13. CASE PushCommand
    BY <1>13, Zenon DEF TypeOK, RouterTypes, Places, States, PushCommand, CanWrite, Tried,
        Answer, Receiver, WithChannel, policyVars, envVars, TimedOut
<1>14. CASE WriteFrame
    BY <1>14, Zenon DEF TypeOK, RouterTypes, Places, States, WriteFrame, policyVars,
        callerVars, commandVars, envVars
<1>15. CASE CountFrame
    BY <1>15, Zenon DEF TypeOK, RouterTypes, Places, States, CountFrame, IncrInFlight,
        policyVars, callerVars, commandVars, envVars
<1>16. CASE WriteFails
    BY <1>16 DEF TypeOK, RouterTypes, Places, States, Shape, Sending, Reconnecting,
        StreamTypes, WriteFails, Dropped, InChannel, ReceiverGone, PopRecent,
        CloseSink, Answer, policyVars, envVars, Last, Front
<1>17. CASE RouterUnblocked
    BY <1>17, Zenon DEF TypeOK, RouterTypes, Places, States, RouterUnblocked, CloseSink,
        policyVars, callerVars, commandVars, envVars
<1>18. CASE RouterSeesClose
    BY <1>18 DEF TypeOK, RouterTypes, Places, States, RouterSeesClose, Answer,
        StartReconnect, commandVars, envVars, CloseSink
<1>19. CASE ClosedAfterWrite
    BY <1>19 DEF TypeOK, RouterTypes, Places, States, Shape, Sending, Reconnecting,
        StreamTypes, ClosedAfterWrite, ReaderGone, ReleaseConnection, Requeue,
        policyVars, callerVars, commandVars, Optional
<1>20. CASE ClosedBeforeConnect
    BY <1>20 DEF TypeOK, RouterTypes, Places, States, Shape, Sending, Reconnecting,
        StreamTypes, ClosedBeforeConnect, ReaderGone, ReleaseConnection, Requeue,
        policyVars, callerVars, commandVars, Optional
<1>21. CASE ClosedAndStopped
    BY <1>21 DEF TypeOK, RouterTypes, Places, States, ClosedAndStopped, ReaderGone,
        ReleaseConnection, Dropped, Answer
<1>22. CASE DelayElapsed
    BY <1>22, Zenon DEF TypeOK, RouterTypes, Places, States, DelayElapsed, CloseSink,
        callerVars, commandVars, envVars
<1>23. CASE ConnectionMade
    BY <1>23 DEF TypeOK, RouterTypes, Places, States, ConnectionMade, policyVars,
        callerVars, commandVars, envVars
<1>24. CASE ConnectionRefused
    BY <1>24 DEF TypeOK, RouterTypes, Places, States, ConnectionRefused,
        StartReconnect, callerVars, commandVars, CloseSink
<1>25. CASE ReplayCommand
    BY <1>25 DEF TypeOK, RouterTypes, Places, States, ReplayCommand, TimedOut,
        Answer, policyVars, envVars
<1>26. CASE ReplayFinished
    BY <1>26, Zenon DEF TypeOK, RouterTypes, Places, States, ReplayFinished,
        AfterReconnect, CloseSink, callerVars, commandVars, envVars
<1>27. CASE ClosedDuringReplay
    BY <1>27 DEF TypeOK, RouterTypes, Places, States, Shape, Sending, Reconnecting,
        StreamTypes, ClosedDuringReplay, ReaderGone, ReleaseConnection, Requeue,
        Dropped, AfterReconnect, Answer, Optional
<1>28. CASE ReadResponse
    BY <1>28 DEF TypeOK, RouterTypes, Places, States, ReadResponse, DecrInFlight,
        Answer, Unblock, policyVars, envVars
<1>29. CASE ReaderSeesEnd
    BY <1>29 DEF TypeOK, RouterTypes, Places, States, ReaderSeesEnd,
        CheckBlockedRouter, policyVars, envVars, Unblock, Dropped, Answer
<1>30. CASE CheckFinalAttempt
    BY <1>30, Zenon DEF TypeOK, RouterTypes, Places, States, CheckFinalAttempt,
        OnFinalAttempt, Answer, policyVars, envVars
<1>31. CASE ReaderFails
    BY <1>31 DEF TypeOK, RouterTypes, Places, States, ReaderFails,
        CheckBlockedRouter, policyVars, Unblock, Dropped, Answer
<1> QED
    BY Zenon, <1>1, <1>2, <1>3, <1>4, <1>5, <1>6, <1>7, <1>8, <1>9, <1>10, <1>11, <1>12,
        <1>13, <1>14, <1>15, <1>16, <1>17, <1>18, <1>19, <1>20, <1>21, <1>22, <1>23,
        <1>24, <1>25, <1>26, <1>27, <1>28, <1>29, <1>30, <1>31
    DEF Next, CallerNext, RouterNext, ReaderNext, ServerNext, FaultNext

(* The connection. *)
LEMMA ConnectionTypesStep ==
    ASSUME TypeOK, Shape, [Next]_vars
    PROVE  ConnectionTypes'
<1>1. CASE UNCHANGED vars
    BY <1>1, Zenon DEF vars, connVars, TypeOK, ConnectionTypes
<1>2. CASE \/ Connect \/ ForceReconnection
           \/ \E c \in Commands : Send(c) \/ TimeOut(c)
    BY <1>2, Zenon DEF TypeOK, ConnectionTypes, Connect, callerVars, commandVars, connVars,
        ForceReconnection, policyVars, routerVars, Send, TimeOut, envVars
<1>3. CASE \/ ReceiveCommand \/ WriteRefused \/ MissingConnection
           \/ WriteTimedOut \/ ApplyBackpressure
    BY <1>3, Zenon DEF TypeOK, ConnectionTypes, ReceiveCommand, policyVars, callerVars,
        commandVars, connVars, envVars, WriteRefused, MissingConnection,
        WriteTimedOut, ApplyBackpressure
<1>4. CASE \/ SleepElapsed \/ PushCommand \/ WriteFrame \/ CountFrame
           \/ ReplayCommand
    BY <1>4, Zenon DEF TypeOK, ConnectionTypes, SleepElapsed, policyVars, callerVars,
        commandVars, connVars, envVars, PushCommand, WriteFrame, CountFrame,
        ReplayCommand
<1>5. CASE \/ ServerExecutes \/ \E c \in Commands : ServerExecutesOrphan(c)
    BY <1>5, Zenon DEF TypeOK, ConnectionTypes, ServerExecutes, policyVars, callerVars,
        commandVars, routerVars, ServerExecutesOrphan, connVars
<1>6. ASSUME NEW c \in Commands, BeginQuit(c)
      PROVE  ConnectionTypes'
    BY <1>6, Zenon DEF TypeOK, ConnectionTypes, BeginQuit, CloseSink, Answer, envVars
<1>7. CASE ReceiveReconnect
    BY <1>7, Zenon DEF TypeOK, ConnectionTypes, ReceiveReconnect, Working, StartReconnect,
        callerVars, commandVars, envVars, CloseSink
<1>8. CASE WriteFails
    BY <1>8, Zenon DEF TypeOK, ConnectionTypes, WriteFails, Dropped, InChannel,
        ReceiverGone, PopRecent, CloseSink, Answer, policyVars, envVars, Last, Front
<1>9. CASE RouterUnblocked
    BY <1>9, Zenon DEF TypeOK, ConnectionTypes, RouterUnblocked, CloseSink, policyVars,
        callerVars, commandVars, envVars
<1>10. CASE RouterSeesClose
    BY <1>10, Zenon DEF TypeOK, ConnectionTypes, RouterSeesClose, Answer, StartReconnect,
        commandVars, envVars, CloseSink
<1>11. CASE ClosedAfterWrite
    BY <1>11, ReleaseTypes, Zenon DEF ClosedAfterWrite
<1>12. CASE ClosedBeforeConnect
    BY <1>12, ReleaseTypes, Zenon DEF ClosedBeforeConnect
<1>13. CASE ClosedAndStopped
    BY <1>13, ReleaseTypes, Zenon DEF ClosedAndStopped
<1>14. CASE DelayElapsed
    BY <1>14, Zenon DEF TypeOK, ConnectionTypes, DelayElapsed, CloseSink, callerVars,
        commandVars, envVars
<1>15. CASE ConnectionMade
    BY <1>15, Zenon DEF TypeOK, ConnectionTypes, ConnectionMade, policyVars, callerVars,
        commandVars, envVars
<1>16. CASE ConnectionRefused
    BY <1>16, Zenon DEF TypeOK, ConnectionTypes, ConnectionRefused, StartReconnect,
        callerVars, commandVars, CloseSink
<1>17. CASE ReplayFinished
    BY <1>17, Zenon DEF TypeOK, ConnectionTypes, ReplayFinished, AfterReconnect, CloseSink,
        callerVars, commandVars, envVars
<1>18. CASE ClosedDuringReplay
    BY <1>18, ReleaseTypes, Zenon DEF ClosedDuringReplay
<1>19. CASE ReadResponse
    BY <1>19, Zenon DEF TypeOK, ConnectionTypes, ReadResponse, DecrInFlight, Answer,
        Unblock, policyVars, envVars
<1>20. CASE ReaderSeesEnd
    BY <1>20, Zenon DEF TypeOK, ConnectionTypes, ReaderSeesEnd, CheckBlockedRouter,
        policyVars, envVars, Unblock, Dropped, Answer
<1>21. CASE CheckFinalAttempt
    BY <1>21, Zenon DEF TypeOK, ConnectionTypes, CheckFinalAttempt, OnFinalAttempt, Answer,
        policyVars, envVars
<1>22. CASE NotifyRouter
    BY <1>22, Zenon DEF TypeOK, ConnectionTypes, NotifyRouter, policyVars, callerVars,
        commandVars, routerVars, envVars
<1>23. CASE ReaderEnds
    BY <1>23, Zenon DEF TypeOK, ConnectionTypes, ReaderEnds, policyVars, callerVars,
        commandVars, routerVars, envVars
<1>24. CASE ServerCloses
    BY <1>24, Zenon DEF TypeOK, ConnectionTypes, ServerCloses, policyVars, callerVars,
        commandVars, routerVars, envVars
<1>25. CASE ReaderFails
    BY <1>25, Zenon DEF TypeOK, ConnectionTypes, ReaderFails, CheckBlockedRouter,
        policyVars, Unblock, Dropped, Answer
<1>26. CASE ConnectionLost
    BY <1>26, Zenon DEF TypeOK, ConnectionTypes, ConnectionLost, policyVars, callerVars,
        commandVars, routerVars
<1> QED
    BY Zenon, <1>1, <1>2, <1>3, <1>4, <1>5, <1>6, <1>7, <1>8, <1>9, <1>10, <1>11, <1>12,
        <1>13, <1>14, <1>15, <1>16, <1>17, <1>18, <1>19, <1>20, <1>21, <1>22, <1>23,
        <1>24, <1>25, <1>26
    DEF Next, CallerNext, RouterNext, ReaderNext, ServerNext, FaultNext

(* The shared buffer and the frames of the connection. *)
LEMMA StreamTypesStep ==
    ASSUME TypeOK, Shape, [Next]_vars
    PROVE  StreamTypes'
<1>1. CASE UNCHANGED vars
    BY <1>1, Zenon DEF vars, connVars, TypeOK, StreamTypes
<1>2. CASE \/ Connect \/ ForceReconnection
           \/ \E c \in Commands : Send(c) \/ BeginQuit(c) \/ TimeOut(c)
    BY <1>2, Zenon DEF TypeOK, StreamTypes, Connect, callerVars, commandVars, connVars,
        ForceReconnection, policyVars, routerVars, Send, BeginQuit, envVars, TimeOut
<1>3. CASE \/ ReceiveCommand \/ ReceiveReconnect \/ WriteRefused
           \/ MissingConnection \/ WriteTimedOut \/ ApplyBackpressure
    BY <1>3, Zenon DEF TypeOK, StreamTypes, ReceiveCommand, policyVars, callerVars,
        commandVars, connVars, envVars, ReceiveReconnect, WriteRefused,
        MissingConnection, WriteTimedOut, ApplyBackpressure
<1>4. CASE \/ SleepElapsed \/ RouterUnblocked \/ RouterSeesClose
           \/ DelayElapsed \/ ConnectionMade \/ ConnectionRefused
           \/ ReplayFinished
    BY <1>4, Zenon DEF TypeOK, StreamTypes, SleepElapsed, policyVars, callerVars,
        commandVars, connVars, envVars, RouterUnblocked, RouterSeesClose,
        DelayElapsed, ConnectionMade, ConnectionRefused, ReplayFinished
<1>5. CASE \/ NotifyRouter \/ ReaderEnds \/ ServerCloses \/ ConnectionLost
           \/ \E c \in Commands : ServerExecutesOrphan(c)
    BY <1>5, Zenon DEF TypeOK, StreamTypes, NotifyRouter, policyVars, callerVars,
        commandVars, routerVars, envVars, ReaderEnds, ServerCloses, ConnectionLost,
        ServerExecutesOrphan, connVars
<1>6. CASE PushCommand
    BY Zenon, <1>6, PushCommandTypes
<1>7. CASE WriteFrame
    BY <1>7 DEF TypeOK, StreamTypes, Shape, Sending, Reconnecting, WriteFrame,
        policyVars, callerVars, commandVars, envVars
<1>8. CASE CountFrame
    BY <1>8 DEF TypeOK, StreamTypes, CountFrame, IncrInFlight, policyVars,
        callerVars, commandVars, envVars
<1>9. CASE WriteFails
    BY Zenon, <1>9, WriteFailsTypes
<1>10. CASE ClosedAfterWrite
    BY <1>10, ReleaseTypes, Zenon DEF ClosedAfterWrite
<1>11. CASE ClosedBeforeConnect
    BY <1>11, ReleaseTypes, Zenon DEF ClosedBeforeConnect
<1>12. CASE ClosedAndStopped
    BY <1>12, ReleaseTypes, Zenon DEF ClosedAndStopped
<1>13. CASE ReplayCommand
    BY Zenon, <1>13, ReplayCommandTypes
<1>14. CASE ClosedDuringReplay
    BY <1>14, ReleaseTypes, Zenon DEF ClosedDuringReplay
<1>15. CASE ReadResponse
    BY Zenon, <1>15, ReadResponseTypes
<1>16. CASE ReaderSeesEnd
    BY <1>16, CheckBlockedTypes, Zenon DEF TypeOK, StreamTypes, ReaderSeesEnd
<1>17. CASE CheckFinalAttempt
    BY Zenon, <1>17, CheckFinalTypes
<1>18. CASE ServerExecutes
    BY <1>18 DEF TypeOK, StreamTypes, ServerExecutes, policyVars, callerVars,
        commandVars, routerVars
<1>19. CASE ReaderFails
    BY <1>19, CheckBlockedTypes, Zenon DEF TypeOK, StreamTypes, ReaderFails
<1> QED
    BY Zenon, <1>1, <1>2, <1>3, <1>4, <1>5, <1>6, <1>7, <1>8, <1>9, <1>10, <1>11, <1>12,
        <1>13, <1>14, <1>15, <1>16, <1>17, <1>18, <1>19
    DEF Next, CallerNext, RouterNext, ReaderNext, ServerNext, FaultNext

(* The server and the bounds. *)
LEMMA ServerTypesStep ==
    ASSUME TypeOK, Shape, [Next]_vars
    PROVE  ServerTypes'
<1> DEFINE Env == <<orphans, executed, faults, connects>>
<1>1. UNCHANGED Env => ServerTypes'
    BY Zenon DEF TypeOK, ServerTypes
<1>2. CASE UNCHANGED vars
    BY <1>1, <1>2, Zenon DEF vars, envVars
<1>3. CASE \E c \in Commands : Send(c) \/ BeginQuit(c) \/ TimeOut(c)
    BY <1>1, <1>3, Zenon DEF Send, BeginQuit, TimeOut, envVars
<1>4. CASE ReceiveCommand
    BY <1>1, <1>4, Zenon DEF ReceiveCommand, envVars
<1>5. CASE ReceiveReconnect
    BY <1>1, <1>5, Zenon DEF ReceiveReconnect, envVars
<1>6. CASE WriteRefused
    BY <1>1, <1>6, Zenon DEF WriteRefused, envVars
<1>7. CASE MissingConnection
    BY <1>1, <1>7, Zenon DEF MissingConnection, envVars
<1>8. CASE WriteTimedOut
    BY <1>1, <1>8, Zenon DEF WriteTimedOut, envVars
<1>9. CASE ApplyBackpressure
    BY <1>1, <1>9, Zenon DEF ApplyBackpressure, envVars
<1>10. CASE SleepElapsed
    BY <1>1, <1>10, Zenon DEF SleepElapsed, envVars
<1>11. CASE PushCommand
    BY <1>1, <1>11, Zenon DEF PushCommand, envVars
<1>12. CASE WriteFrame
    BY <1>1, <1>12, Zenon DEF WriteFrame, envVars
<1>13. CASE CountFrame
    BY <1>1, <1>13, Zenon DEF CountFrame, envVars
<1>14. CASE WriteFails
    BY <1>1, <1>14, Zenon DEF WriteFails, envVars
<1>15. CASE RouterUnblocked
    BY <1>1, <1>15, Zenon DEF RouterUnblocked, envVars
<1>16. CASE RouterSeesClose
    BY <1>1, <1>16, Zenon DEF RouterSeesClose, envVars
<1>17. CASE DelayElapsed
    BY <1>1, <1>17, Zenon DEF DelayElapsed, envVars
<1>18. CASE ConnectionMade
    BY <1>1, <1>18, Zenon DEF ConnectionMade, envVars
<1>19. CASE ReplayCommand
    BY <1>1, <1>19, Zenon DEF ReplayCommand, envVars
<1>20. CASE ReplayFinished
    BY <1>1, <1>20, Zenon DEF ReplayFinished, envVars
<1>21. CASE ReadResponse
    BY <1>1, <1>21, Zenon DEF ReadResponse, envVars
<1>22. CASE ReaderSeesEnd
    BY <1>1, <1>22, Zenon DEF ReaderSeesEnd, envVars
<1>23. CASE CheckFinalAttempt
    BY <1>1, <1>23, Zenon DEF CheckFinalAttempt, envVars
<1>24. CASE NotifyRouter
    BY <1>1, <1>24, Zenon DEF NotifyRouter, envVars
<1>25. CASE ReaderEnds
    BY <1>1, <1>25, Zenon DEF ReaderEnds, envVars
<1>26. CASE ServerCloses
    BY <1>1, <1>26, Zenon DEF ServerCloses, envVars
<1>27. CASE Connect
    BY <1>27 DEF TypeOK, ServerTypes, Connect
<1>28. CASE ForceReconnection
    BY <1>28 DEF TypeOK, ServerTypes, ForceReconnection
<1>29. CASE ClosedAfterWrite
    BY <1>29, ReleaseTypes, Zenon DEF TypeOK, ServerTypes, ClosedAfterWrite
<1>30. CASE ClosedBeforeConnect
    BY <1>30, ReleaseTypes, Zenon DEF TypeOK, ServerTypes, ClosedBeforeConnect
<1>31. CASE ClosedAndStopped
    BY <1>31, ReleaseTypes, Zenon DEF TypeOK, ServerTypes, ClosedAndStopped
<1>32. CASE ClosedDuringReplay
    BY <1>32, ReleaseTypes, Zenon DEF TypeOK, ServerTypes, ClosedDuringReplay
<1>33. CASE ConnectionRefused
    BY <1>33 DEF TypeOK, ServerTypes, ConnectionRefused
<1>34. CASE ReaderFails
    BY <1>34 DEF TypeOK, ServerTypes, ReaderFails
<1>35. CASE ConnectionLost
    BY <1>35 DEF TypeOK, ServerTypes, ConnectionLost
<1>36. CASE ServerExecutes
    BY <1>36 DEF TypeOK, ServerTypes, StreamTypes, ServerExecutes
<1>37. ASSUME NEW c \in Commands, ServerExecutesOrphan(c)
      PROVE  ServerTypes'
    BY <1>37 DEF TypeOK, ServerTypes, ServerExecutesOrphan
<1> QED
    BY Zenon, <1>2, <1>3, <1>4, <1>5, <1>6, <1>7, <1>8, <1>9, <1>10, <1>11, <1>12,
        <1>13, <1>14, <1>15, <1>16, <1>17, <1>18, <1>19, <1>20, <1>21, <1>22,
        <1>23, <1>24, <1>25, <1>26, <1>27, <1>28, <1>29, <1>30, <1>31, <1>32,
        <1>33, <1>34, <1>35, <1>36, <1>37
    DEF Next, CallerNext, RouterNext, ReaderNext, ServerNext, FaultNext

(* The router task holds what its place in the code needs. *)
LEMMA ShapeStep ==
    ASSUME TypeOK, Shape, [Next]_vars
    PROVE  Shape'
<1>1. CASE UNCHANGED vars
    BY <1>1, Zenon DEF vars, connVars, routerVars, Shape, Sending, Reconnecting
<1>2. CASE \/ ForceReconnection \/ \E c \in Commands : Send(c) \/ TimeOut(c)
    BY <1>2 DEF Shape, Sending, Reconnecting, ForceReconnection, policyVars,
        callerVars, commandVars, routerVars, connVars, Send, TimeOut, envVars
<1>3. CASE \/ ServerCloses \/ ConnectionLost
           \/ \E c \in Commands : ServerExecutesOrphan(c)
    BY <1>3 DEF Shape, Sending, Reconnecting, ServerCloses, policyVars, callerVars,
        commandVars, routerVars, envVars, ConnectionLost, ServerExecutesOrphan,
        connVars
<1>4. CASE Connect
    BY <1>4, Zenon DEF Shape, Sending, Reconnecting, Connect, callerVars, commandVars,
        connVars
<1>5. ASSUME NEW c \in Commands, BeginQuit(c)
      PROVE  Shape'
    BY <1>5, Zenon DEF Shape, Sending, Reconnecting, BeginQuit, CloseSink, Answer, envVars
<1>6. CASE ReceiveCommand
    BY <1>6, Zenon DEF Shape, Sending, Reconnecting, ReceiveCommand, policyVars,
        callerVars, commandVars, connVars, envVars
<1>7. CASE ReceiveReconnect
    BY <1>7, Zenon DEF Shape, Sending, Reconnecting, ReceiveReconnect, Working,
        StartReconnect, callerVars, commandVars, envVars, CloseSink
<1>8. CASE WriteRefused
    BY <1>8, Zenon DEF Shape, Sending, Reconnecting, WriteRefused, Tried, Ignored, Answer,
        policyVars, connVars, envVars
<1>9. CASE MissingConnection
    BY <1>9, Zenon DEF Shape, Sending, Reconnecting, MissingConnection, Tried,
        ReceiverGone, WithChannel, policyVars, callerVars, connVars, envVars
<1>10. CASE WriteTimedOut
    BY <1>10, Zenon DEF Shape, Sending, Reconnecting, WriteTimedOut, TimedOut, Tried,
        Ignored, policyVars, connVars, envVars
<1>11. CASE ApplyBackpressure
    BY <1>11, Zenon DEF Shape, Sending, Reconnecting, ApplyBackpressure, CanWrite, Tried,
        Ignored, Answer, WithChannel, Receiver, policyVars, connVars, envVars,
        TimedOut
<1>12. CASE SleepElapsed
    BY <1>12, Zenon DEF Shape, Sending, Reconnecting, SleepElapsed, policyVars, callerVars,
        commandVars, connVars, envVars
<1>13. CASE PushCommand
    BY <1>13, Zenon DEF Shape, Sending, Reconnecting, PushCommand, CanWrite, Tried, Answer,
        Receiver, WithChannel, policyVars, envVars, TimedOut
<1>14. CASE WriteFrame
    BY <1>14, Zenon DEF Shape, Sending, Reconnecting, WriteFrame, policyVars, callerVars,
        commandVars, envVars
<1>15. CASE CountFrame
    BY <1>15, Zenon DEF Shape, Sending, Reconnecting, CountFrame, IncrInFlight, policyVars,
        callerVars, commandVars, envVars
<1>16. CASE WriteFails
    BY <1>16, Zenon DEF Shape, Sending, Reconnecting, WriteFails, Dropped, InChannel,
        ReceiverGone, PopRecent, CloseSink, Answer, policyVars, envVars, Last, Front
<1>17. CASE RouterUnblocked
    BY <1>17, Zenon DEF Shape, Sending, Reconnecting, RouterUnblocked, CloseSink,
        policyVars, callerVars, commandVars, envVars
<1>18. CASE RouterSeesClose
    BY <1>18, Zenon DEF Shape, Sending, Reconnecting, RouterSeesClose, Answer,
        StartReconnect, commandVars, envVars, CloseSink
<1>19. CASE ClosedAfterWrite
    BY <1>19, Zenon DEF Shape, Sending, Reconnecting, ClosedAfterWrite, ReaderGone,
        ReleaseConnection, Requeue, policyVars, callerVars, commandVars, Optional
<1>20. CASE ClosedBeforeConnect
    BY <1>20, Zenon DEF Shape, Sending, Reconnecting, ClosedBeforeConnect, ReaderGone,
        ReleaseConnection, Requeue, policyVars, callerVars, commandVars, Optional
<1>21. CASE ClosedAndStopped
    BY <1>21, Zenon DEF Shape, Sending, Reconnecting, ClosedAndStopped, ReaderGone,
        ReleaseConnection, Dropped, Answer
<1>22. CASE DelayElapsed
    BY <1>22, Zenon DEF Shape, Sending, Reconnecting, DelayElapsed, CloseSink, callerVars,
        commandVars, envVars
<1>23. CASE ConnectionMade
    BY <1>23, Zenon DEF Shape, Sending, Reconnecting, ConnectionMade, policyVars,
        callerVars, commandVars, envVars
<1>24. CASE ConnectionRefused
    BY <1>24, Zenon DEF Shape, Sending, Reconnecting, ConnectionRefused, StartReconnect,
        callerVars, commandVars, CloseSink
<1>25. CASE ReplayCommand
    BY <1>25 DEF Shape, Sending, Reconnecting, TypeOK, RouterTypes, ReplayCommand,
        TimedOut, Answer, policyVars, envVars
<1>26. CASE ReplayFinished
    BY <1>26, Zenon DEF Shape, Sending, Reconnecting, ReplayFinished, AfterReconnect,
        CloseSink, callerVars, commandVars, envVars
<1>27. CASE ClosedDuringReplay
    BY <1>27, Zenon DEF Shape, Sending, Reconnecting, ClosedDuringReplay, ReaderGone,
        ReleaseConnection, Requeue, Dropped, AfterReconnect, Answer, Optional
<1>28. CASE ReadResponse
    BY <1>28, Zenon DEF Shape, Sending, Reconnecting, ReadResponse, DecrInFlight, Answer,
        Unblock, policyVars, envVars
<1>29. CASE ReaderSeesEnd
    BY <1>29, Zenon DEF Shape, Sending, Reconnecting, ReaderSeesEnd, CheckBlockedRouter,
        policyVars, envVars, Unblock, Dropped, Answer
<1>30. CASE CheckFinalAttempt
    BY <1>30, Zenon DEF Shape, Sending, Reconnecting, CheckFinalAttempt, OnFinalAttempt,
        Answer, policyVars, envVars
<1>31. CASE NotifyRouter
    BY <1>31, Zenon DEF Shape, Sending, Reconnecting, NotifyRouter, policyVars, callerVars,
        commandVars, routerVars, envVars
<1>32. CASE ReaderEnds
    BY <1>32, Zenon DEF Shape, Sending, Reconnecting, ReaderEnds, policyVars, callerVars,
        commandVars, routerVars, envVars
<1>33. CASE ServerExecutes
    BY <1>33, Zenon DEF Shape, Sending, Reconnecting, ServerExecutes, policyVars,
        callerVars, commandVars, routerVars
<1>34. CASE ReaderFails
    BY <1>34, Zenon DEF Shape, Sending, Reconnecting, ReaderFails, CheckBlockedRouter,
        policyVars, Unblock, Dropped, Answer
<1> QED
    BY Zenon, <1>1, <1>2, <1>3, <1>4, <1>5, <1>6, <1>7, <1>8, <1>9, <1>10, <1>11, <1>12,
        <1>13, <1>14, <1>15, <1>16, <1>17, <1>18, <1>19, <1>20, <1>21, <1>22, <1>23,
        <1>24, <1>25, <1>26, <1>27, <1>28, <1>29, <1>30, <1>31, <1>32, <1>33, <1>34
    DEF Next, CallerNext, RouterNext, ReaderNext, ServerNext, FaultNext

(* One step keeps the whole type invariant. *)
LEMMA TypeStep ==
    ASSUME TypeOK, Shape, [Next]_vars
    PROVE  TypeOK' /\ Shape'
    BY Zenon, CallerTypesStep, CommandTypesStep, RouterTypesStep, ConnectionTypesStep,
       StreamTypesStep, ServerTypesStep, ShapeStep DEF TypeOK

(* The initial state is well typed. *)
LEMMA TypeInit ==
    ASSUME Init
    PROVE  TypeOK /\ Shape
<1>1. CallerTypes
    BY DEF Init, CallerTypes
<1>2. CommandTypes
    BY Zenon DEF Init, CommandTypes
<1>3. RouterTypes
    BY DEF Init, RouterTypes, Places, States
<1>4. ConnectionTypes
    BY Zenon DEF Init, ConnectionTypes
<1>5. StreamTypes
    BY DEF Init, StreamTypes
<1>6. ServerTypes
    BY Zenon DEF Init, ServerTypes
<1>7. Shape
    BY Zenon DEF Init, Shape, Sending, Reconnecting
<1> QED
    BY <1>1, <1>2, <1>3, <1>4, <1>5, <1>6, <1>7, Zenon DEF TypeOK

(* Every reachable state is well typed, whatever the callers, the connections
   and the server do: in particular the shared buffer, the retry buffer and the
   replay queue only ever hold commands. *)
THEOREM TypeCorrect == Spec => []TypeOK
<1>1. Init => TypeOK /\ Shape
    BY Zenon, TypeInit
<1>2. TypeOK /\ Shape /\ [Next]_vars => TypeOK' /\ Shape'
    BY Zenon, TypeStep
<1> QED
    BY <1>1, <1>2, PTL DEF Spec

(***************************************************************************)
(* The invariants: the actions that need more than one step.               *)
(***************************************************************************)

(* The responses to come are a sequence of commands. *)
LEMMA StreamType ==
    ASSUME TypeOK
    PROVE  Stream \in Seq(Commands) /\ Len(Stream) = Len(replies) + Len(requests)
    BY DEF TypeOK, StreamTypes, Stream

(* Replayable, where a command moves from one queue to another. *)
(* The drained buffer and the failed command are queued for the next connection. *)
LEMMA ClosedAfterWriteReplayable ==
    ASSUME TypeOK, Shape, Replayable, ClosedAfterWrite
    PROVE  Replayable'
<1>1. /\ retry \in Seq(Responding) /\ buffer \in Seq(Responding)
      /\ Optional(sending) \in Seq(Responding)
    BY DEF Replayable, ClosedAfterWrite, Optional
<1>2. retry' \in Seq(Responding)
    BY <1>1 DEF ClosedAfterWrite, Requeue
<1> QED
    BY <1>2 DEF Replayable, ClosedAfterWrite, ReleaseConnection

(* The same when the write failed in retry_buffer. *)
LEMMA ClosedDuringReplayReplayable ==
    ASSUME TypeOK, Shape, Replayable, ClosedDuringReplay
    PROVE  Replayable'
<1>1. /\ retry \in Seq(Responding) /\ buffer \in Seq(Responding)
      /\ Optional(sending) \in Seq(Responding)
    BY DEF Replayable, ClosedDuringReplay, Optional
<1>2. retry' \in Seq(Responding)
    BY <1>1 DEF ClosedDuringReplay, Requeue
<1> QED
    BY <1>2 DEF Replayable, ClosedDuringReplay, ReleaseConnection

(* retry_buffer moves the front of its queue to the buffer. *)
LEMMA ReplayCommandReplayable ==
    ASSUME TypeOK, Shape, Replayable, ReplayCommand
    PROVE  Replayable'
<1>1. Head(replay) \in Responding /\ replay' \in Seq(Responding)
    BY HeadTail, Zenon DEF Replayable, ReplayCommand
<1>2. pc = "replay" /\ pc' \in {pc, "rframe"} /\ UNCHANGED retry
    BY Zenon DEF ReplayCommand
<1>3. buffer' \in {buffer, Append(buffer, Head(replay))}
    BY Zenon DEF ReplayCommand
<1>4. buffer' \in Seq(Responding)
  <2>1. buffer \in Seq(Responding)
      BY Zenon DEF Replayable
  <2>2. Append(buffer, Head(replay)) \in Seq(Responding)
      BY Zenon, <1>1, <2>1, AppendType
  <2> QED
      BY Zenon, <1>3, <2>1, <2>2
<1>5. pc' = "rframe" => sending' = Head(replay)
    BY <1>2, Zenon DEF ReplayCommand
<1> QED
    BY <1>1, <1>2, <1>4, <1>5, Zenon DEF Replayable

(* The reader task pops the front of the buffer. *)
LEMMA ReadResponseReplayable ==
    ASSUME TypeOK, Shape, Replayable, ReadResponse
    PROVE  Replayable'
<1>1. buffer' \in Seq(Responding)
    BY HeadTail, Zenon DEF Replayable, ReadResponse
<1> QED
    BY <1>1, Zenon DEF Replayable, ReadResponse

(* check_final_write_attempt filters the buffer. *)
LEMMA CheckFinalReplayable ==
    ASSUME TypeOK, Shape, Replayable, CheckFinalAttempt
    PROVE  Replayable'
<1>1. buffer' \in Seq(Responding)
    BY WithoutKeepsOthers, Zenon DEF Replayable, CheckFinalAttempt
<1> QED
    BY <1>1, Zenon DEF Replayable, CheckFinalAttempt

(* A failed write gives back the last command of the buffer. *)
LEMMA WriteFailsReplayable ==
    ASSUME TypeOK, Replayable, WriteFails
    PROVE  Replayable'
<1>1. UNCHANGED <<replay, retry>> /\ pc # "closeStop"
    BY Zenon DEF WriteFails
<1>2. CASE buffer = <<>>
    BY <1>1, <1>2, Zenon DEF WriteFails, Replayable
<1>3. CASE buffer # <<>>
  <2>1. Last(buffer) \in Responding /\ Front(buffer) \in Seq(Responding)
      BY <1>3, LastFront, Zenon DEF Replayable
  <2>2. buffer' = Front(buffer) /\ sending' \in {NoCommand, Last(buffer)}
      BY <1>3, Zenon DEF WriteFails, PopRecent
  <2> QED
      BY <1>1, <2>1, <2>2, Zenon DEF Replayable
<1> QED
    BY Zenon, <1>2, <1>3

(* check_blocked_router pops the front of the buffer or leaves it alone. *)
LEMMA CheckBlockedReplayable ==
    ASSUME TypeOK, Replayable, CheckBlockedRouter, UNCHANGED <<replay, retry, pc, sending>>
    PROVE  Replayable'
<1>1. buffer' \in Seq(Responding)
  <2>1. CASE buffer = <<>>
      BY <2>1, Zenon DEF Replayable, CheckBlockedRouter
  <2>2. CASE buffer # <<>>
      BY <2>2, HeadTail, Zenon DEF Replayable, CheckBlockedRouter
  <2> QED
      BY Zenon, <2>1, <2>2
<1> QED
    BY <1>1, Zenon DEF Replayable

(* InStep: a command is pushed before its frame is written, so the buffer is one
   ahead of the responses to come. *)
LEMMA PushCommandInStep ==
    ASSUME TypeOK, Shape, InStep, PushCommand
    PROVE  InStep'
<1>0. /\ UNCHANGED <<reader, Stream, socket>> /\ cmd \in Commands
      /\ pc = "write" /\ pc' = "frame" /\ sending' = cmd
    BY Zenon DEF PushCommand, CanWrite, Stream, Shape
<1>1. Unwritten = <<>>
    BY <1>0, Zenon DEF Unwritten
<1>2. CASE cmd \in NoResponses
  <2>1. Unwritten' = <<>> /\ UNCHANGED buffer
      BY <1>2, <1>0, Zenon DEF PushCommand, Unwritten
  <2> QED
      BY <1>0, <1>1, <2>1, Zenon DEF InStep, Closing
<1>3. CASE cmd \notin NoResponses
  <2>1. Unwritten' = <<cmd>> /\ buffer' = Append(buffer, cmd)
      BY <1>3, <1>0, Zenon DEF PushCommand, Unwritten
  <2>2. buffer \in Seq(Commands) /\ Stream \in Seq(Commands)
      BY StreamType, Zenon DEF TypeOK, StreamTypes
  <2> SUFFICES ASSUME reader = "reading"
               PROVE  /\ \A i \in 1..Len(buffer') : i <= Len(Stream) => buffer'[i] = Stream[i]
                      /\ Len(buffer') >= Len(Stream) + 1
                      /\ socket = "open" => buffer' = Stream \o <<cmd>>
      BY <1>0, <2>1, Zenon DEF InStep
  <2>3. /\ \A i \in 1..Len(buffer) : i <= Len(Stream) => buffer[i] = Stream[i]
        /\ Len(buffer) >= Len(Stream)
        /\ socket = "open" => buffer = Stream
      BY <1>0, <1>1, <2>2 DEF InStep, Closing
  <2> QED
      BY <1>0, <2>1, <2>2, <2>3
<1> QED
    BY Zenon, <1>2, <1>3

(* The same for a replayed command. *)
LEMMA ReplayCommandInStep ==
    ASSUME TypeOK, Shape, Replayable, InStep, ReplayCommand
    PROVE  InStep'
<1> DEFINE c == Head(replay)
<1>0. /\ UNCHANGED <<reader, Stream, socket>> /\ pc = "replay" /\ c \in Commands
      /\ buffer \in Seq(Commands) /\ Stream \in Seq(Commands)
    BY StreamType DEF ReplayCommand, Stream, TypeOK, RouterTypes, StreamTypes
<1>c. c \in Responding
    BY HeadTail, Zenon DEF ReplayCommand, Replayable
<1>1. Unwritten = <<>>
    BY <1>0, Zenon DEF Unwritten
<1>2. CASE UNCHANGED <<buffer, pc>>
  <2>1. Unwritten' = <<>>
      BY <1>2, <1>0, Zenon DEF Unwritten
  <2> QED
      BY <1>0, <1>1, <1>2, <2>1, Zenon DEF InStep, Closing
<1>3. CASE buffer' = Append(buffer, c) /\ pc' = "rframe" /\ sending' = c
  <2> SUFFICES ASSUME reader = "reading"
               PROVE  /\ \A i \in 1..Len(buffer') : i <= Len(Stream) => buffer'[i] = Stream[i]
                      /\ Len(buffer') >= Len(Stream) + Len(Unwritten')
                      /\ socket = "open" => buffer' = Stream \o Unwritten'
      BY <1>0, <1>3, Zenon DEF InStep
  <2>1. /\ \A i \in 1..Len(buffer) : i <= Len(Stream) => buffer[i] = Stream[i]
        /\ Len(buffer) >= Len(Stream)
        /\ socket = "open" => buffer = Stream
      BY <1>0, <1>1 DEF InStep, Closing
  <2>2. Unwritten' = <<c>>
      BY <1>3, <1>c, Zenon DEF Unwritten, Responding
  <2> HIDE DEF c
  <2> QED
      BY <1>0, <1>3, <2>1, <2>2
<1> QED
    BY <1>2, <1>3, Zenon DEF ReplayCommand

(* The reader task takes the front of the buffer with the front of the responses. *)
LEMMA ReadResponseInStep ==
    ASSUME TypeOK, Shape, InStep, ReadResponse
    PROVE  InStep'
<1>0. /\ UNCHANGED <<pc, sending, requests, reader>>
      /\ reader = "reading" /\ replies # <<>> /\ replies' = Tail(replies)
    BY Zenon DEF ReadResponse
<1>1. UNCHANGED Unwritten /\ Unwritten \in Seq(Commands)
    BY <1>0 DEF Unwritten, Shape, Sending
<1>2. /\ Stream \in Seq(Commands) /\ buffer \in Seq(Commands)
      /\ Stream # <<>>
      /\ Stream' = Tail(Stream)
    BY <1>0 DEF TypeOK, StreamTypes, Stream
<1>3. CASE buffer = <<>>
  <2>1. pc \in Closing
      BY <1>0, <1>1, <1>2, <1>3 DEF InStep
  <2> QED
      BY <1>0, <1>3, <2>1 DEF InStep, ReadResponse
<1>4. CASE buffer # <<>>
  <2>1. buffer' = Tail(buffer) /\ (socket' = "open" => socket = "open")
      BY <1>4, Zenon DEF ReadResponse
  <2>2. \A i \in 1..Len(buffer') : i <= Len(Stream') => buffer'[i] = Stream'[i]
      BY <1>0, <1>2, <1>4, <2>1 DEF InStep
  <2>3. pc \notin Closing => Len(buffer') >= Len(Stream') + Len(Unwritten)
      BY <1>0, <1>1, <1>2, <1>4, <2>1 DEF InStep
  <2>4. pc \notin Closing /\ socket' = "open" => buffer' = Stream' \o Unwritten
      BY <1>0, <1>1, <1>2, <1>4, <2>1 DEF InStep
  <2> QED
      BY <1>0, <1>1, <2>2, <2>3, <2>4, Zenon DEF InStep
<1> QED
    BY Zenon, <1>3, <1>4

(* A failed write takes the last command off the buffer and closes the connection,
   or finds the buffer empty, which only happens to a command without a response. *)
LEMMA WriteFailsInStep ==
    ASSUME TypeOK, InStep, WriteFails
    PROVE  InStep'
<1> SUFFICES ASSUME reader = "reading"
             PROVE  InStep'
    BY Zenon DEF InStep, WriteFails
<1>1. /\ UNCHANGED <<reader, Stream>> /\ socket = "closed"
      /\ pc \in {"frame", "rframe"} /\ pc \notin Closing
    BY Zenon DEF WriteFails, Stream, Closing
<1>2. socket' # "open"
    BY <1>1, Zenon DEF WriteFails, CloseSink
<1>3. buffer \in Seq(Commands) /\ Stream \in Seq(Commands)
    BY StreamType, Zenon DEF TypeOK, StreamTypes
<1>4. CASE buffer = <<>>
  <2>1. UNCHANGED buffer /\ Unwritten' = <<>>
      BY <1>4, Zenon DEF WriteFails, Unwritten
  <2>2. Len(Unwritten) \in Nat
      BY Zenon DEF Unwritten
  <2> QED
      BY <1>1, <1>2, <1>3, <2>1, <2>2 DEF InStep
<1>5. CASE buffer # <<>>
  <2>1. buffer' = Front(buffer) /\ pc' \in Closing
      BY <1>5, Zenon DEF WriteFails, PopRecent, Closing
  <2>2. /\ Len(Front(buffer)) = Len(buffer) - 1
        /\ \A i \in 1..Len(buffer) - 1 : Front(buffer)[i] = buffer[i]
      BY Zenon, <1>3, <1>5, LastFront
  <2>3. \A i \in 1..Len(buffer) : i <= Len(Stream) => buffer[i] = Stream[i]
      BY Zenon DEF InStep
  <2>4. \A i \in 1..Len(buffer') : i <= Len(Stream) => buffer'[i] = Stream[i]
      BY <1>3, <2>1, <2>2, <2>3
  <2> QED
      BY <1>1, <2>1, <2>4, Zenon DEF InStep
<1> QED
    BY Zenon, <1>4, <1>5

(* The server turns a request into a response: the responses to come stay. *)
LEMMA ServerExecutesInStep ==
    ASSUME TypeOK, InStep, ServerExecutes
    PROVE  InStep'
<1>1. Stream' = Stream
  <2>1. /\ requests \in Seq(Commands) /\ replies \in Seq(Commands) /\ requests # <<>>
        /\ requests' = Tail(requests) /\ replies' = Append(replies, Head(requests))
      BY Zenon DEF ServerExecutes, TypeOK, StreamTypes
  <2> QED
      BY <2>1 DEF Stream
<1>2. UNCHANGED <<reader, buffer, pc, sending, socket>>
    BY Zenon DEF ServerExecutes, routerVars
<1>3. Unwritten' = Unwritten
    BY <1>2, Zenon DEF Unwritten
<1> QED
    BY <1>1, <1>2, <1>3, Zenon DEF InStep

(* CounterLag: a write that fails while the reader task reads finds its own command
   on the buffer, so the router closes the connection. *)
LEMMA WriteFailsCounter ==
    ASSUME TypeOK, Shape, InStep, CounterLag, WriteFails
    PROVE  CounterLag'
<1> SUFFICES ASSUME reader = "reading", NoResponses = {}, pc' \notin Closing
             PROVE  FALSE
    BY Zenon DEF CounterLag, WriteFails
<1>1. buffer = <<>>
    BY Zenon DEF WriteFails, Closing
<1>2. Len(Unwritten) = 1 /\ pc \notin Closing
    BY Zenon DEF WriteFails, Unwritten, Closing
<1>3. Len(buffer) >= Len(Stream) + 1
    BY <1>2, Zenon DEF InStep
<1> QED
    BY <1>1, <1>3, StreamType

(* Wakeups: after a failed write the router waits for nothing. *)
LEMMA WriteFailsWakeups ==
    ASSUME TypeOK, Shape, Wakeups, WriteFails
    PROVE  Wakeups'
<1>1. \A c \in Commands : ReceiverGone(tx)[c] # "live"
    BY Zenon DEF ReceiverGone
<1>2. \A c \in Commands : tx'[c] # "live"
    BY <1>1, Zenon DEF WriteFails, ReceiverGone
<1>3. rx' = "none"
    BY Zenon DEF WriteFails
<1> QED
    BY <1>2, <1>3, Zenon DEF Wakeups

(* A response to the command the router waits for wakes it up, and another one
   leaves the sending half on the buffer. *)
LEMMA ReadResponseWakeups ==
    ASSUME TypeOK, Shape, Wakeups, ReadResponse
    PROVE  Wakeups'
<1>0. UNCHANGED <<pc, cmd>>
    BY Zenon DEF ReadResponse
<1>1. CASE buffer = <<>>
    BY <1>1, Zenon DEF ReadResponse, Wakeups
<1>2. CASE buffer # <<>>
  <2> DEFINE c == Head(buffer)
  <2>1. /\ buffer \in Seq(Commands) /\ c \in Commands
        /\ buffer' = Tail(buffer)
        /\ tx' = [tx EXCEPT ![c] = "none"]
        /\ rx' = IF tx[c] = "live" THEN "continue" ELSE rx
      BY <1>2 DEF ReadResponse, TypeOK, StreamTypes, Unblock
  <2> HIDE DEF c
  <2>2. \A d \in Commands : tx'[d] = "live" => tx[d] = "live" /\ d # c
      BY <2>1, Zenon DEF TypeOK, CommandTypes
  <2>3. \A d \in Commands : tx'[d] = "live" => d = cmd /\ rx' = "empty"
      BY <2>1, <2>2, Zenon DEF Wakeups
  <2>4. rx' # "none" => pc \in {"write", "sleep", "frame", "count", "await"}
      BY <2>1, Zenon DEF Wakeups
  <2>5. ASSUME rx' = "empty"
        PROVE  rx = "empty" /\ tx[cmd] = "live" /\ cmd # c /\ tx'[cmd] = "live"
      BY <2>1, <2>5 DEF Wakeups, TypeOK, CommandTypes
  <2>6. ASSUME pc \in {"frame", "count", "await"}, rx' = "empty"
        PROVE  cmd \in Range(buffer')
    <3>1. cmd \in Range(buffer)
        BY <2>6, <2>5, Zenon DEF Wakeups
    <3> QED
        BY <3>1, <2>1, <2>6, <2>5, <1>2, TailMember, Zenon DEF c
  <2> QED
      BY <1>0, <2>3, <2>4, <2>5, <2>6, Zenon DEF Wakeups
<1> QED
    BY Zenon, <1>1, <1>2

(* The same for check_blocked_router. *)
LEMMA CheckBlockedWakeups ==
    ASSUME TypeOK, Shape, Wakeups, CheckBlockedRouter, UNCHANGED <<pc, cmd>>
    PROVE  Wakeups'
<1> DEFINE c == Head(buffer)
<1>1. CASE buffer = <<>> \/ tx[c] = "none"
    BY <1>1, Zenon DEF CheckBlockedRouter, Wakeups
<1>2. CASE buffer # <<>> /\ tx[c] # "none"
  <2>1. /\ buffer \in Seq(Commands) /\ c \in Commands
        /\ buffer' = Tail(buffer)
        /\ tx' = [tx EXCEPT ![c] = "none"]
        /\ rx' = IF tx[c] = "live" THEN "closed" ELSE rx
      BY <1>2 DEF CheckBlockedRouter, TypeOK, StreamTypes, Unblock
  <2> HIDE DEF c
  <2>2. \A d \in Commands : tx'[d] = "live" => tx[d] = "live" /\ d # c
      BY <2>1, Zenon DEF TypeOK, CommandTypes
  <2>3. \A d \in Commands : tx'[d] = "live" => d = cmd /\ rx' = "empty"
      BY <2>1, <2>2, Zenon DEF Wakeups
  <2>4. rx' # "none" => pc \in {"write", "sleep", "frame", "count", "await"}
      BY <2>1, Zenon DEF Wakeups
  <2>5. ASSUME rx' = "empty"
        PROVE  rx = "empty" /\ tx[cmd] = "live" /\ cmd # c /\ tx'[cmd] = "live"
      BY <2>1, <2>5 DEF Wakeups, TypeOK, CommandTypes
  <2>6. ASSUME pc \in {"frame", "count", "await"}, rx' = "empty"
        PROVE  cmd \in Range(buffer')
    <3>1. cmd \in Range(buffer)
        BY <2>6, <2>5, Zenon DEF Wakeups
    <3> QED
        BY <3>1, <2>1, <2>6, <2>5, <1>2, TailMember, Zenon DEF c
  <2> QED
      BY <2>3, <2>4, <2>5, <2>6, Zenon DEF Wakeups
<1> QED
    BY Zenon, <1>1, <1>2

(* check_final_write_attempt drops the sending half only of what it answers. *)
LEMMA CheckFinalWakeups ==
    ASSUME TypeOK, Shape, Wakeups, CheckFinalAttempt
    PROVE  Wakeups'
<1> DEFINE gone == OnFinalAttempt
<1>0. /\ UNCHANGED <<pc, cmd>>
      /\ buffer' = Without(buffer, gone)
      /\ tx' = [c \in Commands |-> IF c \in gone THEN "none" ELSE tx[c]]
      /\ rx' = IF \E c \in gone : tx[c] = "live" THEN "dropped" ELSE rx
    BY Zenon DEF CheckFinalAttempt
<1>1. buffer \in Seq(Commands) /\ gone \subseteq Commands
    BY DEF TypeOK, StreamTypes, OnFinalAttempt, Range
<1> HIDE DEF gone
<1>2. \A c \in Commands : tx'[c] = "live" => tx[c] = "live" /\ c \notin gone
    BY Zenon, <1>0
<1>3. \A c \in gone : tx[c] = "live" => c = cmd /\ rx = "empty"
    BY <1>1, Zenon DEF Wakeups
<1>4. \A c \in Commands : tx'[c] = "live" => c = cmd /\ rx' = "empty"
    BY <1>0, <1>1, <1>2, <1>3, Zenon DEF Wakeups
<1>5. rx' # "none" => rx # "none"
    BY Zenon, <1>0, <1>3
<1>6. ASSUME rx' = "empty"
      PROVE  rx = "empty" /\ cmd \in Commands \ gone /\ tx'[cmd] = "live"
  <2>1. rx = "empty" /\ \A c \in gone : tx[c] # "live"
      BY Zenon, <1>0, <1>6
  <2>2. tx[cmd] = "live" /\ cmd \in Commands
      BY <2>1, Zenon DEF Wakeups, Shape
  <2> QED
      BY Zenon, <2>1, <2>2, <1>0
<1>7. ASSUME pc \in {"frame", "count", "await"}, rx' = "empty"
      PROVE  cmd \in Range(buffer')
    BY <1>0, <1>1, <1>6, <1>7, WithoutKeepsOthers, Zenon DEF Wakeups
<1> QED
    BY <1>0, <1>4, <1>5, <1>6, <1>7, Zenon DEF Wakeups

-----------------------------------------------------------------------------
(***************************************************************************)
(* One step keeps each part of the invariant.                              *)
(***************************************************************************)

(* Only commands with a response are replayed. *)
LEMMA ReplayableStep ==
    ASSUME TypeOK, Shape, Replayable, [Next]_vars
    PROVE  Replayable'
<1>1. CASE UNCHANGED vars
    BY <1>1, Zenon DEF vars, connVars, routerVars, Replayable
<1>2. CASE \/ ForceReconnection \/ \E c \in Commands : Send(c) \/ TimeOut(c)
    BY <1>2, Zenon DEF Replayable, ForceReconnection, policyVars, callerVars, commandVars,
        routerVars, connVars, Send, TimeOut, envVars
<1>3. CASE \/ NotifyRouter \/ ReaderEnds \/ ServerExecutes \/ ServerCloses
           \/ ConnectionLost \/ \E c \in Commands : ServerExecutesOrphan(c)
    BY <1>3, Zenon DEF Replayable, NotifyRouter, policyVars, callerVars, commandVars,
        routerVars, envVars, ReaderEnds, ServerExecutes, ServerCloses,
        ConnectionLost, ServerExecutesOrphan, connVars
<1>4. CASE Connect
    BY <1>4, Zenon DEF Replayable, Connect, callerVars, commandVars, connVars
<1>5. ASSUME NEW c \in Commands, BeginQuit(c)
      PROVE  Replayable'
    BY <1>5, Zenon DEF Replayable, BeginQuit, CloseSink, Answer, envVars
<1>6. CASE ReceiveCommand
    BY <1>6, Zenon DEF Replayable, ReceiveCommand, policyVars, callerVars, commandVars,
        connVars, envVars
<1>7. CASE ReceiveReconnect
    BY <1>7, Zenon DEF Replayable, ReceiveReconnect, Working, StartReconnect, callerVars,
        commandVars, envVars, CloseSink
<1>8. CASE WriteRefused
    BY <1>8, Zenon DEF Replayable, WriteRefused, Tried, Ignored, Answer, policyVars,
        connVars, envVars
<1>9. CASE MissingConnection
    BY <1>9, Zenon DEF Replayable, MissingConnection, Tried, ReceiverGone, WithChannel,
        policyVars, callerVars, connVars, envVars
<1>10. CASE WriteTimedOut
    BY <1>10, Zenon DEF Replayable, WriteTimedOut, TimedOut, Tried, Ignored, policyVars,
        connVars, envVars
<1>11. CASE ApplyBackpressure
    BY <1>11, Zenon DEF Replayable, ApplyBackpressure, CanWrite, Tried, Ignored, Answer,
        WithChannel, Receiver, policyVars, connVars, envVars, TimedOut
<1>12. CASE SleepElapsed
    BY <1>12, Zenon DEF Replayable, SleepElapsed, policyVars, callerVars, commandVars,
        connVars, envVars
<1>13. CASE PushCommand
  <2>1. cmd \in Commands
      BY <1>13, Zenon DEF Shape, PushCommand, CanWrite
  <2>2. \/ cmd \in Responding /\ buffer' = Append(buffer, cmd)
        \/ buffer' = buffer
      BY <1>13, <2>1, Zenon DEF PushCommand, Responding
  <2>3. buffer' \in Seq(Responding)
      BY <2>2 DEF Replayable
  <2>4. pc' = "frame" /\ pc # "closeStop" /\ UNCHANGED <<replay, retry>>
      BY <1>13, Zenon DEF PushCommand, CanWrite
  <2> QED
      BY <2>3, <2>4, Zenon DEF Replayable
<1>14. CASE WriteFrame
    BY <1>14, Zenon DEF Replayable, WriteFrame, policyVars, callerVars, commandVars,
        envVars
<1>15. CASE CountFrame
    BY <1>15, Zenon DEF Replayable, CountFrame, IncrInFlight, policyVars, callerVars,
        commandVars, envVars
<1>16. CASE WriteFails
    BY Zenon, <1>16, WriteFailsReplayable
<1>17. CASE RouterUnblocked
    BY <1>17, Zenon DEF Replayable, RouterUnblocked, CloseSink, policyVars, callerVars,
        commandVars, envVars
<1>18. CASE RouterSeesClose
    BY <1>18, Zenon DEF Replayable, RouterSeesClose, Answer, StartReconnect, commandVars,
        envVars, CloseSink
<1>19. CASE ClosedAfterWrite
    BY Zenon, <1>19, ClosedAfterWriteReplayable
<1>20. CASE ClosedBeforeConnect
    BY <1>20 DEF Replayable, ClosedBeforeConnect, ReaderGone, ReleaseConnection,
        Requeue, policyVars, callerVars, commandVars, Optional
<1>21. CASE ClosedAndStopped
    BY <1>21 DEF Replayable, ClosedAndStopped, ReaderGone, ReleaseConnection,
        Dropped, Answer
<1>22. CASE DelayElapsed
    BY <1>22, Zenon DEF Replayable, DelayElapsed, CloseSink, callerVars, commandVars,
        envVars
<1>23. CASE ConnectionMade
    BY <1>23 DEF Replayable, ConnectionMade, policyVars, callerVars, commandVars,
        envVars
<1>24. CASE ConnectionRefused
    BY <1>24, Zenon DEF Replayable, ConnectionRefused, StartReconnect, callerVars,
        commandVars, CloseSink
<1>25. CASE ReplayCommand
    BY Zenon, <1>25, ReplayCommandReplayable
<1>26. CASE ReplayFinished
    BY <1>26, Zenon DEF Replayable, ReplayFinished, AfterReconnect, CloseSink, callerVars,
        commandVars, envVars
<1>27. CASE ClosedDuringReplay
    BY Zenon, <1>27, ClosedDuringReplayReplayable
<1>28. CASE ReadResponse
    BY Zenon, <1>28, ReadResponseReplayable
<1>29. CASE ReaderSeesEnd
    BY <1>29, CheckBlockedReplayable, Zenon DEF ReaderSeesEnd
<1>30. CASE CheckFinalAttempt
    BY Zenon, <1>30, CheckFinalReplayable
<1>31. CASE ReaderFails
    BY <1>31, CheckBlockedReplayable, Zenon DEF ReaderFails
<1> QED
    BY Zenon, <1>1, <1>2, <1>3, <1>4, <1>5, <1>6, <1>7, <1>8, <1>9, <1>10, <1>11, <1>12,
        <1>13, <1>14, <1>15, <1>16, <1>17, <1>18, <1>19, <1>20, <1>21, <1>22, <1>23,
        <1>24, <1>25, <1>26, <1>27, <1>28, <1>29, <1>30, <1>31
    DEF Next, CallerNext, RouterNext, ReaderNext, ServerNext, FaultNext

(* The shared buffer stays in step with the responses to come. *)
LEMMA InStepStep ==
    ASSUME TypeOK, Shape, Replayable, InStep, [Next]_vars
    PROVE  InStep'
<1>1. CASE UNCHANGED vars
    BY <1>1, Zenon DEF vars, connVars, routerVars, InStep, Stream, Unwritten, Closing
<1>2. CASE ForceReconnection
    BY <1>2, Zenon DEF InStep, Stream, Unwritten, Closing, ForceReconnection, policyVars,
        callerVars, commandVars, routerVars, connVars
<1>3. ASSUME NEW c \in Commands, Send(c)
      PROVE  InStep'
    BY <1>3, Zenon DEF InStep, Stream, Unwritten, Closing, Send, policyVars, commandVars,
        routerVars, connVars
<1>4. ASSUME NEW c \in Commands, TimeOut(c)
      PROVE  InStep'
    BY <1>4, Zenon DEF InStep, Stream, Unwritten, Closing, TimeOut, policyVars,
        commandVars, routerVars, connVars, envVars
<1>5. ASSUME NEW c \in Commands, ServerExecutesOrphan(c)
      PROVE  InStep'
    BY <1>5, Zenon DEF InStep, Stream, Unwritten, Closing, ServerExecutesOrphan,
        policyVars, callerVars, commandVars, routerVars, connVars
<1>6. CASE Connect
    BY <1>6, Zenon DEF InStep, Stream, Unwritten, Closing, Connect, callerVars,
        commandVars, connVars
<1>7. ASSUME NEW c \in Commands, BeginQuit(c)
      PROVE  InStep'
    BY <1>7, Zenon DEF InStep, Stream, Unwritten, Closing, BeginQuit, CloseSink, Answer,
        envVars
<1>8. CASE ReceiveCommand
    BY <1>8, Zenon DEF InStep, Stream, Unwritten, Closing, ReceiveCommand, policyVars,
        callerVars, commandVars, connVars, envVars
<1>9. CASE ReceiveReconnect
    BY <1>9, Zenon DEF InStep, Stream, Unwritten, Closing, ReceiveReconnect, Working,
        StartReconnect, callerVars, commandVars, envVars, CloseSink
<1>10. CASE WriteRefused
    BY <1>10, Zenon DEF InStep, Stream, Unwritten, Closing, WriteRefused, Tried, Ignored,
        Answer, policyVars, connVars, envVars
<1>11. CASE MissingConnection
    BY <1>11, Zenon DEF InStep, Stream, Unwritten, Closing, MissingConnection, Tried,
        ReceiverGone, WithChannel, policyVars, callerVars, connVars, envVars
<1>12. CASE WriteTimedOut
    BY <1>12, Zenon DEF InStep, Stream, Unwritten, Closing, WriteTimedOut, TimedOut, Tried,
        Ignored, policyVars, connVars, envVars
<1>13. CASE ApplyBackpressure
    BY <1>13, Zenon DEF InStep, Stream, Unwritten, Closing, ApplyBackpressure, CanWrite,
        Tried, Ignored, Answer, WithChannel, Receiver, policyVars, connVars,
        envVars, TimedOut
<1>14. CASE SleepElapsed
    BY <1>14, Zenon DEF InStep, Stream, Unwritten, Closing, SleepElapsed, policyVars,
        callerVars, commandVars, connVars, envVars
<1>15. CASE PushCommand
    BY Zenon, <1>15, PushCommandInStep
<1>16. CASE WriteFrame
    BY <1>16 DEF InStep, Stream, Unwritten, Closing, WriteFrame, policyVars,
        callerVars, commandVars, envVars
<1>17. CASE CountFrame
    BY <1>17, Zenon DEF InStep, Stream, Unwritten, Closing, CountFrame, IncrInFlight,
        policyVars, callerVars, commandVars, envVars
<1>18. CASE WriteFails
    BY Zenon, <1>18, WriteFailsInStep
<1>19. CASE RouterUnblocked
    BY <1>19, Zenon DEF InStep, Stream, Unwritten, Closing, RouterUnblocked, CloseSink,
        policyVars, callerVars, commandVars, envVars
<1>20. CASE RouterSeesClose
    BY <1>20, Zenon DEF InStep, Stream, Unwritten, Closing, RouterSeesClose, Answer,
        StartReconnect, commandVars, envVars, CloseSink
<1>21. CASE ClosedAfterWrite
    BY <1>21, Zenon DEF InStep, Stream, Unwritten, Closing, ClosedAfterWrite, ReaderGone,
        ReleaseConnection, Requeue, policyVars, callerVars, commandVars, Optional
<1>22. CASE ClosedBeforeConnect
    BY <1>22, Zenon DEF InStep, Stream, Unwritten, Closing, ClosedBeforeConnect,
        ReaderGone, ReleaseConnection, Requeue, policyVars, callerVars, commandVars,
        Optional
<1>23. CASE ClosedAndStopped
    BY <1>23, Zenon DEF InStep, Stream, Unwritten, Closing, ClosedAndStopped, ReaderGone,
        ReleaseConnection, Dropped, Answer
<1>24. CASE DelayElapsed
    BY <1>24, Zenon DEF InStep, Stream, Unwritten, Closing, DelayElapsed, CloseSink,
        callerVars, commandVars, envVars
<1>25. CASE ConnectionMade
    BY <1>25 DEF InStep, Stream, Unwritten, Closing, Sending, Shape, ConnectionMade,
        policyVars, callerVars, commandVars, envVars
<1>26. CASE ConnectionRefused
    BY <1>26, Zenon DEF InStep, Stream, Unwritten, Closing, ConnectionRefused,
        StartReconnect, callerVars, commandVars, CloseSink
<1>27. CASE ReplayCommand
    BY Zenon, <1>27, ReplayCommandInStep
<1>28. CASE ReplayFinished
    BY <1>28, Zenon DEF InStep, Stream, Unwritten, Closing, ReplayFinished, AfterReconnect,
        CloseSink, callerVars, commandVars, envVars
<1>29. CASE ClosedDuringReplay
    BY <1>29, Zenon DEF InStep, Stream, Unwritten, Closing, ClosedDuringReplay, ReaderGone,
        ReleaseConnection, Requeue, Dropped, AfterReconnect, Answer, Optional
<1>30. CASE ReadResponse
    BY Zenon, <1>30, ReadResponseInStep
<1>31. CASE ReaderSeesEnd
    BY <1>31, Zenon DEF InStep, Stream, Unwritten, Closing, ReaderSeesEnd,
        CheckBlockedRouter, policyVars, envVars, Unblock, Dropped, Answer
<1>32. CASE CheckFinalAttempt
    BY <1>32, Zenon DEF InStep, Stream, Unwritten, Closing, CheckFinalAttempt,
        OnFinalAttempt, Answer, policyVars, envVars
<1>33. CASE NotifyRouter
    BY <1>33, Zenon DEF InStep, Stream, Unwritten, Closing, NotifyRouter, policyVars,
        callerVars, commandVars, routerVars, envVars
<1>34. CASE ReaderEnds
    BY <1>34, Zenon DEF InStep, Stream, Unwritten, Closing, ReaderEnds, policyVars,
        callerVars, commandVars, routerVars, envVars
<1>35. CASE ServerExecutes
    BY Zenon, <1>35, ServerExecutesInStep
<1>36. CASE ServerCloses
    BY <1>36, Zenon DEF InStep, Stream, Unwritten, Closing, ServerCloses, policyVars,
        callerVars, commandVars, routerVars, envVars
<1>37. CASE ReaderFails
    BY <1>37, Zenon DEF InStep, Stream, Unwritten, Closing, ReaderFails,
        CheckBlockedRouter, policyVars, Unblock, Dropped, Answer
<1>38. CASE ConnectionLost
    BY <1>38, Zenon DEF InStep, Stream, Unwritten, Closing, ConnectionLost, policyVars,
        callerVars, commandVars, routerVars
<1> QED
    BY Zenon, <1>1, <1>2, <1>3, <1>4, <1>5, <1>6, <1>7, <1>8, <1>9, <1>10, <1>11, <1>12,
        <1>13, <1>14, <1>15, <1>16, <1>17, <1>18, <1>19, <1>20, <1>21, <1>22, <1>23,
        <1>24, <1>25, <1>26, <1>27, <1>28, <1>29, <1>30, <1>31, <1>32, <1>33, <1>34,
        <1>35, <1>36, <1>37, <1>38
    DEF Next, CallerNext, RouterNext, ReaderNext, ServerNext, FaultNext

(* in_flight follows the shared buffer. *)
LEMMA CounterLagStep ==
    ASSUME TypeOK, Shape, InStep, CounterLag, [Next]_vars
    PROVE  CounterLag'
<1>1. CASE UNCHANGED vars
    BY <1>1, Zenon DEF vars, connVars, routerVars, CounterLag, Sending, Closing
<1>2. CASE \/ ForceReconnection \/ \E c \in Commands : Send(c) \/ TimeOut(c)
    BY <1>2, Zenon DEF CounterLag, Sending, Closing, ForceReconnection, policyVars,
        callerVars, commandVars, routerVars, connVars, Send, TimeOut, envVars
<1>3. CASE \/ ServerExecutes \/ ServerCloses \/ ConnectionLost
           \/ \E c \in Commands : ServerExecutesOrphan(c)
    BY <1>3, Zenon DEF CounterLag, Sending, Closing, ServerExecutes, policyVars,
        callerVars, commandVars, routerVars, ServerCloses, envVars, ConnectionLost,
        ServerExecutesOrphan, connVars
<1>4. CASE Connect
    BY <1>4, Zenon DEF CounterLag, Sending, Closing, Connect, callerVars, commandVars,
        connVars
<1>5. ASSUME NEW c \in Commands, BeginQuit(c)
      PROVE  CounterLag'
    BY <1>5, Zenon DEF CounterLag, Sending, Closing, BeginQuit, CloseSink, Answer, envVars
<1>6. CASE ReceiveCommand
    BY <1>6, Zenon DEF CounterLag, Sending, Closing, ReceiveCommand, policyVars,
        callerVars, commandVars, connVars, envVars
<1>7. CASE ReceiveReconnect
    BY <1>7, Zenon DEF CounterLag, Sending, Closing, ReceiveReconnect, Working,
        StartReconnect, callerVars, commandVars, envVars, CloseSink
<1>8. CASE WriteRefused
    BY <1>8, Zenon DEF CounterLag, Sending, Closing, WriteRefused, Tried, Ignored, Answer,
        policyVars, connVars, envVars
<1>9. CASE MissingConnection
    BY <1>9, Zenon DEF CounterLag, Sending, Closing, MissingConnection, Tried,
        ReceiverGone, WithChannel, policyVars, callerVars, connVars, envVars
<1>10. CASE WriteTimedOut
    BY <1>10, Zenon DEF CounterLag, Sending, Closing, WriteTimedOut, TimedOut, Tried,
        Ignored, policyVars, connVars, envVars
<1>11. CASE ApplyBackpressure
    BY <1>11, Zenon DEF CounterLag, Sending, Closing, ApplyBackpressure, CanWrite, Tried,
        Ignored, Answer, WithChannel, Receiver, policyVars, connVars, envVars,
        TimedOut
<1>12. CASE SleepElapsed
    BY <1>12, Zenon DEF CounterLag, Sending, Closing, SleepElapsed, policyVars, callerVars,
        commandVars, connVars, envVars
<1>13. CASE PushCommand
    BY <1>13 DEF CounterLag, Sending, Closing, Shape, TypeOK, StreamTypes,
        PushCommand, CanWrite, Tried, Answer, Receiver, WithChannel, policyVars,
        envVars, TimedOut
<1>14. CASE WriteFrame
    BY <1>14, Zenon DEF CounterLag, Sending, Closing, WriteFrame, policyVars, callerVars,
        commandVars, envVars
<1>15. CASE CountFrame
    BY <1>15 DEF CounterLag, Sending, Closing, CountFrame, IncrInFlight, policyVars,
        callerVars, commandVars, envVars
<1>16. CASE WriteFails
    BY Zenon, <1>16, WriteFailsCounter
<1>17. CASE RouterUnblocked
    BY <1>17, Zenon DEF CounterLag, Sending, Closing, RouterUnblocked, CloseSink,
        policyVars, callerVars, commandVars, envVars
<1>18. CASE RouterSeesClose
    BY <1>18, Zenon DEF CounterLag, Sending, Closing, RouterSeesClose, Answer,
        StartReconnect, commandVars, envVars, CloseSink
<1>19. CASE ClosedAfterWrite
    BY <1>19, Zenon DEF CounterLag, Sending, Closing, ClosedAfterWrite, ReaderGone,
        ReleaseConnection, Requeue, policyVars, callerVars, commandVars, Optional
<1>20. CASE ClosedBeforeConnect
    BY <1>20, Zenon DEF CounterLag, Sending, Closing, ClosedBeforeConnect, ReaderGone,
        ReleaseConnection, Requeue, policyVars, callerVars, commandVars, Optional
<1>21. CASE ClosedAndStopped
    BY <1>21, Zenon DEF CounterLag, Sending, Closing, ClosedAndStopped, ReaderGone,
        ReleaseConnection, Dropped, Answer
<1>22. CASE DelayElapsed
    BY <1>22, Zenon DEF CounterLag, Sending, Closing, DelayElapsed, CloseSink, callerVars,
        commandVars, envVars
<1>23. CASE ConnectionMade
    BY <1>23 DEF CounterLag, Sending, Closing, Shape, ConnectionMade, policyVars,
        callerVars, commandVars, envVars
<1>24. CASE ConnectionRefused
    BY <1>24, Zenon DEF CounterLag, Sending, Closing, ConnectionRefused, StartReconnect,
        callerVars, commandVars, CloseSink
<1>25. CASE ReplayCommand
    BY <1>25 DEF CounterLag, Sending, Closing, Shape, TypeOK, StreamTypes,
        ReplayCommand, TimedOut, Answer, policyVars, envVars
<1>26. CASE ReplayFinished
    BY <1>26, Zenon DEF CounterLag, Sending, Closing, ReplayFinished, AfterReconnect,
        CloseSink, callerVars, commandVars, envVars
<1>27. CASE ClosedDuringReplay
    BY <1>27, Zenon DEF CounterLag, Sending, Closing, ClosedDuringReplay, ReaderGone,
        ReleaseConnection, Requeue, Dropped, AfterReconnect, Answer, Optional
<1>28. CASE ReadResponse
    BY <1>28 DEF CounterLag, Sending, Closing, Shape, TypeOK, StreamTypes,
        ReadResponse, DecrInFlight, Answer, Unblock, policyVars, envVars
<1>29. CASE ReaderSeesEnd
    BY <1>29, Zenon DEF CounterLag, Sending, Closing, ReaderSeesEnd, CheckBlockedRouter,
        policyVars, envVars, Unblock, Dropped, Answer
<1>30. CASE CheckFinalAttempt
    BY <1>30, Zenon DEF CounterLag, Sending, Closing, CheckFinalAttempt, OnFinalAttempt,
        Answer, policyVars, envVars
<1>31. CASE NotifyRouter
    BY <1>31, Zenon DEF CounterLag, Sending, Closing, NotifyRouter, policyVars, callerVars,
        commandVars, routerVars, envVars
<1>32. CASE ReaderEnds
    BY <1>32, Zenon DEF CounterLag, Sending, Closing, ReaderEnds, policyVars, callerVars,
        commandVars, routerVars, envVars
<1>33. CASE ReaderFails
    BY <1>33, Zenon DEF CounterLag, Sending, Closing, ReaderFails, CheckBlockedRouter,
        policyVars, Unblock, Dropped, Answer
<1> QED
    BY Zenon, <1>1, <1>2, <1>3, <1>4, <1>5, <1>6, <1>7, <1>8, <1>9, <1>10, <1>11, <1>12,
        <1>13, <1>14, <1>15, <1>16, <1>17, <1>18, <1>19, <1>20, <1>21, <1>22, <1>23,
        <1>24, <1>25, <1>26, <1>27, <1>28, <1>29, <1>30, <1>31, <1>32, <1>33
    DEF Next, CallerNext, RouterNext, ReaderNext, ServerNext, FaultNext

(* A blocked router keeps its waker. *)
LEMMA WakeupsStep ==
    ASSUME TypeOK, Shape, Wakeups, [Next]_vars
    PROVE  Wakeups'
<1>1. CASE UNCHANGED vars
    BY <1>1, Zenon DEF vars, commandVars, connVars, routerVars, Wakeups
<1>2. CASE \/ ForceReconnection \/ \E c \in Commands : Send(c) \/ TimeOut(c)
    BY <1>2, Zenon DEF Wakeups, ForceReconnection, policyVars, callerVars, commandVars,
        routerVars, connVars, Send, TimeOut, envVars
<1>3. CASE \/ NotifyRouter \/ ReaderEnds \/ ServerExecutes \/ ServerCloses
           \/ ConnectionLost \/ \E c \in Commands : ServerExecutesOrphan(c)
    BY <1>3, Zenon DEF Wakeups, NotifyRouter, policyVars, callerVars, commandVars,
        routerVars, envVars, ReaderEnds, ServerExecutes, ServerCloses,
        ConnectionLost, ServerExecutesOrphan, connVars
<1>4. CASE Connect
    BY <1>4, Zenon DEF Wakeups, Connect, callerVars, commandVars, connVars
<1>5. ASSUME NEW c \in Commands, BeginQuit(c)
      PROVE  Wakeups'
    BY <1>5, Zenon DEF Wakeups, TypeOK, CommandTypes, BeginQuit, CloseSink, Answer, envVars
<1>6. CASE ReceiveCommand
    BY <1>6, Zenon DEF Wakeups, ReceiveCommand, policyVars, callerVars, commandVars,
        connVars, envVars
<1>7. CASE ReceiveReconnect
    BY <1>7, Zenon DEF Wakeups, ReceiveReconnect, Working, StartReconnect, callerVars,
        commandVars, envVars, CloseSink
<1>8. CASE WriteRefused
    BY <1>8, Zenon DEF Wakeups, TypeOK, CommandTypes, WriteRefused, Tried, Ignored, Answer,
        policyVars, connVars, envVars
<1>9. CASE MissingConnection
    BY <1>9, Zenon DEF Wakeups, MissingConnection, Tried, ReceiverGone, WithChannel,
        policyVars, callerVars, connVars, envVars
<1>10. CASE WriteTimedOut
    BY <1>10, Zenon DEF Wakeups, TypeOK, CommandTypes, WriteTimedOut, TimedOut, Tried,
        Ignored, policyVars, connVars, envVars
<1>11. CASE ApplyBackpressure
    BY <1>11, Zenon DEF Wakeups, TypeOK, CommandTypes, Shape, Sending, ApplyBackpressure,
        CanWrite, Tried, Ignored, Answer, WithChannel, Receiver, policyVars,
        connVars, envVars, TimedOut
<1>12. CASE SleepElapsed
    BY <1>12, Zenon DEF Wakeups, SleepElapsed, policyVars, callerVars, commandVars,
        connVars, envVars
<1>13. CASE PushCommand
    BY <1>13 DEF Wakeups, TypeOK, CommandTypes, Shape, Sending, RouterTypes,
        StreamTypes, Range, PushCommand, CanWrite, Tried, Answer, Receiver,
        WithChannel, policyVars, envVars, TimedOut
<1>14. CASE WriteFrame
    BY <1>14, Zenon DEF Wakeups, WriteFrame, policyVars, callerVars, commandVars, envVars
<1>15. CASE CountFrame
    BY <1>15, Zenon DEF Wakeups, CountFrame, IncrInFlight, policyVars, callerVars,
        commandVars, envVars
<1>16. CASE WriteFails
    BY Zenon, <1>16, WriteFailsWakeups
<1>17. CASE RouterUnblocked
    BY <1>17, Zenon DEF Wakeups, RouterUnblocked, CloseSink, policyVars, callerVars,
        commandVars, envVars
<1>18. CASE RouterSeesClose
    BY <1>18, Zenon DEF Wakeups, RouterSeesClose, Answer, StartReconnect, commandVars,
        envVars, CloseSink
<1>19. CASE ClosedAfterWrite
    BY <1>19, Zenon DEF Wakeups, ClosedAfterWrite, ReaderGone, ReleaseConnection, Requeue,
        policyVars, callerVars, commandVars, Optional
<1>20. CASE ClosedBeforeConnect
    BY <1>20, Zenon DEF Wakeups, ClosedBeforeConnect, ReaderGone, ReleaseConnection,
        Requeue, policyVars, callerVars, commandVars, Optional
<1>21. CASE ClosedAndStopped
    BY <1>21, Zenon DEF Wakeups, ClosedAndStopped, ReaderGone, ReleaseConnection, Dropped,
        Answer
<1>22. CASE DelayElapsed
    BY <1>22, Zenon DEF Wakeups, DelayElapsed, CloseSink, callerVars, commandVars, envVars
<1>23. CASE ConnectionMade
    BY <1>23, Zenon DEF Wakeups, ConnectionMade, policyVars, callerVars, commandVars,
        envVars
<1>24. CASE ConnectionRefused
    BY <1>24, Zenon DEF Wakeups, ConnectionRefused, StartReconnect, callerVars,
        commandVars, CloseSink
<1>25. CASE ReplayCommand
    BY <1>25, Zenon DEF Wakeups, TypeOK, CommandTypes, ReplayCommand, TimedOut, Answer,
        policyVars, envVars
<1>26. CASE ReplayFinished
    BY <1>26, Zenon DEF Wakeups, ReplayFinished, AfterReconnect, CloseSink, callerVars,
        commandVars, envVars
<1>27. CASE ClosedDuringReplay
    BY <1>27, Zenon DEF Wakeups, ClosedDuringReplay, ReaderGone, ReleaseConnection,
        Requeue, Dropped, AfterReconnect, Answer, Optional
<1>28. CASE ReadResponse
    BY Zenon, <1>28, ReadResponseWakeups
<1>29. CASE ReaderSeesEnd
    BY <1>29, CheckBlockedWakeups, Zenon DEF ReaderSeesEnd
<1>30. CASE CheckFinalAttempt
    BY Zenon, <1>30, CheckFinalWakeups
<1>31. CASE ReaderFails
    BY <1>31, CheckBlockedWakeups, Zenon DEF ReaderFails
<1> QED
    BY Zenon, <1>1, <1>2, <1>3, <1>4, <1>5, <1>6, <1>7, <1>8, <1>9, <1>10, <1>11, <1>12,
        <1>13, <1>14, <1>15, <1>16, <1>17, <1>18, <1>19, <1>20, <1>21, <1>22, <1>23,
        <1>24, <1>25, <1>26, <1>27, <1>28, <1>29, <1>30, <1>31
    DEF Next, CallerNext, RouterNext, ReaderNext, ServerNext, FaultNext

(* The invariant holds in the initial state. *)
LEMMA InvInit ==
    ASSUME Init
    PROVE  Inv
<1>1. TypeOK /\ Shape
    BY Zenon, TypeInit
<1>2. Replayable
    BY DEF Init, Replayable
<1>3. InStep /\ CounterLag
    BY Zenon DEF Init, InStep, CounterLag
<1>4. Wakeups
    BY Zenon DEF Init, Wakeups
<1> QED
    BY <1>1, <1>2, <1>3, <1>4, Zenon DEF Inv

(* Every step keeps the invariant. *)
LEMMA InvStep ==
    ASSUME Inv, [Next]_vars
    PROVE  Inv'
    BY TypeStep, ReplayableStep, InStepStep, CounterLagStep, WakeupsStep, Zenon DEF Inv

(* Inv is an invariant of the client. *)
THEOREM Invariance == Spec => []Inv
<1>1. Init => Inv
    BY Zenon, InvInit
<1>2. Inv /\ [Next]_vars => Inv'
    BY Zenon, InvStep
<1> QED
    BY <1>1, <1>2, PTL DEF Spec

(* process_response_frame answers the right caller: for any number of commands,
   faults, reconnections and connect() calls, the front of the shared buffer is
   the command the next response belongs to. *)
THEOREM ResponsesMatch == Spec => []ResponseMatchesRequest
<1>1. ASSUME Inv
      PROVE  ResponseMatchesRequest
  <2> SUFFICES ASSUME reader = "reading", replies # <<>>, buffer # <<>>
               PROVE  Head(buffer) = Head(replies)
      BY Zenon DEF ResponseMatchesRequest
  <2>1. /\ buffer \in Seq(Commands) /\ replies \in Seq(Commands)
        /\ requests \in Seq(Commands)
      BY <1>1, Zenon DEF Inv, TypeOK, StreamTypes
  <2>2. Len(Stream) >= 1 /\ Stream[1] = replies[1]
      BY <2>1 DEF Stream
  <2>3. buffer[1] = Stream[1]
      BY <1>1, <2>1, <2>2 DEF Inv, InStep
  <2> QED
      BY <2>1, <2>2, <2>3
<1> QED
    BY <1>1, Invariance, PTL

(* check_backpressure reads an exact counter, for any number of commands and
   however the two tasks interleave, as long as every command has a response. *)
THEOREM InFlightExact == NoResponses = {} => (Spec => []InFlightIsExact)
<1> SUFFICES ASSUME NoResponses = {}
             PROVE  Spec => []InFlightIsExact
    OBVIOUS
<1>1. ASSUME Inv
      PROVE  InFlightIsExact
  <2>1. inFlight \in Int
      BY <1>1, Zenon DEF Inv, TypeOK, StreamTypes
  <2> QED
      BY <1>1, <2>1 DEF Inv, CounterLag, InFlightIsExact, Closing, Sending
<1> QED
    BY <1>1, Invariance, PTL

(* A router blocked on a response always has its waker on the connection it
   holds: what write_with_backpressure waits for is never dropped unnoticed. *)
THEOREM WakerExists == Spec => []BlockedRouterHasWaker
<1>1. Inv => BlockedRouterHasWaker
    BY Zenon DEF Inv, Shape, Wakeups, BlockedRouterHasWaker
<1> QED
    BY <1>1, Invariance, PTL
=============================================================================
