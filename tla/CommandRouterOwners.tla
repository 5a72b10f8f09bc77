------------------------- MODULE CommandRouterOwners ------------------------
(***************************************************************************)
(* Proofs about CommandRouter, third part: closing, replaying and reading  *)
(* move a command too, so it is in one place, for every set of commands,   *)
(* every configuration and any number of faults; the client implements     *)
(* RequestService; a command whose caller gave up is not written; and      *)
(* callers are answered in the order of their sends.                       *)
(***************************************************************************)
EXTENDS CommandRouterMoves

(* buffer_commands and buffer_command keep each command once. *)
Requeued(kept, drained, failed, t) == t = Requeue(kept, drained, failed)

LEMMA RequeuedCount ==
    ASSUME TypeOK, NEW c \in Commands, NEW f \in Commands \cup {NoCommand},
           Requeued(retry, buffer, f, retry')
    PROVE  /\ f = c => Occurrences(retry', c) = Occurrences(retry, c) + Occurrences(buffer, c) + 1
           /\ f # c => Occurrences(retry', c) = Occurrences(retry, c) + Occurrences(buffer, c)
<1> DEFINE u == retry \o buffer
<1>1. /\ Joined(retry, buffer, u) /\ retry \in Seq(Commands) /\ buffer \in Seq(Commands)
      /\ c # NoCommand
    BY CommandsAssumption, Zenon DEF Joined, TypeOK, RouterTypes, StreamTypes
<1>2. f = NoCommand => retry' = u
    BY <1>1 DEF Requeued, Requeue, Optional
<1>3. f # NoCommand => Pushed(u, f, retry')
    BY <1>1 DEF Requeued, Requeue, Optional, Pushed
<1> HIDE DEF u
<1>4. u \in Seq(Commands) /\ Occurrences(u, c) = Occurrences(retry, c) + Occurrences(buffer, c)
    BY <1>1, JoinedCount
<1>5. Occurrences(u, c) \in Nat
    BY Zenon, <1>4, PositionsFinite
<1>6. CASE f = NoCommand
    BY Zenon, <1>1, <1>2, <1>4, <1>6
<1>7. CASE f # NoCommand
  <2>1. /\ f = c => Occurrences(retry', c) = Occurrences(u, c) + 1
        /\ f # c => Occurrences(retry', c) = Occurrences(u, c)
      BY <1>3, <1>4, <1>5, <1>7, PushedCount
  <2> QED
      BY Zenon, <1>4, <2>1
<1> QED
    BY Zenon, <1>6, <1>7

LEMMA ClosedOwned ==
    ASSUME Inv, OwnerInv, NEW c \in Commands, ClosedAfterWrite \/ ClosedBeforeConnect
    PROVE  Owned(c)'
<1> /\ TypeOK /\ Shape /\ Hands /\ Wakeups /\ Owned(c)
    /\ Occurrences(chan, c) \in Nat /\ Occurrences(buffer, c) \in Nat
    /\ Occurrences(retry, c) \in Nat /\ Occurrences(replay, c) \in Nat
    /\ Owners(c) \in Nat /\ (Owners(c) # 0 => ~NotSent(c))
    BY Zenon, OwnerFacts
<1>1. /\ UNCHANGED <<chan, replay, cmd, outcome, attempted>> /\ buffer' = <<>>
      /\ retry \in Seq(Commands) /\ buffer \in Seq(Commands)
      /\ sending \in Commands \cup {NoCommand} /\ c # NoCommand
      /\ pc' \in {"recv", "connect"}
    BY CommandsAssumption, Zenon DEF ClosedAfterWrite, ClosedBeforeConnect, ReleaseConnection, TypeOK,
        RouterTypes, StreamTypes, callerVars, commandVars
<1>2. Occurrences(buffer', c) = 0
    BY Zenon, <1>1, OccurrencesEmpty
<1>3. CASE ClosedAfterWrite
  <2>1. pc = "closeWrite" /\ Requeued(retry, buffer, sending, retry')
      BY <1>3, Zenon DEF ClosedAfterWrite, Requeued
  <2>2. /\ sending = c => Occurrences(retry', c) = Occurrences(retry, c) + Occurrences(buffer, c) + 1
        /\ sending # c => Occurrences(retry', c) = Occurrences(retry, c) + Occurrences(buffer, c)
      BY Zenon, <1>1, <2>1, RequeuedCount
  <2>3. Owners(c)' = Owners(c)
      BY <1>1, <1>2, <2>1, <2>2 DEF Owners, InHand, GivenBack
  <2> QED
      BY Zenon, <1>1, <2>3, OwnedMoved
<1>4. CASE ClosedBeforeConnect
  <2>1. /\ pc = "closeConnect" /\ Requeued(retry, buffer, NoCommand, retry')
        /\ NoCommand \in Commands \cup {NoCommand}
      BY <1>4, Zenon DEF ClosedBeforeConnect, Requeued
  <2>2. Occurrences(retry', c) = Occurrences(retry, c) + Occurrences(buffer, c)
      BY Zenon, <1>1, <2>1, RequeuedCount
  <2>3. Owners(c)' = Owners(c)
      BY <1>1, <1>2, <2>1, <2>2 DEF Owners, InHand, GivenBack
  <2> QED
      BY Zenon, <1>1, <2>3, OwnedMoved
<1> QED
    BY Zenon, <1>3, <1>4

LEMMA ClosedDuringReplayOwned ==
    ASSUME Inv, OwnerInv, NEW c \in Commands, ClosedDuringReplay
    PROVE  Owned(c)'
<1> /\ TypeOK /\ Shape /\ Hands /\ Wakeups /\ Owned(c)
    /\ Occurrences(chan, c) \in Nat /\ Occurrences(buffer, c) \in Nat
    /\ Occurrences(retry, c) \in Nat /\ Occurrences(replay, c) \in Nat
    /\ Owners(c) \in Nat /\ (Owners(c) # 0 => ~NotSent(c))
    BY Zenon, OwnerFacts
<1>1. /\ UNCHANGED <<chan, cmd, attempted>> /\ buffer' = <<>> /\ replay' = <<>>
      /\ retry \in Seq(Commands) /\ buffer \in Seq(Commands) /\ replay \in Seq(Commands)
      /\ sending \in Commands \cup {NoCommand} /\ c # NoCommand
      /\ pc = "closeReplay" /\ pc' \in {"recv", "write", "closeStop"}
      /\ Requeued(retry, buffer, sending, retry')
      /\ outcome' = Answer(outcome, Range(replay), "canceled")
    BY CommandsAssumption, Zenon DEF ClosedDuringReplay, ReleaseConnection, AfterReconnect, Requeued,
        Dropped, TypeOK, RouterTypes, StreamTypes
<1>2. Occurrences(buffer', c) = 0 /\ Occurrences(replay', c) = 0
    BY Zenon, <1>1, OccurrencesEmpty
<1>3. /\ sending = c => Occurrences(retry', c) = Occurrences(retry, c) + Occurrences(buffer, c) + 1
      /\ sending # c => Occurrences(retry', c) = Occurrences(retry, c) + Occurrences(buffer, c)
    BY Zenon, <1>1, RequeuedCount
<1>4. c \in Range(replay) <=> Occurrences(replay, c) > 0
    BY Zenon, <1>1, OccurrencesMember
<1>5. (InHand(c)' <=> InHand(c)) /\ (GivenBack(c) <=> sending = c) /\ ~GivenBack(c)'
    BY <1>1, Zenon DEF InHand, GivenBack
<1>6. CASE c \in Range(replay)
  <2>1. Owners(c)' \in Nat /\ Owners(c)' <= Owners(c)
    <3>0. chan' = chan
        BY Zenon, <1>1
    <3>1. CASE sending = c
        BY <1>2, <1>3, <1>5, <3>0, <3>1 DEF Owners
    <3>2. CASE sending # c
        BY <1>2, <1>3, <1>5, <3>0, <3>2 DEF Owners
    <3> QED
        BY Zenon, <3>1, <3>2
  <2>2. ~NotSent(c)
      BY <1>4, <1>6 DEF Owners
  <2>3. outcome'[c] \in Final
      BY <1>1, <1>6, <2>2, AnswerOf, FinallyAnswered, Zenon DEF Final
  <2> QED
      BY Zenon, <2>1, <2>3, OwnedAnswered
<1>7. CASE c \notin Range(replay)
  <2>1. Owners(c)' = Owners(c)
      BY <1>1, <1>2, <1>3, <1>4, <1>5, <1>7 DEF Owners
  <2>2. outcome'[c] = outcome[c]
      BY Zenon, <1>1, <1>7, AnswerOf
  <2> QED
      BY Zenon, <1>1, <2>1, <2>2, OwnedMoved
<1> QED
    BY Zenon, <1>6, <1>7

LEMMA ClosedAndStoppedOwned ==
    ASSUME Inv, OwnerInv, NEW c \in Commands, ClosedAndStopped
    PROVE  Owned(c)'
<1> /\ TypeOK /\ Shape /\ Hands /\ Wakeups /\ Owned(c)
    /\ Occurrences(chan, c) \in Nat /\ Occurrences(buffer, c) \in Nat
    /\ Occurrences(retry, c) \in Nat /\ Occurrences(replay, c) \in Nat
    /\ Owners(c) \in Nat /\ (Owners(c) # 0 => ~NotSent(c))
    BY Zenon, OwnerFacts
<1> DEFINE gone == Range(retry) \cup Range(buffer) \cup {cmd}
<1>1. /\ UNCHANGED <<chan, replay, sending, attempted>> /\ buffer' = <<>> /\ retry' = <<>>
      /\ retry \in Seq(Commands) /\ buffer \in Seq(Commands)
      /\ pc = "closeStop" /\ pc' = "stopped" /\ cmd' = NoCommand /\ c # NoCommand
      /\ outcome' = Answer(outcome, gone, "canceled")
    BY CommandsAssumption, Zenon DEF ClosedAndStopped, ReleaseConnection, Dropped, TypeOK,
        RouterTypes, StreamTypes
<1>2. Occurrences(buffer', c) = 0 /\ Occurrences(retry', c) = 0
    BY Zenon, <1>1, OccurrencesEmpty
<1>3. /\ c \in Range(retry) <=> Occurrences(retry, c) > 0
      /\ c \in Range(buffer) <=> Occurrences(buffer, c) > 0
    BY Zenon, <1>1, OccurrencesMember
<1>4. /\ InHand(c) <=> c = cmd
      /\ ~InHand(c)' /\ ~GivenBack(c) /\ ~GivenBack(c)'
    BY <1>1, Zenon DEF InHand, GivenBack
<1>5. CASE c \in gone
  <2>1. Owners(c)' \in Nat /\ Owners(c)' <= Owners(c)
      BY <1>1, <1>2, <1>4 DEF Owners
  <2>2. ~NotSent(c)
      BY <1>3, <1>4, <1>5 DEF Owners
  <2>3. outcome'[c] \in Final
      BY <1>1, <1>5, <2>2, AnswerOf, FinallyAnswered, Zenon DEF Final
  <2> QED
      BY Zenon, <2>1, <2>3, OwnedAnswered
<1>6. CASE c \notin gone
  <2>1. Owners(c)' = Owners(c)
      BY <1>1, <1>2, <1>3, <1>4, <1>6 DEF Owners
  <2>2. outcome'[c] = outcome[c]
      BY Zenon, <1>1, <1>6, AnswerOf
  <2> QED
      BY Zenon, <1>1, <2>1, <2>2, OwnedMoved
<1> QED
    BY Zenon, <1>5, <1>6

LEMMA ConnectionMadeOwned ==
    ASSUME Inv, OwnerInv, NEW c \in Commands, ConnectionMade
    PROVE  Owned(c)'
<1> /\ TypeOK /\ Shape /\ Hands /\ Wakeups /\ Owned(c)
    /\ Occurrences(chan, c) \in Nat /\ Occurrences(buffer, c) \in Nat
    /\ Occurrences(retry, c) \in Nat /\ Occurrences(replay, c) \in Nat
    /\ Owners(c) \in Nat /\ (Owners(c) # 0 => ~NotSent(c))
    BY Zenon, OwnerFacts
<1>1. /\ UNCHANGED <<chan, buffer, cmd, sending, outcome, attempted>>
      /\ replay = <<>> /\ replay' = retry /\ retry' = <<>>
      /\ pc = "connect" /\ pc' = "replay"
    BY Zenon DEF ConnectionMade, Hands, callerVars, commandVars
<1>2. Occurrences(replay, c) = 0 /\ Occurrences(retry', c) = 0
    BY Zenon, <1>1, OccurrencesEmpty
<1>3. Owners(c)' = Owners(c)
    BY <1>1, <1>2 DEF Owners, InHand, GivenBack
<1> QED
    BY Zenon, <1>1, <1>3, OwnedMoved

LEMMA ReplayCommandOwned ==
    ASSUME Inv, OwnerInv, NEW c \in Commands, ReplayCommand
    PROVE  Owned(c)'
<1> /\ TypeOK /\ Shape /\ Hands /\ Wakeups /\ Owned(c)
    /\ Occurrences(chan, c) \in Nat /\ Occurrences(buffer, c) \in Nat
    /\ Occurrences(retry, c) \in Nat /\ Occurrences(replay, c) \in Nat
    /\ Owners(c) \in Nat /\ (Owners(c) # 0 => ~NotSent(c))
    BY Zenon, OwnerFacts
<1> DEFINE d == Head(replay)
<1>1. /\ Popped(replay, d, replay') /\ replay \in Seq(Commands) /\ buffer \in Seq(Commands)
      /\ UNCHANGED <<chan, retry, cmd>> /\ pc = "replay" /\ pc' \in {"replay", "rframe"}
    BY Zenon DEF Popped, ReplayCommand, TypeOK, RouterTypes, StreamTypes
<1>2. /\ attempted' \in {attempted, [attempted EXCEPT ![d] = @ + 1]}
      /\ \/ outcome[d] = "timeout" /\ outcome' = outcome /\ buffer' = buffer
         \/ outcome' = Answer(outcome, {d}, "attempts") /\ buffer' = buffer
         \/ outcome' = outcome /\ Pushed(buffer, d, buffer')
    BY Zenon DEF ReplayCommand, TimedOut, Pushed
<1> HIDE DEF d
<1>3. /\ d = c => Occurrences(replay, c) = Occurrences(replay', c) + 1
      /\ d # c => Occurrences(replay, c) = Occurrences(replay', c)
      /\ Occurrences(replay', c) \in Nat /\ d \in Commands
    BY <1>1, PoppedCount, PositionsFinite
<1>4. (InHand(c)' <=> InHand(c)) /\ ~GivenBack(c) /\ ~GivenBack(c)'
    BY <1>1, Zenon DEF InHand, GivenBack
<1>5. d # c => attempted'[c] = attempted[c]
    BY <1>2, <1>3, Zenon DEF TypeOK, CommandTypes
<1>6. d = c => ~NotSent(c)
    BY <1>3 DEF Owners
<1>7. CASE outcome' = outcome /\ Pushed(buffer, d, buffer')
  <2>1. /\ d = c => Occurrences(buffer', c) = Occurrences(buffer, c) + 1
        /\ d # c => Occurrences(buffer', c) = Occurrences(buffer, c)
      BY <1>1, <1>3, <1>7, PushedCount
  <2>2. Owners(c)' = Owners(c)
      BY <1>1, <1>3, <1>4, <2>1 DEF Owners
  <2> QED
      BY Zenon, <1>5, <1>6, <1>7, <2>2, OwnedMoved
<1>8. CASE \/ outcome[d] = "timeout" /\ outcome' = outcome /\ buffer' = buffer
           \/ outcome' = Answer(outcome, {d}, "attempts") /\ buffer' = buffer
  <2>1. CASE d # c
    <3>1. Owners(c)' = Owners(c) /\ outcome'[c] = outcome[c]
        BY <1>1, <1>3, <1>4, <1>8, <2>1, AnswerOf DEF Owners
    <3> QED
        BY Zenon, <1>5, <2>1, <3>1, OwnedMoved
  <2>2. CASE d = c
    <3>1. Owners(c)' \in Nat /\ Owners(c)' <= Owners(c)
        BY <1>1, <1>3, <1>4, <1>8, <2>2 DEF Owners
    <3>2. outcome'[c] \in Final
        BY <1>6, <1>8, <2>2, AnswerOf, FinallyAnswered, Zenon DEF Final
    <3> QED
        BY Zenon, <3>1, <3>2, OwnedAnswered
  <2> QED
      BY Zenon, <2>1, <2>2
<1> QED
    BY Zenon, <1>2, <1>7, <1>8

(* The message that wakes the router up takes no command out of its hands. *)
LEMMA WokenInHand ==
    ASSUME Inv, OwnerInv, NEW c \in Commands, UNCHANGED <<pc, cmd>>,
           \/ rx' = rx
           \/ rx' \in {"continue", "dropped"} /\ rx = "empty"
    PROVE  InHand(c)' <=> InHand(c)
    BY Zenon DEF InHand

LEMMA ReadResponseOwned ==
    ASSUME Inv, OwnerInv, NEW c \in Commands, ReadResponse
    PROVE  Owned(c)'
<1> /\ TypeOK /\ Shape /\ Hands /\ Wakeups /\ Owned(c)
    /\ Occurrences(chan, c) \in Nat /\ Occurrences(buffer, c) \in Nat
    /\ Occurrences(retry, c) \in Nat /\ Occurrences(replay, c) \in Nat
    /\ Owners(c) \in Nat /\ (Owners(c) # 0 => ~NotSent(c))
    BY Zenon, OwnerFacts
<1>1. UNCHANGED <<chan, retry, replay, cmd, pc, sending, attempted>>
    BY Zenon DEF ReadResponse
<1>2. CASE buffer = <<>>
  <2>1. Owners(c)' = Owners(c) /\ outcome' = outcome
      BY <1>1, <1>2, Zenon DEF ReadResponse, Owners, InHand, GivenBack
  <2> QED
      BY Zenon, <1>1, <2>1, OwnedMoved
<1>3. CASE buffer # <<>>
  <2> DEFINE d == Head(buffer)
  <2>1. /\ Popped(buffer, d, buffer') /\ buffer \in Seq(Commands) /\ d \in Commands
        /\ outcome' = Answer(outcome, {d}, "ok")
      BY <1>3 DEF Popped, ReadResponse, TypeOK, StreamTypes
  <2>2. rx' = rx \/ (rx' = "continue" /\ rx = "empty")
      BY <1>3, <2>1, Zenon DEF ReadResponse, Unblock, Wakeups
  <2> HIDE DEF d
  <2>3. /\ d = c => Occurrences(buffer, c) = Occurrences(buffer', c) + 1
        /\ d # c => Occurrences(buffer, c) = Occurrences(buffer', c)
        /\ Occurrences(buffer', c) \in Nat
      BY <2>1, PoppedCount, PositionsFinite
  <2>4. (InHand(c)' <=> InHand(c)) /\ (GivenBack(c)' <=> GivenBack(c))
      BY <1>1, <2>2, WokenInHand, Zenon DEF GivenBack
  <2>5. CASE d # c
    <3>1. Owners(c)' = Owners(c) /\ outcome'[c] = outcome[c]
        BY <1>1, <2>1, <2>3, <2>4, <2>5, AnswerOf, Zenon DEF Owners
    <3> QED
        BY Zenon, <1>1, <3>1, OwnedMoved
  <2>6. CASE d = c
    <3>1. Owners(c)' \in Nat /\ Owners(c)' <= Owners(c) /\ Owners(c) # 0
        BY <1>1, <2>3, <2>4, <2>6 DEF Owners
    <3>2. outcome'[c] \in Final
        BY <2>1, <2>6, <3>1, AnswerOf, FinallyAnswered, Zenon DEF Final
    <3> QED
        BY Zenon, <3>1, <3>2, OwnedAnswered
  <2> QED
      BY Zenon, <2>5, <2>6
<1> QED
    BY Zenon, <1>2, <1>3

LEMMA CheckBlockedOwned ==
    ASSUME Inv, OwnerInv, NEW c \in Commands, CheckBlockedRouter,
           UNCHANGED <<chan, retry, replay, cmd, pc, sending, attempted>>
    PROVE  Owned(c)'
<1> /\ TypeOK /\ Shape /\ Hands /\ Wakeups /\ Owned(c)
    /\ Occurrences(chan, c) \in Nat /\ Occurrences(buffer, c) \in Nat
    /\ Occurrences(retry, c) \in Nat /\ Occurrences(replay, c) \in Nat
    /\ Owners(c) \in Nat /\ (Owners(c) # 0 => ~NotSent(c))
    BY Zenon, OwnerFacts
<1> DEFINE d == Head(buffer)
<1>1. CASE buffer = <<>> \/ tx[d] = "none"
  <2>1. Owners(c)' = Owners(c) /\ outcome' = outcome
      BY <1>1, Zenon DEF CheckBlockedRouter, Owners, InHand, GivenBack
  <2> QED
      BY Zenon, <2>1, OwnedMoved
<1>2. CASE buffer # <<>> /\ tx[d] # "none"
  <2>1. /\ Popped(buffer, d, buffer') /\ buffer \in Seq(Commands) /\ d \in Commands
        /\ d \in Range(buffer)
        /\ rx' = Unblock(d, "closed")
        /\ outcome' = IF tx[d] = "live" THEN outcome ELSE Answer(outcome, {d}, "canceled")
      BY <1>2 DEF Popped, CheckBlockedRouter, Dropped, TypeOK, StreamTypes, Range
  <2> HIDE DEF d
  <2>2. /\ d = c => Occurrences(buffer, c) = Occurrences(buffer', c) + 1
        /\ d # c => Occurrences(buffer, c) = Occurrences(buffer', c)
        /\ Occurrences(buffer', c) \in Nat
      BY <2>1, PoppedCount, PositionsFinite
  <2>3. GivenBack(c)' <=> GivenBack(c)
      BY Zenon DEF GivenBack
  <2>4. CASE tx[d] = "live"
    <3>1. rx = "empty" /\ rx' = "closed" /\ d = cmd /\ outcome' = outcome
        BY <2>1, <2>4, Zenon DEF Wakeups, Unblock
    <3>2. pc \in {"frame", "count", "await"}
        BY <2>1, <2>4, <3>1, WakesWritten, Zenon DEF Wakeups
    <3>3. ~InHand(c) /\ (InHand(c)' <=> c = d)
        BY <3>1, <3>2, Zenon DEF InHand
    <3>4. Owners(c)' = Owners(c)
        BY <2>2, <2>3, <3>3 DEF Owners
    <3> QED
        BY Zenon, <3>1, <3>4, OwnedMoved
  <2>5. CASE tx[d] # "live"
    <3>1. InHand(c)' <=> InHand(c)
        BY <2>1, <2>5, Zenon DEF Unblock, InHand
    <3>2. CASE d # c
      <4>1. Owners(c)' = Owners(c) /\ outcome'[c] = outcome[c]
          BY <2>1, <2>2, <2>3, <2>5, <3>1, <3>2, AnswerOf, Zenon DEF Owners
      <4> QED
          BY Zenon, <4>1, OwnedMoved
    <3>3. CASE d = c
      <4>1. Owners(c)' \in Nat /\ Owners(c)' <= Owners(c) /\ Owners(c) # 0
          BY <2>2, <2>3, <3>1, <3>3 DEF Owners
      <4>2. outcome'[c] \in Final
          BY <2>1, <2>5, <3>3, <4>1, AnswerOf, FinallyAnswered, Zenon DEF Final
      <4> QED
          BY Zenon, <4>1, <4>2, OwnedAnswered
    <3> QED
        BY Zenon, <3>2, <3>3
  <2> QED
      BY Zenon, <2>4, <2>5
<1> QED
    BY Zenon, <1>1, <1>2

LEMMA CheckFinalOwned ==
    ASSUME Inv, OwnerInv, NEW c \in Commands, CheckFinalAttempt
    PROVE  Owned(c)'
<1> /\ TypeOK /\ Shape /\ Hands /\ Wakeups /\ Owned(c)
    /\ Occurrences(chan, c) \in Nat /\ Occurrences(buffer, c) \in Nat
    /\ Occurrences(retry, c) \in Nat /\ Occurrences(replay, c) \in Nat
    /\ Owners(c) \in Nat /\ (Owners(c) # 0 => ~NotSent(c))
    BY Zenon, OwnerFacts
<1>1. /\ UNCHANGED <<chan, retry, replay, cmd, pc, sending, attempted>>
      /\ Filtered(buffer, OnFinalAttempt, buffer') /\ buffer \in Seq(Commands)
      /\ outcome' = Answer(outcome, OnFinalAttempt, "error")
    BY Zenon DEF CheckFinalAttempt, Filtered, TypeOK, StreamTypes
<1>2. OnFinalAttempt \subseteq Range(buffer) /\ Range(buffer) \subseteq Commands
    BY DEF OnFinalAttempt, TypeOK, StreamTypes, Range
<1>3. rx' = rx \/ (rx' = "dropped" /\ rx = "empty")
    BY <1>2, Zenon DEF CheckFinalAttempt, Wakeups
<1>4. (InHand(c)' <=> InHand(c)) /\ (GivenBack(c)' <=> GivenBack(c))
    BY <1>1, <1>3, WokenInHand, Zenon DEF GivenBack
<1>5. /\ Occurrences(buffer', c) <= Occurrences(buffer, c)
      /\ c \notin OnFinalAttempt /\ Occurrences(buffer, c) > 0 => Occurrences(buffer', c) > 0
    BY Zenon, <1>1, FilteredCount
<1>6. Occurrences(buffer', c) \in Nat
    BY Zenon, <1>1, FilteredCount, PositionsFinite
<1>7. CASE c \in OnFinalAttempt
  <2>1. Occurrences(buffer, c) > 0
      BY Zenon, <1>1, <1>2, <1>7, OccurrencesMember
  <2>2. ~InHand(c) /\ ~GivenBack(c) /\ Owners(c) # 0
      BY <2>1 DEF Owned, Owners
  <2>3. Owners(c)' \in Nat /\ Owners(c)' <= Owners(c)
      BY <1>1, <1>4, <1>5, <1>6, <2>2 DEF Owners
  <2>4. outcome'[c] \in Final
      BY <1>1, <1>7, <2>2, AnswerOf, FinallyAnswered, Zenon DEF Final
  <2> QED
      BY Zenon, <2>3, <2>4, OwnedAnswered
<1>8. CASE c \notin OnFinalAttempt
  <2>1. Occurrences(buffer, c) <= 1
      BY DEF Owned, Owners
  <2>2. Occurrences(buffer', c) = Occurrences(buffer, c)
      BY <1>5, <1>6, <1>8, <2>1
  <2>3. Owners(c)' = Owners(c) /\ outcome'[c] = outcome[c]
      BY <1>1, <1>4, <1>8, <2>2, AnswerOf, Zenon DEF Owners
  <2> QED
      BY Zenon, <1>1, <2>3, OwnedMoved
<1> QED
    BY Zenon, <1>7, <1>8

(* Every step keeps every command in at most one place. *)
LEMMA OwnedStep ==
    ASSUME Inv, OwnerInv, [Next]_vars, NEW c \in Commands
    PROVE  Owned(c)'
<1>1. CASE \/ UNCHANGED vars \/ Connect \/ SleepElapsed \/ WriteFrame \/ CountFrame
           \/ RouterUnblocked \/ DelayElapsed \/ ConnectionRefused \/ ReplayFinished
           \/ ReaderEnds \/ ServerExecutes \/ ServerCloses \/ ConnectionLost
           \/ \E d \in Commands : ServerExecutesOrphan(d)
    BY Zenon, <1>1, StayingOwned
<1>2. CASE ForceReconnection
    BY <1>2, MessageOwned, Zenon DEF ForceReconnection, Pushed, callerVars, commandVars, routerVars, connVars
<1>3. CASE NotifyRouter
  <2>1. CASE ShouldReconnect
      BY <1>3, <2>1, MessageOwned, Zenon DEF NotifyRouter, Pushed, callerVars, commandVars, routerVars
  <2>2. CASE ~ShouldReconnect
    <3>1. Owners(c)' = Owners(c) /\ UNCHANGED <<outcome, attempted>>
        BY <1>3, <2>2, Zenon DEF NotifyRouter, Owners, InHand, GivenBack, callerVars, commandVars,
            routerVars
    <3> QED
        BY Zenon, <3>1, OwnerFacts, OwnedMoved
  <2> QED
      BY Zenon, <2>1, <2>2
<1>4. ASSUME NEW d \in Commands, Send(d) \/ BeginQuit(d) \/ TimeOut(d)
      PROVE  Owned(c)'
    BY Zenon, <1>4, SendOwned, BeginQuitOwned, TimeOutOwned
<1>5. CASE ReceiveCommand \/ ReceiveReconnect
    BY Zenon, <1>5, ReceiveCommandOwned, ReceiveReconnectOwned
<1>6. CASE WriteRefused \/ WriteTimedOut \/ ApplyBackpressure \/ MissingConnection \/ PushCommand
    BY Zenon, <1>6, IgnoredOwned, ApplyBackpressureOwned, MissingConnectionOwned, PushCommandOwned
<1>7. CASE WriteFails \/ RouterSeesClose
    BY Zenon, <1>7, WriteFailsOwned, RouterSeesCloseOwned
<1>8. CASE ClosedAfterWrite \/ ClosedBeforeConnect \/ ClosedDuringReplay \/ ClosedAndStopped
    BY Zenon, <1>8, ClosedOwned, ClosedDuringReplayOwned, ClosedAndStoppedOwned
<1>9. CASE ConnectionMade \/ ReplayCommand
    BY Zenon, <1>9, ConnectionMadeOwned, ReplayCommandOwned
<1>10. CASE ReadResponse \/ CheckFinalAttempt
    BY Zenon, <1>10, ReadResponseOwned, CheckFinalOwned
<1>11. CASE ReaderSeesEnd \/ ReaderFails
    BY <1>11, CheckBlockedOwned, Zenon DEF ReaderSeesEnd, ReaderFails
<1> QED
    BY Zenon, <1>1, <1>2, <1>3, <1>4, <1>5, <1>6, <1>7, <1>8, <1>9, <1>10, <1>11
    DEF Next, CallerNext, RouterNext, ReaderNext, ServerNext, FaultNext

LEMMA OwnerInit ==
    ASSUME Init
    PROVE  OwnerInv
<1>1. Hands
    BY Zenon DEF Init, Hands, Reconnecting
<1>2. ASSUME NEW c \in Commands
      PROVE  Owned(c)
  <2>1. ~InHand(c) /\ ~GivenBack(c)
      BY CommandsAssumption, Zenon DEF Init, InHand, GivenBack
  <2>2. Owners(c) = 0
      BY <2>1, OccurrencesEmpty DEF Init, Owners
  <2> QED
      BY <2>2 DEF Init, Owned, NotSent
<1> QED
    BY <1>1, <1>2, Zenon DEF OwnerInv

(* The places of the commands, together with what the router holds. *)
THEOREM OwnerInvariance == Spec => [](Inv /\ OwnerInv)
<1>1. Init => OwnerInv
    BY Zenon, OwnerInit
<1>2. Inv /\ OwnerInv /\ [Next]_vars => OwnerInv'
    BY HandsStep, OwnedStep, Zenon DEF OwnerInv
<1>3. Spec => []Inv
    BY Zenon, Invariance
<1> QED
    BY <1>1, <1>2, <1>3, PTL DEF Spec

(* write_with_backpressure, write_command, graceful_close, retry_buffer and the reader task
   hand a command on and never copy or lose it: a command is in at most one of the command
   channel, the shared buffer, the retry buffer, the replay queue and the hands of the
   router, and in exactly one while its caller waits. *)
THEOREM EveryCommandOwned == Spec => []OneOwner
<1>1. OwnerInv => OneOwner
    BY Zenon DEF OwnerInv, Owned, OneOwner
<1> QED
    BY <1>1, OwnerInvariance, PTL

(***************************************************************************)
(* The frames of a command.                                                *)
(***************************************************************************)

(* A frame that push_command announced and write_frame has not written yet. *)
Pending(c) ==
    IF pc \in {"frame", "rframe"} /\ sending = c /\ c \notin NoResponses THEN 1 ELSE 0

(* All frames of a command there ever were: executed, on their way, or left behind. *)
Frames(c) == executed[c] + orphans[c] + Occurrences(requests, c) + Pending(c)

(* incr_check_attempted pays for each frame. *)
Counted(c) == Frames(c) <= attempted[c] /\ Frames(c) <= MaxAttempts

RepliesExecuted == \A i \in 1..Len(replies) : executed[replies[i]] > 0

FrameInv == RepliesExecuted /\ \A c \in Commands : Counted(c)

LEMMA FrameTypes ==
    ASSUME TypeOK, NEW c \in Commands
    PROVE  /\ executed[c] \in Nat /\ orphans[c] \in Nat /\ Occurrences(requests, c) \in Nat
           /\ Pending(c) \in {0, 1} /\ attempted[c] \in Nat /\ MaxAttempts \in Nat
           /\ requests \in Seq(Commands)
    BY Zenon, PositionsFinite, ConfigAssumption
    DEF TypeOK, ServerTypes, StreamTypes, CommandTypes, Pending

(* A step that makes no frame. *)
LEMMA CountedKept ==
    ASSUME TypeOK, NEW c \in Commands, Counted(c), UNCHANGED <<requests, orphans, executed>>,
           Pending(c)' <= Pending(c), Pending(c)' \in {0, 1},
           attempted'[c] \in {attempted[c], attempted[c] + 1}
    PROVE  Counted(c)'
    BY FrameTypes DEF Counted, Frames

(* A step that moves a frame. *)
LEMMA CountedMoved ==
    ASSUME NEW c \in Commands, Counted(c), Frames(c)' = Frames(c), attempted' = attempted
    PROVE  Counted(c)'
    BY Zenon DEF Counted

(* The steps of the callers, the reader task and the network. *)
LEMMA OthersCounted ==
    ASSUME TypeOK, NEW c \in Commands, Counted(c),
           \/ UNCHANGED vars \/ ForceReconnection \/ NotifyRouter \/ ReaderEnds
           \/ ServerCloses \/ ConnectionLost \/ ReadResponse \/ ReaderSeesEnd \/ ReaderFails
           \/ CheckFinalAttempt \/ \E d \in Commands : Send(d) \/ TimeOut(d)
    PROVE  Counted(c)'
<1>1. UNCHANGED <<requests, orphans, executed, attempted, pc, sending>>
    BY Zenon DEF ForceReconnection, NotifyRouter, ReaderEnds, ServerCloses, ConnectionLost,
        ReadResponse, ReaderSeesEnd, ReaderFails, CheckFinalAttempt, Send, TimeOut,
        commandVars, routerVars, connVars, envVars, vars
<1>2. Pending(c)' = Pending(c)
    BY <1>1, Zenon DEF Pending
<1> QED
    BY <1>1, <1>2, CountedKept, FrameTypes

(* The steps of the router that neither write nor close. *)
LEMMA RouterCounted ==
    ASSUME TypeOK, NEW c \in Commands, Counted(c),
           \/ Connect \/ ReceiveCommand \/ ReceiveReconnect \/ WriteRefused \/ WriteTimedOut
           \/ MissingConnection \/ ApplyBackpressure \/ SleepElapsed \/ CountFrame \/ WriteFails
           \/ RouterUnblocked \/ RouterSeesClose \/ DelayElapsed \/ ConnectionMade
           \/ ConnectionRefused \/ ReplayFinished \/ \E d \in Commands : BeginQuit(d)
    PROVE  Counted(c)'
<1>1. UNCHANGED <<requests, orphans, executed>>
    BY Zenon DEF Connect, ReceiveCommand, ReceiveReconnect, WriteRefused, WriteTimedOut,
        MissingConnection, ApplyBackpressure, SleepElapsed, CountFrame, WriteFails,
        RouterUnblocked, RouterSeesClose, DelayElapsed, ConnectionMade, ConnectionRefused,
        ReplayFinished, BeginQuit, connVars, envVars
<1>2. attempted' \in {attempted, Tried}
    BY Zenon DEF Connect, ReceiveCommand, ReceiveReconnect, WriteRefused, WriteTimedOut,
        MissingConnection, ApplyBackpressure, SleepElapsed, CountFrame, WriteFails,
        RouterUnblocked, RouterSeesClose, DelayElapsed, ConnectionMade, ConnectionRefused,
        ReplayFinished, BeginQuit, commandVars
<1>3. pc' \notin {"frame", "rframe"} \/ UNCHANGED <<pc, sending>>
    BY Zenon DEF Connect, ReceiveCommand, ReceiveReconnect, WriteRefused, WriteTimedOut,
        MissingConnection, ApplyBackpressure, SleepElapsed, CountFrame, WriteFails,
        RouterUnblocked, RouterSeesClose, DelayElapsed, ConnectionMade, ConnectionRefused,
        ReplayFinished, BeginQuit, Ignored, CanWrite, StartReconnect, AfterReconnect
<1>4. Pending(c)' <= Pending(c) /\ Pending(c)' \in {0, 1}
    BY <1>3 DEF Pending
<1>5. attempted'[c] \in {attempted[c], attempted[c] + 1}
    BY <1>2, Zenon DEF Tried, TypeOK, CommandTypes
<1> QED
    BY Zenon, <1>1, <1>4, <1>5, CountedKept

LEMMA PushedCounted ==
    ASSUME TypeOK, NEW c \in Commands, Counted(c), PushCommand \/ ReplayCommand
    PROVE  Counted(c)'
<1>1. UNCHANGED <<requests, orphans, executed>> /\ pc \in {"write", "replay"}
    BY Zenon DEF PushCommand, ReplayCommand, CanWrite, envVars
<1>2. Pending(c) = 0 /\ Pending(c)' \in {0, 1}
    BY <1>1, Zenon DEF Pending
<1>3. \/ Pending(c)' = 0 /\ attempted'[c] \in {attempted[c], attempted[c] + 1}
      \/ attempted'[c] = attempted[c] + 1 /\ attempted[c] < MaxAttempts
  <2>1. CASE PushCommand
      BY <2>1, Zenon DEF PushCommand, CanWrite, Tried, Pending, TypeOK, CommandTypes
  <2>2. CASE ReplayCommand
      BY <2>2, ConfigAssumption DEF ReplayCommand, Pending, TypeOK, CommandTypes
  <2> QED
      BY Zenon, <2>1, <2>2
<1>4. CASE Pending(c)' = 0 /\ attempted'[c] \in {attempted[c], attempted[c] + 1}
    BY <1>1, <1>2, <1>4, CountedKept
<1>5. CASE attempted'[c] = attempted[c] + 1 /\ attempted[c] < MaxAttempts
    BY <1>1, <1>2, <1>5, FrameTypes DEF Counted, Frames
<1> QED
    BY Zenon, <1>3, <1>4, <1>5

LEMMA WriteFrameCounted ==
    ASSUME TypeOK, Shape, NEW c \in Commands, Counted(c), WriteFrame
    PROVE  Counted(c)'
<1> /\ executed[c] \in Nat /\ orphans[c] \in Nat /\ Occurrences(requests, c) \in Nat
    /\ Pending(c) \in {0, 1} /\ requests \in Seq(Commands)
    BY Zenon, FrameTypes
<1>1. /\ UNCHANGED <<orphans, executed, attempted, sending>> /\ sending \in Commands
      /\ pc \in {"frame", "rframe"} /\ pc' \notin {"frame", "rframe"}
      /\ \/ requests' = requests
         \/ Pushed(requests, sending, requests') /\ sending \notin NoResponses
    BY Zenon DEF WriteFrame, Pushed, Shape, Sending, commandVars, envVars
<1>2. /\ Pending(c)' = 0
      /\ sending = c /\ sending \notin NoResponses => Pending(c) = 1
    BY <1>1, Zenon DEF Pending
<1>3. CASE requests' = requests
    BY <1>1, <1>2, <1>3, CountedKept, FrameTypes
<1>4. CASE Pushed(requests, sending, requests') /\ sending \notin NoResponses
  <2>1. /\ sending = c => Occurrences(requests', c) = Occurrences(requests, c) + 1
        /\ sending # c => Occurrences(requests', c) = Occurrences(requests, c)
      BY <1>1, <1>4, FrameTypes, PushedCount
  <2>2. sending # c => Pending(c) = 0
      BY Zenon DEF Pending
  <2>3. Frames(c)' = Frames(c)
      BY <1>1, <1>2, <1>4, <2>1, <2>2 DEF Frames
  <2> QED
      BY Zenon, <1>1, <2>3, CountedMoved
<1> QED
    BY Zenon, <1>1, <1>3, <1>4

LEMMA ClosedCounted ==
    ASSUME TypeOK, NEW c \in Commands, Counted(c),
           ClosedAfterWrite \/ ClosedBeforeConnect \/ ClosedDuringReplay \/ ClosedAndStopped
    PROVE  Counted(c)'
<1>1. /\ UNCHANGED <<executed, attempted>> /\ requests' = <<>>
      /\ orphans'[c] = orphans[c] + Occurrences(requests, c)
      /\ pc \notin {"frame", "rframe"} /\ pc' \notin {"frame", "rframe"}
    BY Zenon DEF ClosedAfterWrite, ClosedBeforeConnect, ClosedDuringReplay, ClosedAndStopped,
        ReleaseConnection, AfterReconnect, commandVars
<1>2. Pending(c) = 0 /\ Pending(c)' = 0 /\ Occurrences(requests', c) = 0
    BY <1>1, OccurrencesEmpty, Zenon DEF Pending
<1>3. Frames(c)' = Frames(c)
    BY <1>1, <1>2, FrameTypes DEF Frames
<1> QED
    BY Zenon, <1>1, <1>3, CountedMoved

LEMMA ExecutedCounted ==
    ASSUME TypeOK, NEW c \in Commands, Counted(c),
           ServerExecutes \/ \E d \in Commands : ServerExecutesOrphan(d)
    PROVE  Counted(c)'
<1> /\ executed[c] \in Nat /\ orphans[c] \in Nat /\ Occurrences(requests, c) \in Nat
    /\ Pending(c) \in {0, 1} /\ requests \in Seq(Commands)
    BY Zenon, FrameTypes
<1>1. UNCHANGED <<pc, sending, attempted>>
    BY Zenon DEF ServerExecutes, ServerExecutesOrphan, commandVars, routerVars
<1>2. Pending(c)' = Pending(c)
    BY <1>1, Zenon DEF Pending
<1>3. CASE ServerExecutes
  <2> DEFINE d == Head(requests)
  <2>1. /\ Popped(requests, d, requests') /\ orphans' = orphans
        /\ executed' = [executed EXCEPT ![d] = @ + 1]
      BY <1>3, Zenon DEF ServerExecutes, Popped
  <2> HIDE DEF d
  <2>2. /\ d = c => Occurrences(requests, c) = Occurrences(requests', c) + 1
        /\ d # c => Occurrences(requests, c) = Occurrences(requests', c)
        /\ Occurrences(requests', c) \in Nat /\ d \in Commands
      BY <2>1, FrameTypes, PoppedCount, PositionsFinite
  <2>3. executed'[c] = IF d = c THEN executed[c] + 1 ELSE executed[c]
      BY <2>1, <2>2, Zenon DEF TypeOK, ServerTypes
  <2>4. Frames(c)' = Frames(c)
      BY <1>2, <2>1, <2>2, <2>3 DEF Frames
  <2> QED
      BY Zenon, <1>1, <2>4, CountedMoved
<1>4. ASSUME NEW d \in Commands, ServerExecutesOrphan(d)
      PROVE  Counted(c)'
  <2>1. /\ requests' = requests
        /\ executed'[c] = IF d = c THEN executed[c] + 1 ELSE executed[c]
        /\ orphans'[c] = IF d = c THEN orphans[c] - 1 ELSE orphans[c]
      BY <1>4, Zenon DEF ServerExecutesOrphan, TypeOK, ServerTypes, connVars
  <2>2. Frames(c)' = Frames(c)
      BY <1>2, <2>1 DEF Frames
  <2> QED
      BY Zenon, <1>1, <2>2, CountedMoved
<1> QED
    BY Zenon, <1>3, <1>4

(* A response that was received was executed. *)
LEMMA RepliesStep ==
    ASSUME TypeOK, RepliesExecuted, [Next]_vars
    PROVE  RepliesExecuted'
<1>1. replies \in Seq(Commands) /\ requests \in Seq(Commands) /\ executed \in [Commands -> Nat]
    BY Zenon DEF TypeOK, StreamTypes, ServerTypes
<1>2. CASE UNCHANGED <<replies, executed>>
    BY <1>2, Zenon DEF RepliesExecuted
<1>3. CASE ServerExecutes
  <2>1. /\ requests # <<>> /\ replies' = Append(replies, Head(requests))
        /\ executed' = [executed EXCEPT ![Head(requests)] = @ + 1]
      BY <1>3, Zenon DEF ServerExecutes
  <2>2. Head(requests) \in Commands
      BY <1>1, <2>1
  <2>3. \A d \in Commands : executed'[d] >= executed[d]
      BY <1>1, <2>1
  <2>4. executed'[Head(requests)] > 0
      BY <1>1, <2>1, <2>2
  <2>5. ASSUME NEW i \in 1..Len(replies')
        PROVE  executed'[replies'[i]] > 0
    <3>1. CASE i = Len(replies) + 1
        BY <1>1, <2>1, <2>2, <2>4, <3>1
    <3>2. CASE i # Len(replies) + 1
      <4>1. i \in 1..Len(replies) /\ replies'[i] = replies[i] /\ replies[i] \in Commands
          BY <1>1, <2>1, <2>2, <3>2
      <4>2. executed[replies[i]] > 0
          BY <4>1, Zenon DEF RepliesExecuted
      <4> QED
          BY <1>1, <2>1, <2>3, <4>1, <4>2
    <3> QED
        BY Zenon, <3>1, <3>2
  <2> QED
      BY <2>5, Zenon DEF RepliesExecuted
<1>4. ASSUME NEW d \in Commands, ServerExecutesOrphan(d)
      PROVE  RepliesExecuted'
    BY <1>1, <1>4 DEF ServerExecutesOrphan, RepliesExecuted, connVars
<1>5. CASE ReadResponse
  <2>1. replies # <<>> /\ replies' = Tail(replies) /\ executed' = executed
      BY <1>5, Zenon DEF ReadResponse, envVars
  <2> QED
      BY <1>1, <2>1 DEF RepliesExecuted
<1>6. CASE ClosedAfterWrite \/ ClosedBeforeConnect \/ ClosedDuringReplay \/ ClosedAndStopped
  <2>1. replies' = <<>>
      BY <1>6, Zenon DEF ClosedAfterWrite, ClosedBeforeConnect, ClosedDuringReplay, ClosedAndStopped,
          ReleaseConnection
  <2> QED
      BY <2>1 DEF RepliesExecuted
<1>7. CASE \/ UNCHANGED vars \/ Connect \/ ForceReconnection
           \/ \E d \in Commands : Send(d) \/ BeginQuit(d) \/ TimeOut(d)
    BY <1>2, <1>7, Zenon DEF Connect, ForceReconnection, Send, BeginQuit, TimeOut, connVars, envVars, vars
<1>8. CASE \/ ReceiveCommand \/ ReceiveReconnect \/ WriteRefused \/ MissingConnection
           \/ WriteTimedOut \/ ApplyBackpressure \/ SleepElapsed \/ PushCommand \/ WriteFrame
    BY <1>2, <1>8, Zenon DEF ReceiveCommand, ReceiveReconnect, WriteRefused, MissingConnection,
        WriteTimedOut, ApplyBackpressure, SleepElapsed, PushCommand, WriteFrame, connVars, envVars
<1>9. CASE \/ CountFrame \/ WriteFails \/ RouterUnblocked \/ RouterSeesClose \/ DelayElapsed
           \/ ConnectionMade \/ ConnectionRefused \/ ReplayCommand \/ ReplayFinished
    BY <1>2, <1>9, Zenon DEF CountFrame, WriteFails, RouterUnblocked, RouterSeesClose, DelayElapsed,
        ConnectionMade, ConnectionRefused, ReplayCommand, ReplayFinished, envVars
<1>10. CASE \/ ReaderSeesEnd \/ CheckFinalAttempt \/ NotifyRouter \/ ReaderEnds \/ ServerCloses
            \/ ReaderFails \/ ConnectionLost
    BY <1>2, <1>10, Zenon DEF ReaderSeesEnd, CheckFinalAttempt, NotifyRouter, ReaderEnds, ServerCloses,
        ReaderFails, ConnectionLost, envVars
<1> QED
    BY Zenon, <1>3, <1>4, <1>5, <1>6, <1>7, <1>8, <1>9, <1>10
    DEF Next, CallerNext, RouterNext, ReaderNext, ServerNext, FaultNext

LEMMA FrameStep ==
    ASSUME Inv, FrameInv, [Next]_vars
    PROVE  FrameInv'
<1>1. TypeOK /\ Shape
    BY Zenon DEF Inv
<1>2. ASSUME NEW c \in Commands
      PROVE  Counted(c)'
  <2>1. Counted(c)
      BY Zenon DEF FrameInv
  <2> QED
      BY Zenon, <1>1, <2>1, OthersCounted, RouterCounted, PushedCounted, WriteFrameCounted,
          ClosedCounted, ExecutedCounted
      DEF Next, CallerNext, RouterNext, ReaderNext, ServerNext, FaultNext
<1>3. RepliesExecuted'
    BY <1>1, RepliesStep, Zenon DEF FrameInv
<1> QED
    BY <1>2, <1>3, Zenon DEF FrameInv

LEMMA FrameInit ==
    ASSUME Init
    PROVE  FrameInv
<1>1. ASSUME NEW c \in Commands
      PROVE  Counted(c)
  <2>1. Occurrences(requests, c) = 0 /\ Pending(c) = 0
      BY OccurrencesEmpty, Zenon DEF Init, Pending
  <2>2. executed[c] = 0 /\ orphans[c] = 0 /\ attempted[c] = 0
      BY Zenon DEF Init
  <2> QED
      BY <2>1, <2>2, ConfigAssumption DEF Counted, Frames
<1>2. RepliesExecuted
    BY DEF Init, RepliesExecuted
<1> QED
    BY <1>1, <1>2, Zenon DEF FrameInv

(* The frames of a command are paid for, and what was received was executed. *)
THEOREM FrameInvariance == Spec => [](Inv /\ OwnerInv /\ FrameInv)
<1>1. Init => FrameInv
    BY Zenon, FrameInit
<1>2. Inv /\ FrameInv /\ [Next]_vars => FrameInv'
    BY Zenon, FrameStep
<1>3. Spec => [](Inv /\ OwnerInv)
    BY Zenon, OwnerInvariance
<1> QED
    BY <1>1, <1>2, <1>3, PTL DEF Spec

-----------------------------------------------------------------------------
(***************************************************************************)
(* The refinement of RequestService.                                       *)
(***************************************************************************)

(* The command whose response the reader task has before it. *)
AtFront(c) == reader = "reading" /\ buffer # <<>> /\ c = Head(buffer) /\ executed[c] > 0

(* How a step that is no Send may change the outcome of a command. *)
Resolved(c) ==
    \/ outcome'[c] = outcome[c]
    \/ outcome[c] = "unsent" /\ outcome'[c] = "closing"
    \/ /\ outcome[c] = "waiting"
       /\ outcome'[c] \in Final
       /\ outcome'[c] = "ok" => c \in NoResponses \/ AtFront(c)

(* A caller gets the response to its own command, which the server executed. *)
LEMMA ReadResponseResolves ==
    ASSUME Inv, FrameInv, ReadResponse, NEW c \in Commands
    PROVE  Resolved(c)
<1>1. CASE buffer = <<>>
    BY <1>1, Zenon DEF ReadResponse, Resolved
<1>2. CASE buffer # <<>>
  <2>1. reader = "reading" /\ replies # <<>> /\ outcome' = Answer(outcome, {Head(buffer)}, "ok")
      BY <1>2, Zenon DEF ReadResponse
  <2>2. /\ replies \in Seq(Commands) /\ requests \in Seq(Commands) /\ buffer \in Seq(Commands)
        /\ \A i \in 1..Len(buffer) : i <= Len(Stream) => buffer[i] = Stream[i]
      BY <2>1, Zenon DEF Inv, TypeOK, StreamTypes, InStep
  <2>3. Len(Stream) >= 1 /\ Stream[1] = replies[1] /\ 1 \in 1..Len(buffer) /\ 1 \in 1..Len(replies)
      BY <1>2, <2>1, <2>2 DEF Stream
  <2>4. buffer[1] = replies[1] /\ Head(buffer) = buffer[1]
      BY <1>2, <2>2, <2>3
  <2>5. executed[Head(buffer)] > 0
      BY <2>3, <2>4, Zenon DEF FrameInv, RepliesExecuted
  <2> QED
      BY <1>2, <2>1, <2>5, AnswerOf, Zenon DEF Resolved, AtFront, Final
<1> QED
    BY Zenon, <1>1, <1>2

(* Every step but a send answers callers that wait, with a response of the server only
   when the server executed the command. *)
LEMMA ResolvedStep ==
    ASSUME Inv, FrameInv, [Next]_vars, \A d \in Commands : ~Send(d), NEW c \in Commands
    PROVE  Resolved(c)
<1>1. outcome \in [Commands -> {"unsent", "closing", "waiting"} \cup Final]
    BY Zenon DEF Inv, TypeOK, CallerTypes
<1>2. CASE \/ UNCHANGED vars \/ Connect \/ ForceReconnection \/ ReceiveCommand \/ ReceiveReconnect
           \/ MissingConnection \/ WriteTimedOut \/ SleepElapsed \/ WriteFrame \/ CountFrame
           \/ RouterUnblocked \/ ClosedAfterWrite \/ ClosedBeforeConnect \/ DelayElapsed
           \/ ConnectionMade \/ ConnectionRefused \/ ReplayFinished \/ NotifyRouter \/ ReaderEnds
           \/ ServerExecutes \/ ServerCloses \/ ConnectionLost
           \/ \E d \in Commands : ServerExecutesOrphan(d)
  <2>1. outcome' = outcome
      BY <1>2, Zenon DEF Connect, ForceReconnection, ReceiveCommand, ReceiveReconnect, MissingConnection,
          WriteTimedOut, Ignored, SleepElapsed, WriteFrame, CountFrame, RouterUnblocked,
          ClosedAfterWrite, ClosedBeforeConnect, DelayElapsed, ConnectionMade, ConnectionRefused,
          ReplayFinished, NotifyRouter, ReaderEnds, ServerExecutes, ServerCloses, ConnectionLost,
          ServerExecutesOrphan, callerVars, vars
  <2> QED
      BY <2>1, Zenon DEF Resolved
<1>3. CASE \E d \in Commands : BeginQuit(d) \/ TimeOut(d)
    BY <1>1, <1>3, Zenon DEF BeginQuit, TimeOut, Answer, Resolved, Final
<1>4. CASE WriteRefused \/ ApplyBackpressure \/ RouterSeesClose
    BY <1>4, AnswerOf DEF WriteRefused, ApplyBackpressure, Ignored, RouterSeesClose, Resolved, Final
<1>5. CASE PushCommand
    BY <1>5, AnswerOf DEF PushCommand, Resolved, Final
<1>6. CASE WriteFails
  <2>1. \/ outcome' = Dropped(outcome, InChannel)
        \/ \E d : outcome' = Answer(Dropped(outcome, InChannel), {d}, "error")
      BY <1>6, Zenon DEF WriteFails
  <2> QED
      BY <2>1, Zenon DEF Dropped, Answer, Resolved, Final
<1>7. CASE ClosedDuringReplay \/ ClosedAndStopped
  <2>1. \E S : outcome' = Answer(outcome, S, "canceled")
      BY <1>7, Zenon DEF ClosedDuringReplay, ClosedAndStopped, Dropped
  <2> QED
      BY <2>1, AnswerOf DEF Resolved, Final
<1>8. CASE ReplayCommand
    BY <1>8, AnswerOf DEF ReplayCommand, Resolved, Final
<1>9. CASE ReadResponse
    BY Zenon, <1>9, ReadResponseResolves
<1>10. CASE ReaderSeesEnd \/ ReaderFails
  <2>1. outcome' = outcome \/ \E S : outcome' = Answer(outcome, S, "canceled")
      BY <1>10 DEF ReaderSeesEnd, ReaderFails, CheckBlockedRouter, Dropped
  <2> QED
      BY <2>1, AnswerOf DEF Resolved, Final
<1>11. CASE CheckFinalAttempt
    BY <1>11, AnswerOf DEF CheckFinalAttempt, Resolved, Final
<1> QED
    BY Zenon, <1>2, <1>3, <1>4, <1>5, <1>6, <1>7, <1>8, <1>9, <1>10, <1>11
    DEF Next, CallerNext, RouterNext, ReaderNext, ServerNext, FaultNext

(* What a caller sees of a command. *)
Seen == [c \in Commands |-> IF outcome[c] = "closing" THEN "unsent" ELSE outcome[c]]

LEMMA SendSubmits ==
    ASSUME TypeOK, NEW d \in Commands, Send(d)
    PROVE  Promise!Submit(d)
<1>1. Seen[d] = "unsent" /\ executed' = executed
    BY Zenon DEF Send, Seen
<1>2. Seen' = [Seen EXCEPT ![d] = "waiting"]
    BY Zenon DEF Send, Seen, TypeOK, CallerTypes
<1> QED
    BY <1>1, <1>2, Zenon DEF Promise!Submit, Seen

(* A frame was sent and paid for, so the server may execute it. *)
LEMMA FrameExecutes ==
    ASSUME Inv, OwnerInv, FrameInv, NEW d \in Commands,
           orphans[d] > 0 \/ Occurrences(requests, d) > 0,
           executed' = [executed EXCEPT ![d] = @ + 1], outcome' = outcome
    PROVE  Promise!Execute(d)
<1>1. TypeOK /\ Counted(d) /\ Owned(d)
    BY Zenon DEF Inv, OwnerInv, FrameInv
<1>2. /\ executed[d] \in Nat /\ orphans[d] \in Nat /\ Occurrences(requests, d) \in Nat
      /\ Pending(d) \in {0, 1} /\ attempted[d] \in Nat /\ MaxAttempts \in Nat
    BY Zenon, <1>1, FrameTypes
<1>3. attempted[d] > 0 /\ executed[d] < MaxAttempts
    BY <1>1, <1>2 DEF Counted, Frames
<1>4. ~NotSent(d)
  <2>1. NotSent(d) => attempted[d] = 0
      BY <1>1, Zenon DEF Owned
  <2> QED
      BY <1>2, <1>3, <2>1
<1>5. Seen[d] # "unsent" /\ Seen' = Seen
    BY <1>4, Zenon DEF Seen, NotSent
<1> QED
    BY <1>3, <1>5, Zenon DEF Promise!Execute, Seen

LEMMA OthersResolve ==
    ASSUME TypeOK, \A c \in Commands : Resolved(c), executed' = executed
    PROVE  Promise!Resolve
<1>1. Seen' = [c \in Commands |-> Seen'[c]]
    BY Zenon DEF Seen
<1>2. ASSUME NEW c \in Commands
      PROVE  Seen'[c] = Seen[c] \/ Promise!MayResolve(c, Seen'[c])
    BY Zenon DEF Resolved, AtFront, Seen, Promise!MayResolve, Promise!Results, Final
<1> QED
    BY <1>1, <1>2, Zenon DEF Promise!Resolve, Seen

(* Every step of the client is a step of the service or invisible to callers. *)
LEMMA PromiseStep ==
    ASSUME Inv, OwnerInv, FrameInv, [Next]_vars
    PROVE  Promise!Progress
<1>1. TypeOK
    BY Zenon DEF Inv
<1>2. CASE \E d \in Commands : Send(d)
    BY <1>1, <1>2, SendSubmits, Zenon DEF Promise!Progress
<1>3. CASE ServerExecutes
  <2> DEFINE d == Head(requests)
  <2>1. /\ requests \in Seq(Commands) /\ requests # <<>> /\ d \in Commands /\ d \in Range(requests)
        /\ executed' = [executed EXCEPT ![d] = @ + 1] /\ outcome' = outcome
      BY <1>1, <1>3 DEF ServerExecutes, TypeOK, StreamTypes, Range, callerVars
  <2> HIDE DEF d
  <2>2. Occurrences(requests, d) > 0
      BY Zenon, <2>1, OccurrencesMember
  <2> QED
      BY <2>1, <2>2, FrameExecutes, Zenon DEF Promise!Progress
<1>4. ASSUME NEW d \in Commands, ServerExecutesOrphan(d)
      PROVE  Promise!Progress
    BY <1>4, FrameExecutes, Zenon DEF ServerExecutesOrphan, callerVars, Promise!Progress
<1>5. CASE ~ServerExecutes /\ \A d \in Commands : ~Send(d) /\ ~ServerExecutesOrphan(d)
  <2>1. \A c \in Commands : Resolved(c)
      BY Zenon, <1>5, ResolvedStep
  <2>2. executed' = executed
    <3>1. CASE \/ UNCHANGED vars \/ Connect \/ ForceReconnection
               \/ \E d \in Commands : BeginQuit(d) \/ TimeOut(d)
        BY <3>1, Zenon DEF Connect, ForceReconnection, BeginQuit, TimeOut, envVars, vars
    <3>2. CASE RouterNext
        BY <3>2, Zenon DEF RouterNext, ReceiveCommand, ReceiveReconnect, WriteRefused, MissingConnection,
            WriteTimedOut, ApplyBackpressure, SleepElapsed, PushCommand, WriteFrame, CountFrame,
            WriteFails, RouterUnblocked, RouterSeesClose, ClosedAfterWrite, ClosedBeforeConnect,
            ClosedAndStopped, DelayElapsed, ConnectionMade, ConnectionRefused, ReplayCommand,
            ReplayFinished, ClosedDuringReplay, envVars
    <3>3. CASE ReaderNext \/ ServerCloses \/ ReaderFails \/ ConnectionLost
        BY <3>3, Zenon DEF ReaderNext, ReadResponse, ReaderSeesEnd, CheckFinalAttempt, NotifyRouter,
            ReaderEnds, ServerCloses, ReaderFails, ConnectionLost, envVars
    <3> QED
        BY <1>5, <3>1, <3>2, <3>3, Zenon DEF Next, CallerNext, ServerNext, FaultNext
  <2> QED
      BY <1>1, <2>1, <2>2, OthersResolve, Zenon DEF Promise!Progress
<1> QED
    BY Zenon, <1>2, <1>3, <1>4, <1>5

(* The router, the reader task and the retry buffer implement the service: a caller is
   answered at most once, with a response only after the server has executed the command,
   and the server executes a command at most max_command_attempts times. *)
THEOREM ServiceImplemented == Spec => KeepsPromise
<1>1. Init => Promise!Start
    BY Zenon DEF Init, Promise!Start
<1>2. Inv /\ OwnerInv /\ FrameInv /\ [Next]_vars => [Promise!Progress]_(Promise!serviceVars)
    BY Zenon, PromiseStep
<1>3. Spec => [](Inv /\ OwnerInv /\ FrameInv)
    BY Zenon, FrameInvariance
<1> QED
    BY <1>1, <1>2, <1>3, PTL DEF Spec, KeepsPromise, Promise!Service

-----------------------------------------------------------------------------
(***************************************************************************)
(* Callers that gave up.                                                   *)
(***************************************************************************)

(* A command enters the shared buffer in push_command and in retry_buffer only. *)
LEMMA BufferStep ==
    ASSUME TypeOK, Shape, [Next]_vars, NEW c \in Commands, TimedOut(c), c \notin Range(buffer)
    PROVE  c \notin Range(buffer')
<1>1. buffer \in Seq(Commands) /\ Occurrences(buffer, c) = 0
    BY OccurrencesMember, PositionsFinite DEF TypeOK, StreamTypes
<1>2. ASSUME NEW d \in Commands, ~TimedOut(d), Pushed(buffer, d, buffer')
      PROVE  c \notin Range(buffer')
  <2>1. buffer' \in Seq(Commands) /\ Occurrences(buffer', c) = 0
      BY <1>1, <1>2, PushedCount
  <2> QED
      BY <2>1, OccurrencesMember
<1>3. ASSUME NEW d, Popped(buffer, d, buffer') \/ TakenBack(buffer, d, buffer')
      PROVE  c \notin Range(buffer')
  <2>1. buffer' \in Seq(Commands)
      BY Zenon, <1>1, <1>3, PoppedCount, TakenBackCount
  <2>2. Occurrences(buffer', c) \in Nat
      BY Zenon, <2>1, PositionsFinite
  <2>3. Occurrences(buffer', c) = 0
      BY <1>1, <1>3, <2>2, PoppedCount, TakenBackCount
  <2> QED
      BY <2>1, <2>3, OccurrencesMember
<1>4. CASE buffer' = buffer \/ buffer' = <<>>
    BY <1>4 DEF Range
<1>5. CASE PushCommand
  <2>1. cmd \in Commands /\ ~TimedOut(cmd) /\ (buffer' = buffer \/ Pushed(buffer, cmd, buffer'))
      BY <1>5, Zenon DEF PushCommand, CanWrite, Shape, Pushed
  <2> QED
      BY Zenon, <1>2, <1>4, <2>1
<1>6. CASE ReplayCommand
  <2> DEFINE d == Head(replay)
  <2>1. /\ d \in Commands
        /\ buffer' = buffer \/ (~TimedOut(d) /\ Pushed(buffer, d, buffer'))
      BY <1>6 DEF ReplayCommand, Pushed, TypeOK, RouterTypes
  <2> HIDE DEF d
  <2> QED
      BY Zenon, <1>2, <1>4, <2>1
<1>7. CASE WriteFails \/ ReadResponse \/ ReaderSeesEnd \/ ReaderFails
  <2>1. \/ buffer' = buffer
        \/ Popped(buffer, Head(buffer), buffer') \/ TakenBack(buffer, Last(buffer), buffer')
      BY <1>7, Zenon DEF WriteFails, PopRecent, ReadResponse, ReaderSeesEnd, ReaderFails,
          CheckBlockedRouter, Popped, TakenBack
  <2> QED
      BY Zenon, <1>3, <1>4, <2>1
<1>8. CASE CheckFinalAttempt
  <2>1. Filtered(buffer, OnFinalAttempt, buffer')
      BY <1>8, Zenon DEF CheckFinalAttempt, Filtered
  <2>2. buffer' \in Seq(Commands) /\ Occurrences(buffer', c) <= 0
      BY Zenon, <1>1, <2>1, FilteredCount
  <2>3. Occurrences(buffer', c) = 0
      BY <2>2, PositionsFinite
  <2> QED
      BY <2>2, <2>3, OccurrencesMember
<1>9. CASE ClosedAfterWrite \/ ClosedBeforeConnect \/ ClosedDuringReplay \/ ClosedAndStopped
    BY <1>4, <1>9, Zenon DEF ClosedAfterWrite, ClosedBeforeConnect, ClosedDuringReplay, ClosedAndStopped,
        ReleaseConnection
<1>10. CASE \/ UNCHANGED vars \/ CallerNext \/ ReceiveCommand \/ ReceiveReconnect \/ WriteRefused
            \/ MissingConnection \/ WriteTimedOut \/ ApplyBackpressure \/ SleepElapsed
    BY <1>4, <1>10, Zenon DEF CallerNext, Connect, ForceReconnection, Send, BeginQuit, TimeOut,
        ReceiveCommand, ReceiveReconnect, WriteRefused, MissingConnection, WriteTimedOut,
        ApplyBackpressure, SleepElapsed, connVars, vars
<1>11. CASE \/ WriteFrame \/ CountFrame \/ RouterUnblocked \/ RouterSeesClose \/ DelayElapsed
            \/ ConnectionMade \/ ConnectionRefused \/ ReplayFinished \/ NotifyRouter \/ ReaderEnds
            \/ ServerNext \/ ConnectionLost \/ \E d \in Commands : ServerExecutesOrphan(d)
    BY <1>4, <1>11, Zenon DEF WriteFrame, CountFrame, RouterUnblocked, RouterSeesClose, DelayElapsed,
        ConnectionMade, ConnectionRefused, ReplayFinished, NotifyRouter, ReaderEnds, ServerNext,
        ServerExecutes, ServerCloses, ConnectionLost, ServerExecutesOrphan, connVars
<1> QED
    BY <1>5, <1>6, <1>7, <1>8, <1>9, <1>10, <1>11, Zenon DEF Next, RouterNext, ReaderNext, FaultNext

(* utils::write_command and retry_buffer look at the timed_out flag: a command whose caller
   has given up, and which is not in flight, is not written any more. *)
THEOREM GivenUpNotWritten == Spec => TimedOutNeverPushed
<1>1. ASSUME TypeOK, Shape, [Next]_vars
      PROVE  [\A c \in Commands :
                TimedOut(c) /\ c \notin Range(buffer) => c \notin Range(buffer')]_vars
    BY Zenon, <1>1, BufferStep
<1>2. Inv => TypeOK /\ Shape
    BY Zenon DEF Inv
<1> QED
    BY <1>1, <1>2, Invariance, PTL DEF Spec, TimedOutNeverPushed

-----------------------------------------------------------------------------
(***************************************************************************)
(* Answers in the order of the sends.                                      *)
(***************************************************************************)

(* In a log o the command c is before d; the commands of a sequence are in the order of
   the log; every command of S is before every one of T. *)
Before(o, c, d) == \E i, j \in DOMAIN o : i < j /\ o[i] = c /\ o[j] = d
Sorted(o, s) ==
    \A i, j \in DOMAIN s : i < j /\ s[i] \in Commands /\ s[j] \in Commands => Before(o, s[i], s[j])
Ahead(o, S, T) == \A c \in S, d \in T : Before(o, c, d)

LEMMA NotBeforeAndAfter ==
    ASSUME NEW o \in Seq(Commands), IsInjective(o), NEW c, NEW d, Before(o, c, d)
    PROVE  ~Before(o, d, c)
<1>1. SUFFICES ASSUME Before(o, d, c) PROVE FALSE
    OBVIOUS
<1>2. PICK i, j \in DOMAIN o : i < j /\ o[i] = c /\ o[j] = d
    BY Zenon DEF Before
<1>3. PICK k, l \in DOMAIN o : k < l /\ o[k] = d /\ o[l] = c
    BY Zenon, <1>1 DEF Before
<1>4. k = j /\ l = i
    BY Zenon, <1>2, <1>3 DEF IsInjective
<1>5. i \in Nat /\ j \in Nat
    OBVIOUS
<1> QED
    BY <1>2, <1>3, <1>4, <1>5

(* A longer log orders more. *)
LEMMA LongerLog ==
    ASSUME NEW o \in Seq(Commands), NEW x \in Commands
    PROVE  /\ \A c, d : Before(o, c, d) => Before(Append(o, x), c, d)
           /\ \A c \in Range(o) : Before(Append(o, x), c, x)
           /\ Range(Append(o, x)) = Range(o) \cup {x}
           /\ IsInjective(o) /\ x \notin Range(o) => IsInjective(Append(o, x))
<1> DEFINE p == Append(o, x)
<1>1. /\ DOMAIN o = 1..Len(o) /\ DOMAIN p = 1..Len(o) + 1 /\ Len(o) \in Nat
      /\ p[Len(o) + 1] = x /\ \A i \in DOMAIN o : p[i] = o[i]
    OBVIOUS
<1> HIDE DEF p
<1>2. \A i \in DOMAIN o : i \in DOMAIN p /\ i < Len(o) + 1
    BY <1>1
<1>3. Len(o) + 1 \in DOMAIN p
    BY <1>1
<1>4. \A i \in DOMAIN p : i \in DOMAIN o \/ i = Len(o) + 1
    BY <1>1
<1>5. \A c, d : Before(o, c, d) => Before(p, c, d)
    BY Zenon, <1>1, <1>2 DEF Before
<1>6. \A c \in Range(o) : Before(p, c, x)
    BY Zenon, <1>1, <1>2, <1>3 DEF Before, Range
<1>7. Range(p) = Range(o) \cup {x}
    BY Zenon, <1>1, <1>2, <1>3, <1>4 DEF Range
<1>8. IsInjective(o) /\ x \notin Range(o) => IsInjective(p)
    BY Zenon, <1>1, <1>2, <1>3, <1>4 DEF IsInjective, Range
<1> QED
    BY Zenon, <1>5, <1>6, <1>7, <1>8 DEF p

(* Appending what is behind, popping, taking back, joining and filtering keep the order. *)
LEMMA PushedSorted ==
    ASSUME NEW o, NEW X, NEW s \in Seq(X), Sorted(o, s), NEW x \in X, NEW t, Pushed(s, x, t),
           x \in Commands => Ahead(o, Range(s) \cap Commands, {x})
    PROVE  Sorted(o, t) /\ Range(t) \subseteq Range(s) \cup {x}
<1>1. /\ DOMAIN s = 1..Len(s) /\ DOMAIN t = 1..Len(s) + 1 /\ Len(s) \in Nat
      /\ t[Len(s) + 1] = x /\ \A i \in DOMAIN s : t[i] = s[i]
    BY DEF Pushed
<1>2. /\ \A i \in DOMAIN s : i \in DOMAIN t
      /\ \A i \in DOMAIN t : i \in DOMAIN s \/ i = Len(s) + 1
      /\ Len(s) + 1 \in DOMAIN t
    BY <1>1
<1>3. \A i, j \in DOMAIN t : i < j => i \in DOMAIN s /\ (j \in DOMAIN s \/ j = Len(s) + 1)
    BY <1>1
<1>4. Range(t) \subseteq Range(s) \cup {x}
    BY Zenon, <1>1, <1>2 DEF Range
<1>5. ASSUME NEW i \in DOMAIN t, NEW j \in DOMAIN t, i < j, t[i] \in Commands, t[j] \in Commands
      PROVE  Before(o, t[i], t[j])
  <2>1. i \in DOMAIN s /\ t[i] = s[i] /\ s[i] \in Range(s)
      BY Zenon, <1>1, <1>3, <1>5 DEF Range
  <2>2. CASE j \in DOMAIN s
      BY Zenon, <1>1, <1>5, <2>1, <2>2 DEF Sorted
  <2>3. CASE j = Len(s) + 1
      BY Zenon, <1>1, <1>5, <2>1, <2>3 DEF Ahead
  <2> QED
      BY Zenon, <1>3, <1>5, <2>2, <2>3
<1> QED
    BY Zenon, <1>4, <1>5 DEF Sorted

LEMMA PoppedSorted ==
    ASSUME NEW o, NEW X, NEW s \in Seq(X), Sorted(o, s), NEW x, NEW t, Popped(s, x, t)
    PROVE  /\ Sorted(o, t) /\ Range(t) \subseteq Range(s) /\ x \in Range(s) /\ x \in X /\ t \in Seq(X)
           /\ x \in Commands => Ahead(o, {x}, Range(t) \cap Commands)
<1>1. /\ DOMAIN s = 1..Len(s) /\ DOMAIN t = 1..Len(s) - 1 /\ Len(s) \in Nat /\ 1 \in DOMAIN s
      /\ x = s[1] /\ (\A i \in DOMAIN t : t[i] = s[i + 1]) /\ x \in X /\ t \in Seq(X)
    BY HeadTail DEF Popped
<1>2. /\ \A i \in DOMAIN t : i + 1 \in DOMAIN s /\ 1 < i + 1
      /\ \A i, j \in DOMAIN t : i < j => i + 1 < j + 1
    BY <1>1
<1>3. Range(t) \subseteq Range(s) /\ x \in Range(s)
    BY Zenon, <1>1, <1>2 DEF Range
<1>4. Sorted(o, t)
    BY Zenon, <1>1, <1>2 DEF Sorted
<1>5. x \in Commands => Ahead(o, {x}, Range(t) \cap Commands)
    BY Zenon, <1>1, <1>2 DEF Sorted, Ahead, Range
<1> QED
    BY Zenon, <1>1, <1>3, <1>4, <1>5

LEMMA TakenBackSorted ==
    ASSUME NEW o, NEW X, X \subseteq Commands, NEW s \in Seq(X), Sorted(o, s), NEW x, NEW t,
           TakenBack(s, x, t)
    PROVE  /\ Sorted(o, t) /\ Range(t) \subseteq Range(s) /\ x \in Range(s) /\ x \in X /\ t \in Seq(X)
           /\ Ahead(o, Range(t), {x})
<1>1. /\ x \in X /\ t \in Seq(X) /\ Len(t) = Len(s) - 1
      /\ \A i \in 1..Len(s) - 1 : t[i] = s[i]
    BY LastFront, Zenon DEF TakenBack
<1>2. /\ Len(s) \in Nat /\ Len(s) \in DOMAIN s /\ x = s[Len(s)]
      /\ DOMAIN t = 1..Len(s) - 1 /\ DOMAIN s = 1..Len(s)
    BY <1>1 DEF TakenBack, Last
<1>3. \A i \in DOMAIN t : i \in DOMAIN s /\ i < Len(s) /\ t[i] = s[i]
    BY <1>1, <1>2
<1>4. Range(t) \subseteq Range(s) /\ x \in Range(s)
    BY Zenon, <1>2, <1>3 DEF Range
<1>5. Sorted(o, t)
    BY Zenon, <1>3 DEF Sorted
<1>6. \A i \in DOMAIN s : s[i] \in Commands
    OBVIOUS
<1>7. Ahead(o, Range(t), {x})
    BY Zenon, <1>2, <1>3, <1>6 DEF Sorted, Ahead, Range
<1> QED
    BY Zenon, <1>1, <1>4, <1>5, <1>7

LEMMA JoinedSorted ==
    ASSUME NEW o, NEW X, NEW s \in Seq(X), NEW r \in Seq(X), Sorted(o, s), Sorted(o, r),
           Ahead(o, Range(s), Range(r)), NEW t, Joined(s, r, t)
    PROVE  Sorted(o, t) /\ Range(t) \subseteq Range(s) \cup Range(r) /\ t \in Seq(X)
<1>1. /\ DOMAIN s = 1..Len(s) /\ DOMAIN r = 1..Len(r) /\ DOMAIN t = 1..Len(s) + Len(r)
      /\ Len(s) \in Nat /\ Len(r) \in Nat /\ t \in Seq(X)
      /\ \A i \in DOMAIN s : t[i] = s[i]
      /\ \A i \in DOMAIN r : t[i + Len(s)] = r[i]
    BY DEF Joined
<1>2. /\ \A i \in DOMAIN s : i \in DOMAIN t
      /\ \A i \in DOMAIN r : i + Len(s) \in DOMAIN t
    BY <1>1
<1>3. ASSUME NEW k \in DOMAIN t, k \notin DOMAIN s
      PROVE  \E i \in DOMAIN r : k = i + Len(s)
  <2>1. k - Len(s) \in DOMAIN r /\ k = (k - Len(s)) + Len(s)
      BY <1>1, <1>3
  <2> QED
      BY Zenon, <2>1
<1>4. Range(t) \subseteq Range(s) \cup Range(r)
  <2>1. \A k \in DOMAIN t :
           (\E i \in DOMAIN s : t[k] = s[i]) \/ \E i \in DOMAIN r : t[k] = r[i]
      BY Zenon, <1>1, <1>3
  <2> QED
      BY Zenon, <2>1 DEF Range
<1>5. ASSUME NEW k \in DOMAIN t, NEW l \in DOMAIN t, k < l, t[k] \in Commands, t[l] \in Commands
      PROVE  Before(o, t[k], t[l])
  <2>1. CASE k \in DOMAIN s /\ l \in DOMAIN s
      BY Zenon, <1>1, <1>5, <2>1 DEF Sorted
  <2>2. CASE k \in DOMAIN s /\ l \notin DOMAIN s
      BY Zenon, <1>1, <1>3, <1>5, <2>2 DEF Ahead, Range
  <2>3. CASE k \notin DOMAIN s
    <3>1. PICK i \in DOMAIN r : k = i + Len(s)
        BY Zenon, <1>3, <2>3
    <3>2. l \notin DOMAIN s
        BY <1>1, <1>5, <2>3
    <3>3. PICK j \in DOMAIN r : l = j + Len(s)
        BY Zenon, <1>3, <3>2
    <3>4. i < j
        BY <1>1, <1>5, <3>1, <3>3
    <3> QED
        BY Zenon, <1>1, <1>5, <3>1, <3>3, <3>4 DEF Sorted
  <2> QED
      BY Zenon, <2>1, <2>2, <2>3
<1> QED
    BY Zenon, <1>1, <1>4, <1>5 DEF Sorted

LEMMA FilteredSorted ==
    ASSUME NEW o, NEW X, NEW s \in Seq(X), Sorted(o, s), NEW S, NEW t, Filtered(s, S, t)
    PROVE  Sorted(o, t) /\ Range(t) \subseteq Range(s)
<1>1. PICK from \in [DOMAIN t -> DOMAIN s] :
            /\ \A k \in DOMAIN t : t[k] = s[from[k]] /\ s[from[k]] \notin S
            /\ \A k, l \in DOMAIN t : k < l => from[k] < from[l]
    BY WithoutPositions DEF Filtered
<1>2. \A k \in DOMAIN t : from[k] \in DOMAIN s
    BY Zenon
<1>3. Range(t) \subseteq Range(s)
    BY <1>1, <1>2 DEF Range
<1>4. Sorted(o, t)
    BY Zenon, <1>1, <1>2 DEF Sorted
<1> QED
    BY Zenon, <1>3, <1>4

LEMMA EmptySorted ==
    ASSUME NEW o
    PROVE  Sorted(o, <<>>) /\ Range(<<>>) = {}
    BY DEF Sorted, Range

(* The line of the commands, from the first to be answered: the retry buffer, the shared
   buffer, the command a failed write gave back, the queue of retry_buffer, the command in
   the router's hands, and the channel.  Each stands before the ones that follow. *)
Line(o, R, B, G, P, H, C) ==
    /\ Ahead(o, R, B \cup G \cup P \cup H \cup C)
    /\ Ahead(o, B, G \cup P \cup H \cup C)
    /\ Ahead(o, G, P \cup H \cup C)
    /\ Ahead(o, P, H \cup C)
    /\ Ahead(o, H, C)

Written == {"frame", "count", "await"}
Given == IF pc \in {"closeWrite", "closeReplay"} THEN {sending} \cap Commands ELSE {}
Held == IF pc \in Written /\ rx # "closed" THEN {} ELSE {cmd} \cap Commands
Queued == Range(chan) \cap Commands

(* A router that waits on its channel waits for the newest command on the connection. *)
NewestWaits == rx = "empty" /\ pc \in Written => Ahead(order, Range(buffer) \ {cmd}, {cmd})

LineInv ==
    /\ Sorted(order, retry) /\ Sorted(order, buffer)
    /\ Sorted(order, replay) /\ Sorted(order, chan)
    /\ Line(order, Range(retry), Range(buffer), Given, Range(replay), Held, Queued)
    /\ retry # <<>> => ~writer
    /\ NewestWaits

(* What a command that leaves the line, or moves to another place of it, does to it. *)
LEMMA LineShrinks ==
    ASSUME NEW o, NEW R, NEW B, NEW G, NEW P, NEW H, NEW C, Line(o, R, B, G, P, H, C),
           NEW R1, NEW B1, NEW G1, NEW P1, NEW H1, NEW C1,
           R1 \subseteq R, B1 \subseteq B, G1 \subseteq G, P1 \subseteq P, H1 \subseteq H, C1 \subseteq C
    PROVE  Line(o, R1, B1, G1, P1, H1, C1)
<1>1. Ahead(o, R1, B1 \cup G1 \cup P1 \cup H1 \cup C1)
    BY Zenon DEF Line, Ahead
<1>2. Ahead(o, B1, G1 \cup P1 \cup H1 \cup C1)
    BY Zenon DEF Line, Ahead
<1>3. Ahead(o, G1, P1 \cup H1 \cup C1)
    BY Zenon DEF Line, Ahead
<1>4. Ahead(o, P1, H1 \cup C1) /\ Ahead(o, H1, C1)
    BY Zenon DEF Line, Ahead
<1> QED
    BY Zenon, <1>1, <1>2, <1>3, <1>4 DEF Line

LEMMA LineReceives ==
    ASSUME NEW o, NEW R, NEW B, NEW C, Line(o, R, B, {}, {}, {}, C), NEW x \in C,
           NEW C1, C1 \subseteq C, Ahead(o, {x}, C1), NEW H1, H1 \subseteq {x}
    PROVE  Line(o, R, B, {}, {}, H1, C1)
    BY Zenon DEF Line, Ahead

LEMMA LinePushes ==
    ASSUME NEW o, NEW R, NEW B, NEW H, NEW C, Line(o, R, B, {}, {}, H, C), NEW x \in H,
           NEW B1, B1 \subseteq B \cup {x}
    PROVE  Line(o, R, B1, {}, {}, {}, C)
    BY Zenon DEF Line, Ahead

LEMMA LineQueues ==
    ASSUME NEW o, NEW R, NEW H, NEW C, Line(o, R, {}, {}, {}, H, C), NEW x \in H,
           NEW R1, R1 \subseteq R \cup {x}
    PROVE  Line(o, R1, {}, {}, {}, {}, C)
    BY Zenon DEF Line, Ahead

LEMMA LineTakesBack ==
    ASSUME NEW o, NEW R, NEW B, NEW P, NEW H, NEW C, Line(o, R, B, {}, P, H, C), NEW x \in B,
           NEW B1, B1 \subseteq B, Ahead(o, B1, {x}), NEW G1, G1 \subseteq {x}, NEW H1, H1 \subseteq H
    PROVE  Line(o, R, B1, G1, P, H1, C)
    BY Zenon DEF Line, Ahead

LEMMA LineCloses ==
    ASSUME NEW o, NEW R, NEW B, NEW G, NEW P, NEW H, NEW C, Line(o, R, B, G, P, H, C),
           NEW R1, R1 \subseteq R \cup B \cup G, NEW P1, P1 \subseteq P
    PROVE  Line(o, R1, {}, {}, P1, H, C)
    BY Zenon DEF Line, Ahead

LEMMA LineStartsReplay ==
    ASSUME NEW o, NEW R, NEW H, NEW C, Line(o, R, {}, {}, {}, H, C)
    PROVE  Line(o, {}, {}, {}, R, H, C)
    BY Zenon DEF Line, Ahead

LEMMA LineReplays ==
    ASSUME NEW o, NEW B, NEW P, NEW H, NEW C, Line(o, {}, B, {}, P, H, C), NEW x \in P,
           NEW P1, P1 \subseteq P, Ahead(o, {x}, P1), NEW B1, B1 \subseteq B \cup {x}
    PROVE  Line(o, {}, B1, {}, P1, H, C)
    BY Zenon DEF Line, Ahead

LEMMA LineWakes ==
    ASSUME NEW o, NEW B, NEW C, Line(o, {}, B, {}, {}, {}, C), NEW x \in B, NEW H1, H1 \subseteq {x}
    PROVE  Line(o, {}, {}, {}, {}, H1, C)
    BY Zenon DEF Line, Ahead

(* The order of the sends, and that the places hold commands. *)
LEMMA LineFacts ==
    ASSUME Inv, OwnerInv, LineInv
    PROVE  /\ chan \in Seq(Commands \cup {"Reconnect", "Force"}) /\ order \in Seq(Commands)
           /\ retry \in Seq(Commands) /\ buffer \in Seq(Commands) /\ replay \in Seq(Commands)
           /\ Shape /\ Hands /\ Wakeups
           /\ Sorted(order, retry) /\ Sorted(order, buffer)
           /\ Sorted(order, replay) /\ Sorted(order, chan)
           /\ Line(order, Range(retry), Range(buffer), Given, Range(replay), Held, Queued)
           /\ retry # <<>> => ~writer
           /\ ~writer => buffer = <<>>
           /\ NewestWaits
    BY Zenon DEF Inv, OwnerInv, LineInv, TypeOK, CallerTypes, RouterTypes, StreamTypes, Shape

(* A step that takes at most commands out of the channel, the hands and what was given back. *)
LEMMA QuietLine ==
    ASSUME LineInv, UNCHANGED <<order, retry, buffer, replay, writer>>,
           Sorted(order, chan'), Queued' \subseteq Queued,
           Held' \subseteq Held, Given' \subseteq Given,
           rx' = "empty" /\ pc' \in Written => rx = "empty" /\ pc \in Written /\ cmd' = cmd
    PROVE  LineInv'
<1>1. Line(order, Range(retry), Range(buffer), Given, Range(replay), Held, Queued)
    BY Zenon DEF LineInv
<1>2. Line(order, Range(retry), Range(buffer), Given', Range(replay), Held', Queued')
    BY Zenon, <1>1, LineShrinks
<1>3. NewestWaits'
    BY Zenon DEF LineInv, NewestWaits
<1> QED
    BY Zenon, <1>2, <1>3 DEF LineInv

LEMMA ServerLine ==
    ASSUME LineInv, UNCHANGED <<order, retry, buffer, replay, writer, chan, pc, cmd, rx, sending>>
    PROVE  LineInv'
<1>1. Queued' = Queued /\ Held' = Held /\ Given' = Given
    BY Zenon DEF Queued, Held, Given
<1>2. Sorted(order, chan')
    BY Zenon DEF LineInv
<1> QED
    BY Zenon, <1>1, <1>2, QuietLine

LEMMA CallersLine ==
    ASSUME Inv, OwnerInv, LineInv, Connect \/ \E c \in Commands : BeginQuit(c) \/ TimeOut(c)
    PROVE  LineInv'
<1>1. NoCommand \notin Commands /\ Sorted(order, chan)
    BY Zenon, CommandsAssumption, LineFacts
<1>2. CASE Connect
  <2>1. /\ UNCHANGED <<order, retry, buffer, replay, writer, chan, cmd, rx, sending>>
        /\ pc = "stopped" /\ pc' \in {"stopped", "delay", "connect"}
      BY Zenon, <1>2 DEF Connect, connVars
  <2>2. Queued' = Queued /\ Held' \subseteq Held /\ Given' \subseteq Given
      BY Zenon, <2>1 DEF Queued, Held, Given, Written
  <2> QED
      BY Zenon, <1>1, <2>1, <2>2, QuietLine DEF Written
<1>3. ASSUME NEW c \in Commands, BeginQuit(c)
      PROVE  LineInv'
  <2>1. UNCHANGED <<order, retry, buffer, replay, writer, chan, sending>>
      BY Zenon, <1>3 DEF BeginQuit, envVars
  <2>2. \/ UNCHANGED <<pc, cmd, rx>>
        \/ pc = "delay" /\ pc' = "closeStop" /\ UNCHANGED <<cmd, rx>>
        \/ pc = "sleep" /\ pc' = "recv" /\ cmd' = NoCommand /\ rx' = "none"
      BY Zenon, <1>3 DEF BeginQuit
  <2>3. Queued' = Queued /\ Held' \subseteq Held /\ Given' \subseteq Given
      BY Zenon, <1>1, <2>1, <2>2 DEF Queued, Held, Given, Written
  <2> QED
      BY Zenon, <1>1, <2>1, <2>2, <2>3, QuietLine DEF Written
<1>4. ASSUME NEW c \in Commands, TimeOut(c)
      PROVE  LineInv'
    BY Zenon, <1>4, ServerLine DEF TimeOut, routerVars, connVars, envVars
<1> QED
    BY Zenon, <1>2, <1>3, <1>4

(* Messages that are no commands come and go. *)
LEMMA MessagesLine ==
    ASSUME Inv, OwnerInv, LineInv, ForceReconnection \/ NotifyRouter \/ ReceiveReconnect
    PROVE  LineInv'
<1> DEFINE M == {"Reconnect", "Force"}
           X == Commands \cup M
<1>1. chan \in Seq(X) /\ Sorted(order, chan) /\ \A m \in M : m \in X /\ m \notin Commands
    BY Zenon, CommandsAssumption, LineFacts
<1> HIDE DEF M, X
<1>2. CASE ForceReconnection \/ NotifyRouter
  <2>1. /\ UNCHANGED <<order, retry, buffer, replay, writer, pc, cmd, rx, sending>>
        /\ chan' = chan \/ \E m \in M : Pushed(chan, m, chan')
      BY Zenon, <1>2 DEF ForceReconnection, NotifyRouter, routerVars, connVars, envVars, Pushed, M
  <2>2. Sorted(order, chan') /\ Queued' \subseteq Queued
    <3>1. CASE chan' = chan
        BY Zenon, <1>1, <3>1 DEF Queued
    <3>2. ASSUME NEW m \in M, Pushed(chan, m, chan')
          PROVE  Sorted(order, chan') /\ Queued' \subseteq Queued
      <4>1. m \notin Commands /\ m \in X
          BY Zenon, <1>1
      <4>2. Sorted(order, chan') /\ Range(chan') \subseteq Range(chan) \cup {m}
          BY Zenon, <1>1, <3>2, <4>1, PushedSorted
      <4> QED
          BY Zenon, <4>1, <4>2 DEF Queued
    <3> QED
        BY Zenon, <2>1, <3>1, <3>2
  <2>3. Held' = Held /\ Given' = Given
      BY Zenon, <2>1 DEF Held, Given
  <2> QED
      BY Zenon, <2>1, <2>2, <2>3, QuietLine
<1>3. CASE ReceiveReconnect
  <2>1. /\ UNCHANGED <<order, retry, buffer, replay, writer, cmd, rx, sending>>
        /\ Popped(chan, Head(chan), chan') /\ pc = "recv" /\ pc' \in {"recv", "delay", "closeStop"}
      BY Zenon, <1>3 DEF ReceiveReconnect, StartReconnect, envVars, Popped
  <2>2. Sorted(order, chan') /\ Range(chan') \subseteq Range(chan)
      BY Zenon, <1>1, <2>1, PoppedSorted
  <2>3. Queued' \subseteq Queued /\ Held' \subseteq Held /\ Given' \subseteq Given
      BY Zenon, <2>1, <2>2 DEF Queued, Held, Given, Written
  <2> QED
      BY Zenon, <2>1, <2>2, <2>3, QuietLine DEF Written
<1> QED
    BY Zenon, <1>2, <1>3

(* The router's steps that move no command but out of its hands. *)
LEMMA RouterLine ==
    ASSUME Inv, OwnerInv, LineInv,
           \/ WriteRefused \/ WriteTimedOut \/ ApplyBackpressure \/ SleepElapsed \/ WriteFrame
           \/ CountFrame \/ RouterUnblocked \/ RouterSeesClose \/ DelayElapsed \/ ConnectionRefused
           \/ ReplayFinished
    PROVE  LineInv'
<1>1. NoCommand \notin Commands /\ Sorted(order, chan)
    BY Zenon, CommandsAssumption, LineFacts
<1>2. UNCHANGED <<order, retry, buffer, replay, writer, chan>>
    BY Zenon DEF WriteRefused, WriteTimedOut, ApplyBackpressure, Ignored, SleepElapsed, WriteFrame, CountFrame,
        RouterUnblocked, RouterSeesClose, DelayElapsed, ConnectionRefused, ReplayFinished, connVars, envVars
<1>3. Queued' = Queued
    BY Zenon, <1>2 DEF Queued
<1>4. CASE WriteRefused \/ WriteTimedOut \/ ApplyBackpressure \/ SleepElapsed
  <2>1. /\ pc \in {"write", "sleep"} /\ pc' \in {"recv", "write", "sleep"}
        /\ cmd' \in {cmd, NoCommand}
      BY Zenon, <1>4 DEF WriteRefused, WriteTimedOut, ApplyBackpressure, CanWrite, Ignored, SleepElapsed
  <2>2. Held' \subseteq Held /\ Given' \subseteq Given
      BY Zenon, <1>1, <2>1 DEF Held, Given, Written
  <2> QED
      BY Zenon, <1>1, <1>2, <1>3, <2>1, <2>2, QuietLine DEF Written
<1>5. CASE WriteFrame
  <2>1. /\ UNCHANGED <<cmd, rx>>
        /\ \/ pc = "frame" /\ pc' = "count"
           \/ pc = "rframe" /\ pc' = "rcount"
      BY <1>5 DEF WriteFrame
  <2>2. Held' \subseteq Held /\ Given' \subseteq Given
      BY Zenon, <1>1, <2>1 DEF Held, Given, Written
  <2> QED
      BY Zenon, <1>1, <1>2, <1>3, <2>1, <2>2, QuietLine DEF Written
<1>6. CASE CountFrame
  <2>1. rx' = rx /\ \/ pc = "rcount" /\ pc' = "replay" /\ cmd' = cmd
                    \/ pc = "count" /\ rx = "none" /\ pc' = "recv" /\ cmd' = NoCommand
                    \/ pc = "count" /\ pc' = "await" /\ cmd' = cmd
      BY Zenon, <1>6 DEF CountFrame
  <2>2. Held' \subseteq Held /\ Given' \subseteq Given
      BY Zenon, <1>1, <2>1 DEF Held, Given, Written
  <2> QED
      BY Zenon, <1>1, <1>2, <1>3, <2>1, <2>2, QuietLine DEF Written
<1>7. CASE RouterUnblocked \/ RouterSeesClose
  <2>1. /\ pc = "await" /\ rx' = "none" /\ pc' \in {"recv", "closeStop", "delay"}
        /\ cmd' = NoCommand \/ (cmd' = cmd /\ rx = "closed")
      BY Zenon, <1>7 DEF RouterUnblocked, RouterSeesClose, StartReconnect
  <2>2. Held' \subseteq Held /\ Given' \subseteq Given
      BY Zenon, <1>1, <2>1 DEF Held, Given, Written
  <2> QED
      BY Zenon, <1>1, <1>2, <1>3, <2>1, <2>2, QuietLine
<1>8. CASE DelayElapsed \/ ConnectionRefused \/ ReplayFinished
  <2>1. /\ pc \in {"delay", "connect", "replay"} /\ UNCHANGED <<cmd, rx>>
        /\ pc' \in {"closeConnect", "closeStop", "delay", "write", "recv"}
      BY Zenon, <1>8 DEF DelayElapsed, ConnectionRefused, StartReconnect, ReplayFinished, AfterReconnect
  <2>2. Held' \subseteq Held /\ Given' \subseteq Given
      BY Zenon, <1>1, <2>1 DEF Held, Given, Written
  <2> QED
      BY Zenon, <1>1, <1>2, <1>3, <2>1, <2>2, QuietLine DEF Written
<1> QED
    BY Zenon, <1>4, <1>5, <1>6, <1>7, <1>8

(* The log holds each command once, from the moment it was sent. *)
LogInv ==
    /\ IsInjective(order)
    /\ \A c \in Commands : c \in Range(order) <=> ~NotSent(c)

(* Whatever is in line was sent; and a command whose caller waits is in line. *)
LEMMA LineHolds ==
    ASSUME Inv, OwnerInv, NEW c \in Commands
    PROVE  /\ \/ c \in Range(retry) \/ c \in Range(buffer) \/ c \in Given
              \/ c \in Range(replay) \/ c \in Held \/ c \in Queued
              => ~NotSent(c)
           /\ outcome[c] = "waiting" =>
              \/ c \in Range(retry) \/ c \in Range(buffer) \/ c \in Given
              \/ c \in Range(replay) \/ c \in Held \/ c \in Queued
<1>1. /\ TypeOK /\ Owned(c)
      /\ Occurrences(chan, c) \in Nat /\ Occurrences(buffer, c) \in Nat
      /\ Occurrences(retry, c) \in Nat /\ Occurrences(replay, c) \in Nat
      /\ Owners(c) \in Nat /\ (Owners(c) # 0 => ~NotSent(c))
    BY Zenon, OwnerFacts
<1>2. /\ c \in Range(chan) <=> Occurrences(chan, c) > 0
      /\ c \in Range(buffer) <=> Occurrences(buffer, c) > 0
      /\ c \in Range(retry) <=> Occurrences(retry, c) > 0
      /\ c \in Range(replay) <=> Occurrences(replay, c) > 0
    BY Zenon, <1>1, OccurrencesMember DEF TypeOK, CallerTypes, RouterTypes, StreamTypes
<1>3. /\ c \in Queued <=> c \in Range(chan)
      /\ c \in Held <=> InHand(c)
      /\ c \in Given <=> GivenBack(c)
    BY Zenon DEF Queued, Held, Given, InHand, GivenBack, Written
<1>4. Owners(c) # 0 <=>
        \/ c \in Range(retry) \/ c \in Range(buffer) \/ c \in Given
        \/ c \in Range(replay) \/ c \in Held \/ c \in Queued
    BY <1>1, <1>2, <1>3 DEF Owners
<1>5. outcome[c] = "waiting" => Owners(c) # 0
    BY <1>1 DEF Owned
<1> QED
    BY Zenon, <1>1, <1>4, <1>5

LEMMA LineSends ==
    ASSUME NEW o, NEW R, NEW B, NEW G, NEW P, NEW H, NEW C, Line(o, R, B, G, P, H, C), NEW o1, NEW x,
           \A c, d : Before(o, c, d) => Before(o1, c, d),
           \A c \in R \cup B \cup G \cup P \cup H : Before(o1, c, x),
           NEW C1, C1 \subseteq C \cup {x}
    PROVE  Line(o1, R, B, G, P, H, C1)
<1>1. Ahead(o1, R, B \cup G \cup P \cup H \cup C1)
    BY Zenon DEF Line, Ahead
<1>2. Ahead(o1, B, G \cup P \cup H \cup C1)
    BY Zenon DEF Line, Ahead
<1>3. Ahead(o1, G, P \cup H \cup C1)
    BY Zenon DEF Line, Ahead
<1>4. Ahead(o1, P, H \cup C1) /\ Ahead(o1, H, C1)
    BY Zenon DEF Line, Ahead
<1> QED
    BY Zenon, <1>1, <1>2, <1>3, <1>4 DEF Line

(* A command that is sent goes to the end of the line and of the log. *)
LEMMA SendLine ==
    ASSUME Inv, OwnerInv, LineInv, LogInv, NEW x \in Commands, Send(x)
    PROVE  LineInv' /\ LogInv'
<1>1. /\ UNCHANGED <<retry, buffer, replay, writer, pc, cmd, rx, sending>>
      /\ Pushed(chan, x, chan') /\ order' = Append(order, x) /\ NotSent(x)
      /\ outcome' = [outcome EXCEPT ![x] = "waiting"]
    BY Zenon DEF Send, routerVars, connVars, Pushed, NotSent
<1>2. Held' = Held /\ Given' = Given
    BY Zenon, <1>1 DEF Held, Given
<1>3. /\ \A c, d : Before(order, c, d) => Before(order', c, d)
      /\ \A c \in Range(order) : Before(order', c, x)
      /\ Range(order') = Range(order) \cup {x} /\ IsInjective(order')
  <2>1. order \in Seq(Commands) /\ x \notin Range(order) /\ IsInjective(order)
      BY Zenon, <1>1, LineFacts DEF LogInv
  <2> QED
      BY Zenon, <1>1, <2>1, LongerLog
<1>4. LogInv'
  <2>1. \A c \in Commands : NotSent(c)' <=> NotSent(c) /\ c # x
      BY Zenon, <1>1 DEF NotSent, Inv, TypeOK, CallerTypes
  <2> QED
      BY Zenon, <1>3, <2>1 DEF LogInv
<1>5. \A c \in Range(retry) \cup Range(buffer) \cup Given \cup Range(replay) \cup Held :
          Before(order', c, x)
  <2>1. \A c \in Range(retry) \cup Range(buffer) \cup Given \cup Range(replay) \cup Held : c \in Commands
    <3>1. Given \subseteq Commands /\ Held \subseteq Commands
        BY Zenon DEF Given, Held
    <3>2. retry \in Seq(Commands) /\ buffer \in Seq(Commands) /\ replay \in Seq(Commands)
        BY Zenon, LineFacts
    <3>3. \A s \in Seq(Commands) : Range(s) \subseteq Commands
        BY DEF Range
    <3> QED
        BY Zenon, <3>1, <3>2, <3>3
  <2> QED
      BY Zenon, <1>3, <2>1, LineHolds DEF LogInv
<1>6. \A c \in Queued : Before(order', c, x)
    BY Zenon, <1>3, LineHolds DEF LogInv, Queued
<1>7. \A s : Sorted(order, s) => Sorted(order', s)
    BY Zenon, <1>3 DEF Sorted
<1>8. Sorted(order', chan') /\ Range(chan') \subseteq Range(chan) \cup {x}
  <2> DEFINE X == Commands \cup {"Reconnect", "Force"}
  <2>1. chan \in Seq(X) /\ x \in X /\ Sorted(order', chan)
      BY Zenon, <1>7, LineFacts
  <2> HIDE DEF X
  <2>2. Ahead(order', Range(chan) \cap Commands, {x})
      BY Zenon, <1>6 DEF Ahead, Queued
  <2> QED
      BY Zenon, <1>1, <2>1, <2>2, PushedSorted
<1>9. Line(order', Range(retry), Range(buffer), Given, Range(replay), Held, Queued')
  <2>1. Line(order, Range(retry), Range(buffer), Given, Range(replay), Held, Queued)
      BY Zenon, LineFacts
  <2>2. Queued' \subseteq Queued \cup {x}
      BY Zenon, <1>8 DEF Queued
  <2>3. \A c, d : Before(order, c, d) => Before(order', c, d)
      BY Zenon, <1>3
  <2> QED
      BY Zenon, <1>5, <2>1, <2>2, <2>3, LineSends
<1>10. NewestWaits'
    BY Zenon, <1>1, <1>3, LineFacts DEF NewestWaits, Ahead
<1>11. /\ Sorted(order', retry) /\ Sorted(order', buffer) /\ Sorted(order', replay)
       /\ retry # <<>> => ~writer
    BY Zenon, <1>7, LineFacts
<1> QED
    BY Zenon, <1>1, <1>2, <1>4, <1>8, <1>9, <1>10, <1>11 DEF LineInv

LEMMA ReceiveCommandLine ==
    ASSUME Inv, OwnerInv, LineInv, ReceiveCommand
    PROVE  LineInv'
<1>1. PICK x : x = Head(chan)
    OBVIOUS
<1>2. /\ UNCHANGED <<order, retry, buffer, replay, writer, rx, sending>>
      /\ Popped(chan, x, chan') /\ pc = "recv" /\ pc' = "write" /\ cmd' = x /\ x \in Commands
    BY Zenon, <1>1 DEF ReceiveCommand, connVars, envVars, Popped
<1>3. /\ Sorted(order, chan') /\ Range(chan') \subseteq Range(chan) /\ x \in Range(chan)
      /\ Ahead(order, {x}, Range(chan') \cap Commands)
  <2> DEFINE X == Commands \cup {"Reconnect", "Force"}
  <2>1. chan \in Seq(X) /\ Sorted(order, chan)
      BY Zenon, LineFacts
  <2> HIDE DEF X
  <2> QED
      BY Zenon, <1>2, <2>1, PoppedSorted
<1>4. /\ Held = {} /\ Given = {} /\ Given' = {} /\ Held' = {x}
      /\ replay = <<>> /\ Range(<<>>) = {}
  <2>1. cmd = NoCommand /\ replay = <<>> /\ NoCommand \notin Commands
      BY Zenon, <1>2, CommandsAssumption, LineFacts DEF Hands, Reconnecting
  <2> QED
      BY Zenon, <1>2, <2>1, EmptySorted DEF Held, Given, Written
<1>5. Line(order, Range(retry), Range(buffer), {}, {}, Held', Queued')
  <2>1. Line(order, Range(retry), Range(buffer), {}, {}, {}, Queued)
      BY Zenon, <1>4, LineFacts
  <2>2. x \in Queued /\ Queued' \subseteq Queued /\ Ahead(order, {x}, Queued') /\ Held' \subseteq {x}
      BY Zenon, <1>2, <1>3, <1>4 DEF Queued
  <2> QED
      BY Zenon, <2>1, <2>2, LineReceives
<1>6. NewestWaits'
    BY Zenon, <1>2 DEF NewestWaits, Written
<1>7. /\ Sorted(order, retry) /\ Sorted(order, buffer) /\ Sorted(order, replay)
      /\ retry # <<>> => ~writer
    BY Zenon, LineFacts
<1> QED
    BY Zenon, <1>2, <1>3, <1>4, <1>5, <1>6, <1>7 DEF LineInv

LEMMA MovedLine ==
    ASSUME order' = order, Sorted(order, retry'), Sorted(order, buffer'), Sorted(order, replay'),
           Sorted(order, chan'),
           Line(order, Range(retry'), Range(buffer'), Given', Range(replay'), Held', Queued'),
           retry' # <<>> => ~writer', NewestWaits'
    PROVE  LineInv'
    BY Zenon DEF LineInv

(* Without a connection the command goes to the retry buffer, behind what is there. *)
LEMMA MissingConnectionLine ==
    ASSUME Inv, OwnerInv, LineInv, MissingConnection
    PROVE  LineInv'
<1>1. /\ UNCHANGED <<order, chan, buffer, replay, writer, sending>>
      /\ Pushed(retry, cmd, retry') /\ pc = "write" /\ ~writer
      /\ pc' = "closeStop" /\ cmd' = NoCommand /\ rx' = "none"
    BY Zenon DEF MissingConnection, connVars, envVars, Pushed
<1>2. /\ cmd \in Commands /\ NoCommand \notin Commands /\ retry \in Seq(Commands) /\ buffer = <<>>
      /\ Sorted(order, retry) /\ Sorted(order, buffer) /\ Sorted(order, replay) /\ Sorted(order, chan)
      /\ Line(order, Range(retry), Range(buffer), Given, Range(replay), Held, Queued)
      /\ replay = <<>>
    BY Zenon, <1>1, CommandsAssumption, LineFacts DEF Shape, Hands
<1>3. Given = {} /\ Given' = {} /\ cmd \in Held /\ Held' = {} /\ Queued' = Queued
    BY Zenon, <1>1, <1>2 DEF Given, Held, Queued, Written
<1>4. Range(<<>>) = {}
    BY Zenon, EmptySorted
<1>5. Line(order, Range(retry), {}, {}, {}, Held, Queued)
    BY Zenon, <1>2, <1>3, <1>4
<1>6. Ahead(order, Range(retry) \cap Commands, {cmd})
    BY Zenon, <1>3, <1>5 DEF Line, Ahead
<1>7. Sorted(order, retry') /\ Range(retry') \subseteq Range(retry) \cup {cmd}
    BY Zenon, <1>1, <1>2, <1>6, PushedSorted
<1>8. Line(order, Range(retry'), {}, {}, {}, {}, Queued)
    BY Zenon, <1>3, <1>5, <1>7, LineQueues
<1>9. NewestWaits'
    BY Zenon, <1>1 DEF NewestWaits
<1> QED
    BY Zenon, <1>1, <1>2, <1>3, <1>4, <1>7, <1>8, <1>9, MovedLine

(* push_command: the router writes a command only when nothing is left to replay. *)
LEMMA PushCommandLine ==
    ASSUME Inv, OwnerInv, LineInv, PushCommand
    PROVE  LineInv'
<1>1. /\ UNCHANGED <<order, chan, retry, replay, writer, cmd>>
      /\ pc = "write" /\ writer /\ pc' = "frame"
      /\ \/ buffer' = buffer /\ rx' \in {"none", "continue"}
         \/ Pushed(buffer, cmd, buffer') /\ rx' \in {rx, "empty"}
    BY Zenon DEF PushCommand, CanWrite, Receiver, envVars, Pushed
<1>2. /\ cmd \in Commands /\ buffer \in Seq(Commands) /\ rx \in {"none", "empty"}
      /\ Sorted(order, retry) /\ Sorted(order, buffer) /\ Sorted(order, replay) /\ Sorted(order, chan)
      /\ Line(order, Range(retry), Range(buffer), Given, Range(replay), Held, Queued)
      /\ replay = <<>> /\ (retry # <<>> => ~writer)
    BY Zenon, <1>1, LineFacts DEF Shape, Hands
<1>3. Given = {} /\ Given' = {} /\ cmd \in Held /\ Held' = {} /\ Queued' = Queued
    BY Zenon, <1>1, <1>2 DEF Given, Held, Queued, Written
<1>4. CASE buffer' = buffer /\ rx' \in {"none", "continue"}
  <2>1. ~(rx' = "empty")
      BY Zenon, <1>4
  <2>2. Queued' \subseteq Queued /\ Held' \subseteq Held /\ Given' \subseteq Given
      BY Zenon, <1>3
  <2> QED
      BY Zenon, <1>1, <1>2, <1>4, <2>1, <2>2, QuietLine
<1>5. CASE Pushed(buffer, cmd, buffer')
  <2>1. Range(<<>>) = {}
      BY Zenon, EmptySorted
  <2>2. Line(order, Range(retry), Range(buffer), {}, {}, Held, Queued)
      BY Zenon, <1>2, <1>3, <2>1
  <2>3. Ahead(order, Range(buffer), {cmd})
      BY Zenon, <1>3, <2>2 DEF Line, Ahead
  <2>4. Ahead(order, Range(buffer) \cap Commands, {cmd})
      BY Zenon, <2>3 DEF Ahead
  <2>5. Sorted(order, buffer') /\ Range(buffer') \subseteq Range(buffer) \cup {cmd}
      BY Zenon, <1>2, <1>5, <2>4, PushedSorted
  <2>6. Line(order, Range(retry), Range(buffer'), {}, {}, {}, Queued)
      BY Zenon, <1>3, <2>2, <2>5, LinePushes
  <2>7. NewestWaits'
      BY Zenon, <1>1, <2>3, <2>5 DEF NewestWaits, Ahead
  <2> QED
      BY Zenon, <1>1, <1>2, <1>3, <2>1, <2>5, <2>6, <2>7, MovedLine
<1> QED
    BY Zenon, <1>1, <1>4, <1>5

(* A failed write takes the newest command back. *)
LEMMA WriteFailsLine ==
    ASSUME Inv, OwnerInv, LineInv, WriteFails
    PROVE  LineInv'
<1>1. PICK x : x = Last(buffer)
    OBVIOUS
<1>2. /\ UNCHANGED <<order, chan, retry, replay, writer>>
      /\ pc \in {"frame", "rframe"} /\ rx' = "none"
      /\ pc = "frame" => cmd' = NoCommand
      /\ pc = "rframe" => cmd' = cmd
      /\ \/ /\ buffer' = buffer /\ pc' \in {"recv", "replay"}
         \/ /\ TakenBack(buffer, x, buffer') /\ pc' \in {"closeWrite", "closeReplay"}
            /\ sending' \in {NoCommand, x}
  <2>1. /\ UNCHANGED <<order, chan, retry, replay, writer>>
        /\ pc \in {"frame", "rframe"} /\ rx' = "none"
        /\ pc = "frame" => cmd' = NoCommand
        /\ pc # "frame" => cmd' = cmd
      BY Zenon DEF WriteFails, envVars
  <2>2. \/ /\ buffer' = buffer /\ pc' \in {"recv", "replay"}
        \/ /\ TakenBack(buffer, x, buffer') /\ pc' \in {"closeWrite", "closeReplay"}
           /\ sending' \in {NoCommand, x}
      BY Zenon, <1>1 DEF WriteFails, PopRecent, TakenBack
  <2> QED
      BY Zenon, <2>1, <2>2
<1>3. /\ NoCommand \notin Commands /\ buffer \in Seq(Commands)
      /\ Sorted(order, retry) /\ Sorted(order, buffer) /\ Sorted(order, replay) /\ Sorted(order, chan)
      /\ Line(order, Range(retry), Range(buffer), Given, Range(replay), Held, Queued)
      /\ retry # <<>> => ~writer
    BY Zenon, CommandsAssumption, LineFacts
<1>4. Given = {} /\ Held' \subseteq Held /\ Queued' = Queued
    BY Zenon, <1>2, <1>3 DEF Given, Held, Queued, Written
<1>5. CASE buffer' = buffer /\ pc' \in {"recv", "replay"}
  <2>1. Given' = {} /\ ~(rx' = "empty")
      BY Zenon, <1>2, <1>5 DEF Given
  <2>2. Queued' \subseteq Queued /\ Given' \subseteq Given
      BY Zenon, <1>4, <2>1
  <2> QED
      BY Zenon, <1>2, <1>3, <1>4, <1>5, <2>1, <2>2, QuietLine
<1>6. CASE /\ TakenBack(buffer, x, buffer') /\ pc' \in {"closeWrite", "closeReplay"}
           /\ sending' \in {NoCommand, x}
  <2>1. /\ Sorted(order, buffer') /\ Range(buffer') \subseteq Range(buffer) /\ x \in Range(buffer)
        /\ Ahead(order, Range(buffer'), {x})
    <3>1. Commands \subseteq Commands
        BY Zenon
    <3> QED
        BY Zenon, <1>3, <1>6, <3>1, TakenBackSorted
  <2>2. Given' \subseteq {x}
      BY Zenon, <1>3, <1>6 DEF Given
  <2>3. Line(order, Range(retry), Range(buffer), {}, Range(replay), Held, Queued)
      BY Zenon, <1>3, <1>4
  <2>4. Line(order, Range(retry), Range(buffer'), Given', Range(replay), Held', Queued)
      BY Zenon, <1>4, <2>1, <2>2, <2>3, LineTakesBack
  <2>5. NewestWaits'
      BY Zenon, <1>2 DEF NewestWaits
  <2> QED
      BY Zenon, <1>2, <1>3, <1>4, <2>1, <2>4, <2>5, MovedLine
<1> QED
    BY Zenon, <1>2, <1>5, <1>6

(* buffer_commands and buffer_command keep the order. *)
LEMMA RequeuedSorted ==
    ASSUME NEW o, NEW s \in Seq(Commands), NEW r \in Seq(Commands), Sorted(o, s), Sorted(o, r),
           NEW f \in Commands \cup {NoCommand}, NEW t, Requeued(s, r, f, t),
           Ahead(o, Range(s), Range(r)),
           f \in Commands => Ahead(o, Range(s), {f}) /\ Ahead(o, Range(r), {f})
    PROVE  Sorted(o, t) /\ Range(t) \subseteq Range(s) \cup Range(r) \cup ({f} \cap Commands)
<1>1. PICK u : u = s \o r
    OBVIOUS
<1>2. Joined(s, r, u) /\ u \in Seq(Commands) /\ NoCommand \notin Commands
    BY <1>1, CommandsAssumption DEF Joined
<1>3. f = NoCommand => t = u
    BY <1>1 DEF Requeued, Requeue, Optional
<1>4. f # NoCommand => Pushed(u, f, t)
    BY <1>1 DEF Requeued, Requeue, Optional, Pushed
<1>5. Sorted(o, u) /\ Range(u) \subseteq Range(s) \cup Range(r)
    BY Zenon, <1>2, JoinedSorted
<1>6. CASE f = NoCommand
    BY Zenon, <1>3, <1>5, <1>6
<1>7. CASE f # NoCommand
  <2>1. f \in Commands
      BY Zenon, <1>7
  <2>2. Ahead(o, Range(u) \cap Commands, {f})
      BY Zenon, <1>5, <2>1 DEF Ahead
  <2>3. Sorted(o, t) /\ Range(t) \subseteq Range(u) \cup {f}
      BY Zenon, <1>2, <1>4, <1>5, <1>7, <2>1, <2>2, PushedSorted
  <2> QED
      BY Zenon, <1>5, <2>1, <2>3
<1> QED
    BY Zenon, <1>6, <1>7

(* Closing puts the shared buffer and the command given back behind the retry buffer. *)
LEMMA ClosedLine ==
    ASSUME Inv, OwnerInv, LineInv, NEW f \in Commands \cup {NoCommand}, {f} \cap Commands \subseteq Given,
           UNCHANGED <<order, chan, cmd>>, replay' \in {replay, <<>>},
           Requeued(retry, buffer, f, retry'), buffer' = <<>>, writer' = FALSE,
           pc \in Closing, pc' \in {"recv", "connect", "write", "closeStop"}
    PROVE  LineInv'
<1>1. /\ retry \in Seq(Commands) /\ buffer \in Seq(Commands)
      /\ Sorted(order, retry) /\ Sorted(order, buffer) /\ Sorted(order, replay) /\ Sorted(order, chan)
      /\ Line(order, Range(retry), Range(buffer), Given, Range(replay), Held, Queued)
    BY Zenon, LineFacts
<1>2. Given' = {} /\ Held' = Held /\ Queued' = Queued
    BY Zenon DEF Given, Held, Queued, Written, Closing
<1>3. /\ Ahead(order, Range(retry), Range(buffer))
      /\ f \in Commands => Ahead(order, Range(retry), {f}) /\ Ahead(order, Range(buffer), {f})
    BY Zenon, <1>1 DEF Line, Ahead
<1>4. /\ Sorted(order, retry')
      /\ Range(retry') \subseteq Range(retry) \cup Range(buffer) \cup ({f} \cap Commands)
    BY Zenon, <1>1, <1>3, RequeuedSorted
<1>5. Range(retry') \subseteq Range(retry) \cup Range(buffer) \cup Given
    BY Zenon, <1>4
<1>6. Range(<<>>) = {} /\ Sorted(order, buffer') /\ Sorted(order, replay')
    BY Zenon, <1>1, EmptySorted
<1>7. Range(replay') \subseteq Range(replay)
    BY Zenon, <1>6
<1>8. Line(order, Range(retry'), {}, {}, Range(replay'), Held, Queued)
    BY <1>1, <1>5, <1>7, LineCloses
<1>9. NewestWaits'
    BY Zenon DEF NewestWaits, Written
<1> QED
    BY Zenon, <1>1, <1>2, <1>4, <1>6, <1>8, <1>9, MovedLine

LEMMA ClosesLine ==
    ASSUME Inv, OwnerInv, LineInv, ClosedAfterWrite \/ ClosedBeforeConnect \/ ClosedDuringReplay
    PROVE  LineInv'
<1>1. sending \in Commands \cup {NoCommand} /\ NoCommand \notin Commands
    BY Zenon, CommandsAssumption DEF Inv, TypeOK, RouterTypes
<1>2. CASE ClosedBeforeConnect
  <2>1. /\ UNCHANGED <<order, chan, cmd>> /\ replay' \in {replay, <<>>}
        /\ Requeued(retry, buffer, NoCommand, retry') /\ buffer' = <<>> /\ writer' = FALSE
        /\ pc \in Closing /\ pc' \in {"recv", "connect", "write", "closeStop"}
      BY Zenon, <1>2 DEF ClosedBeforeConnect, ReleaseConnection, Requeued, Closing
  <2>2. NoCommand \in Commands \cup {NoCommand} /\ {NoCommand} \cap Commands \subseteq Given
      BY Zenon, <1>1
  <2> QED
      BY Zenon, <2>1, <2>2, ClosedLine
<1>3. CASE ClosedAfterWrite \/ ClosedDuringReplay
  <2>1. /\ UNCHANGED <<order, chan, cmd>> /\ replay' \in {replay, <<>>}
        /\ Requeued(retry, buffer, sending, retry') /\ buffer' = <<>> /\ writer' = FALSE
        /\ pc \in {"closeWrite", "closeReplay"} /\ pc' \in {"recv", "connect", "write", "closeStop"}
      BY Zenon, <1>3 DEF ClosedAfterWrite, ClosedDuringReplay, ReleaseConnection, AfterReconnect, Requeued
  <2>2. pc \in Closing /\ {sending} \cap Commands \subseteq Given
      BY Zenon, <2>1 DEF Closing, Given
  <2> QED
      BY Zenon, <1>1, <2>1, <2>2, ClosedLine
<1> QED
    BY Zenon, <1>2, <1>3

LEMMA ClosedAndStoppedLine ==
    ASSUME Inv, OwnerInv, LineInv, ClosedAndStopped
    PROVE  LineInv'
<1>1. /\ UNCHANGED <<order, chan, replay>> /\ retry' = <<>> /\ buffer' = <<>> /\ cmd' = NoCommand
      /\ pc' = "stopped"
    BY Zenon DEF ClosedAndStopped, ReleaseConnection
<1>2. /\ NoCommand \notin Commands /\ Sorted(order, replay) /\ Sorted(order, chan)
      /\ Line(order, Range(retry), Range(buffer), Given, Range(replay), Held, Queued)
    BY Zenon, CommandsAssumption, LineFacts
<1>3. Given' = {} /\ Held' = {} /\ Queued' = Queued
    BY Zenon, <1>1, <1>2 DEF Given, Held, Queued, Written
<1>4. Range(<<>>) = {} /\ Sorted(order, <<>>)
    BY Zenon, EmptySorted
<1>5. Line(order, {}, {}, {}, Range(replay), {}, Queued)
    BY Zenon, <1>2, LineShrinks
<1>6. NewestWaits'
    BY Zenon, <1>1 DEF NewestWaits, Written
<1> QED
    BY Zenon, <1>1, <1>2, <1>3, <1>4, <1>5, <1>6, MovedLine

LEMMA ConnectionMadeLine ==
    ASSUME Inv, OwnerInv, LineInv, ConnectionMade
    PROVE  LineInv'
<1>1. /\ UNCHANGED <<order, chan, buffer, cmd>> /\ replay' = retry /\ retry' = <<>>
      /\ pc = "connect" /\ pc' = "replay"
    BY Zenon DEF ConnectionMade, envVars
<1>2. /\ buffer = <<>> /\ replay = <<>>
      /\ Sorted(order, retry) /\ Sorted(order, buffer) /\ Sorted(order, chan)
      /\ Line(order, Range(retry), Range(buffer), Given, Range(replay), Held, Queued)
    BY Zenon, <1>1, LineFacts DEF Shape, Hands
<1>3. Given = {} /\ Given' = {} /\ Held' = Held /\ Queued' = Queued
    BY Zenon, <1>1 DEF Given, Held, Queued, Written
<1>4. Range(<<>>) = {} /\ Sorted(order, <<>>)
    BY Zenon, EmptySorted
<1>5. Line(order, Range(retry), {}, {}, {}, Held, Queued)
    BY Zenon, <1>2, <1>3, <1>4
<1>6. Line(order, {}, {}, {}, Range(retry), Held, Queued)
    BY Zenon, <1>5, LineStartsReplay
<1>7. NewestWaits'
    BY Zenon, <1>1 DEF NewestWaits, Written
<1> QED
    BY Zenon, <1>1, <1>2, <1>3, <1>4, <1>6, <1>7, MovedLine

(* retry_buffer takes the commands in order, each behind those written before it. *)
LEMMA ReplayCommandLine ==
    ASSUME Inv, OwnerInv, LineInv, ReplayCommand
    PROVE  LineInv'
<1>1. PICK x : x = Head(replay)
    OBVIOUS
<1>2. /\ UNCHANGED <<order, chan, retry, writer, cmd>> /\ Popped(replay, x, replay')
      /\ pc = "replay" /\ pc' \in {"replay", "rframe"}
      /\ buffer' = buffer \/ Pushed(buffer, x, buffer')
    BY Zenon, <1>1 DEF ReplayCommand, envVars, Popped, Pushed
<1>3. /\ buffer \in Seq(Commands) /\ replay \in Seq(Commands) /\ retry = <<>>
      /\ Sorted(order, retry) /\ Sorted(order, buffer) /\ Sorted(order, replay) /\ Sorted(order, chan)
      /\ Line(order, Range(retry), Range(buffer), Given, Range(replay), Held, Queued)
    BY Zenon, <1>2, LineFacts DEF Shape
<1>4. Given = {} /\ Given' = {} /\ Held' = Held /\ Queued' = Queued
    BY Zenon, <1>2 DEF Given, Held, Queued, Written
<1>5. Range(<<>>) = {}
    BY Zenon, EmptySorted
<1>6. Line(order, {}, Range(buffer), {}, Range(replay), Held, Queued)
    BY Zenon, <1>3, <1>4, <1>5
<1>7. /\ Sorted(order, replay') /\ Range(replay') \subseteq Range(replay) /\ x \in Range(replay)
      /\ x \in Commands /\ replay' \in Seq(Commands)
      /\ Ahead(order, {x}, Range(replay') \cap Commands)
    BY Zenon, <1>2, <1>3, PoppedSorted
<1>8. Ahead(order, {x}, Range(replay'))
  <2>1. Range(replay') \subseteq Commands
      BY <1>7 DEF Range
  <2> QED
      BY Zenon, <1>7, <2>1 DEF Ahead
<1>9. Sorted(order, buffer') /\ Range(buffer') \subseteq Range(buffer) \cup {x}
  <2>1. CASE buffer' = buffer
      BY Zenon, <1>3, <2>1
  <2>2. CASE Pushed(buffer, x, buffer')
    <3>1. Ahead(order, Range(buffer) \cap Commands, {x})
        BY Zenon, <1>6, <1>7 DEF Line, Ahead
    <3> QED
        BY Zenon, <1>3, <1>7, <2>2, <3>1, PushedSorted
  <2> QED
      BY Zenon, <1>2, <2>1, <2>2
<1>10. Line(order, {}, Range(buffer'), {}, Range(replay'), Held, Queued)
    BY Zenon, <1>6, <1>7, <1>8, <1>9, LineReplays
<1>11. NewestWaits'
    BY Zenon, <1>2 DEF NewestWaits, Written
<1> QED
    BY Zenon, <1>2, <1>3, <1>4, <1>5, <1>7, <1>9, <1>10, <1>11, MovedLine

(* The reader takes the front of the shared buffer off. *)
LEMMA FrontLine ==
    ASSUME Inv, OwnerInv, LineInv, NEW x, Popped(buffer, x, buffer'),
           UNCHANGED <<order, retry, replay, writer, chan, pc, cmd, sending>>,
           rx' = rx \/ (rx = "empty" /\ rx' # "empty" /\ rx' # "closed")
    PROVE  LineInv'
<1>1. /\ buffer \in Seq(Commands) /\ (retry # <<>> => ~writer)
      /\ Sorted(order, retry) /\ Sorted(order, buffer) /\ Sorted(order, replay) /\ Sorted(order, chan)
      /\ Line(order, Range(retry), Range(buffer), Given, Range(replay), Held, Queued)
    BY Zenon, LineFacts
<1>2. Sorted(order, buffer') /\ Range(buffer') \subseteq Range(buffer)
    BY Zenon, <1>1, PoppedSorted
<1>3. Given' = Given /\ Held' = Held /\ Queued' = Queued
    BY Zenon DEF Given, Held, Queued
<1>4. Line(order, Range(retry), Range(buffer'), Given, Range(replay), Held, Queued)
    BY Zenon, <1>1, <1>2, LineShrinks
<1>5. NewestWaits'
    BY Zenon, <1>2 DEF NewestWaits, LineInv, Ahead
<1> QED
    BY Zenon, <1>1, <1>2, <1>3, <1>4, <1>5, MovedLine

LEMMA ReadResponseLine ==
    ASSUME Inv, OwnerInv, LineInv, ReadResponse
    PROVE  LineInv'
<1>1. UNCHANGED <<order, retry, replay, writer, chan, pc, cmd, sending>>
    BY Zenon DEF ReadResponse, envVars
<1>2. CASE buffer = <<>>
  <2>1. UNCHANGED <<buffer, rx>>
      BY Zenon, <1>2 DEF ReadResponse
  <2> QED
      BY Zenon, <1>1, <2>1, ServerLine
<1>3. CASE buffer # <<>>
  <2>1. PICK x : x = Head(buffer)
      OBVIOUS
  <2>2. Popped(buffer, x, buffer') /\ rx' = Unblock(x, "continue")
      BY Zenon, <1>3, <2>1 DEF ReadResponse, Popped
  <2>3. x \in Commands
      BY Zenon, <2>2, PoppedSorted, LineFacts
  <2>4. rx' = rx \/ (rx = "empty" /\ rx' # "empty" /\ rx' # "closed")
    <3>1. rx' = rx \/ (tx[x] = "live" /\ rx' = "continue")
        BY <2>2 DEF Unblock
    <3> QED
        BY Zenon, <2>3, <3>1, LineFacts DEF Wakeups
  <2> QED
      BY Zenon, <1>1, <2>2, <2>4, FrontLine
<1> QED
    BY Zenon, <1>2, <1>3

(* The router that waits is woken for the newest command, so none stays in the buffer. *)
LEMMA WokenLine ==
    ASSUME Inv, OwnerInv, LineInv, LogInv, NEW x \in Commands, Popped(buffer, x, buffer'), tx[x] = "live",
           rx' = "closed", UNCHANGED <<order, retry, replay, writer, chan, pc, cmd, sending>>
    PROVE  LineInv'
<1>1. /\ buffer \in Seq(Commands) /\ order \in Seq(Commands) /\ (retry # <<>> => ~writer)
      /\ (~writer => buffer = <<>>) /\ Shape /\ Hands /\ Wakeups
      /\ Sorted(order, retry) /\ Sorted(order, buffer) /\ Sorted(order, replay) /\ Sorted(order, chan)
      /\ Line(order, Range(retry), Range(buffer), Given, Range(replay), Held, Queued)
    BY Zenon, LineFacts
<1>2. x = cmd /\ rx = "empty" /\ pc \in {"write", "sleep", "frame", "count", "await"}
    BY Zenon, <1>1 DEF Wakeups
<1>3. /\ Sorted(order, buffer') /\ Range(buffer') \subseteq Range(buffer) /\ x \in Range(buffer)
      /\ Ahead(order, {x}, Range(buffer') \cap Commands) /\ buffer' \in Seq(Commands)
    BY Zenon, <1>1, PoppedSorted
<1>4. \A c, d : Before(order, c, d) => ~Before(order, d, c)
    BY Zenon, <1>1, NotBeforeAndAfter DEF LogInv
<1>5. pc \in Written
  <2>1. CASE pc \in {"write", "sleep"}
    <3>1. x \in Held
        BY Zenon, <1>2, <2>1 DEF Held, Written
    <3>2. Before(order, x, x)
        BY Zenon, <1>1, <1>3, <3>1 DEF Line, Ahead
    <3> QED
        BY Zenon, <1>4, <3>2
  <2> QED
      BY Zenon, <1>2, <2>1 DEF Written
<1>6. \A d \in Range(buffer') : FALSE
  <2>1. \A d \in Range(buffer') : d \in Commands
      BY <1>3 DEF Range
  <2>2. Ahead(order, Range(buffer) \ {x}, {x})
      BY Zenon, <1>2, <1>5 DEF LineInv, NewestWaits
  <2>3. \A d \in Range(buffer') : Before(order, x, d)
      BY Zenon, <1>3, <2>1 DEF Ahead
  <2> QED
      BY Zenon, <1>3, <1>4, <2>2, <2>3 DEF Ahead
<1>7. /\ retry = <<>> /\ replay = <<>> /\ Given = {} /\ Held = {}
      /\ Given' = {} /\ Held' \subseteq {x} /\ Queued' = Queued
  <2>1. replay = <<>> /\ buffer # <<>>
      BY Zenon, <1>1, <1>5 DEF Hands, Written, Popped
  <2>2. retry = <<>>
      BY Zenon, <1>1, <2>1
  <2>3. Given = {} /\ Held = {} /\ Given' = {} /\ Held' \subseteq {x} /\ Queued' = Queued
      BY Zenon, <1>2, <1>5 DEF Given, Held, Queued, Written
  <2> QED
      BY Zenon, <2>1, <2>2, <2>3
<1>8. Range(<<>>) = {} /\ Range(buffer') = {}
    BY Zenon, <1>6, EmptySorted
<1>9. Line(order, {}, {}, {}, {}, Held', Queued)
  <2>1. Line(order, {}, Range(buffer), {}, {}, {}, Queued)
      BY Zenon, <1>1, <1>7, <1>8
  <2> QED
      BY Zenon, <1>3, <1>7, <2>1, LineWakes
<1>10. NewestWaits'
    BY Zenon DEF NewestWaits
<1> QED
    BY Zenon, <1>1, <1>3, <1>7, <1>8, <1>9, <1>10, MovedLine

LEMMA CheckBlockedLine ==
    ASSUME Inv, OwnerInv, LineInv, LogInv, ReaderSeesEnd \/ ReaderFails
    PROVE  LineInv'
<1>1. UNCHANGED <<order, retry, replay, writer, chan, pc, cmd, sending>> /\ CheckBlockedRouter
    BY Zenon DEF ReaderSeesEnd, ReaderFails, envVars
<1>2. PICK x : x = Head(buffer)
    OBVIOUS
<1>3. CASE UNCHANGED <<buffer, rx>>
    BY Zenon, <1>1, <1>3, ServerLine
<1>4. CASE Popped(buffer, x, buffer') /\ rx' = Unblock(x, "closed")
  <2>1. x \in Commands
      BY Zenon, <1>4, PoppedSorted, LineFacts
  <2>2. CASE tx[x] = "live"
      BY Zenon, <1>1, <1>4, <2>1, <2>2, WokenLine DEF Unblock
  <2>3. CASE tx[x] # "live"
    <3>1. rx' = rx
        BY <1>4, <2>3 DEF Unblock
    <3> QED
        BY Zenon, <1>1, <1>4, <3>1, FrontLine
  <2> QED
      BY Zenon, <2>2, <2>3
<1> QED
    BY Zenon, <1>1, <1>2, <1>3, <1>4 DEF CheckBlockedRouter, Popped

LEMMA CheckFinalLine ==
    ASSUME Inv, OwnerInv, LineInv, CheckFinalAttempt
    PROVE  LineInv'
<1>1. /\ UNCHANGED <<order, retry, replay, writer, chan, pc, cmd, sending>>
      /\ Filtered(buffer, OnFinalAttempt, buffer')
      /\ rx' = IF \E c \in OnFinalAttempt : tx[c] = "live" THEN "dropped" ELSE rx
    BY Zenon DEF CheckFinalAttempt, envVars, Filtered
<1>2. /\ buffer \in Seq(Commands) /\ (retry # <<>> => ~writer) /\ Wakeups
      /\ Sorted(order, retry) /\ Sorted(order, buffer) /\ Sorted(order, replay) /\ Sorted(order, chan)
      /\ Line(order, Range(retry), Range(buffer), Given, Range(replay), Held, Queued)
    BY Zenon, LineFacts
<1>3. Sorted(order, buffer') /\ Range(buffer') \subseteq Range(buffer)
    BY Zenon, <1>1, <1>2, FilteredSorted
<1>4. \A c \in OnFinalAttempt : c \in Commands
    BY <1>2 DEF OnFinalAttempt, Range
<1>5. rx' = rx \/ (rx = "empty" /\ rx' = "dropped")
  <2>1. rx' = rx \/ ((\E c \in OnFinalAttempt : tx[c] = "live") /\ rx' = "dropped")
      BY <1>1
  <2> QED
      BY Zenon, <1>2, <1>4, <2>1 DEF Wakeups
<1>6. Given' = Given /\ Held' = Held /\ Queued' = Queued
    BY Zenon, <1>1, <1>5 DEF Given, Held, Queued
<1>7. Line(order, Range(retry), Range(buffer'), Given, Range(replay), Held, Queued)
    BY Zenon, <1>2, <1>3, LineShrinks
<1>8. NewestWaits'
    BY Zenon, <1>1, <1>3, <1>5 DEF NewestWaits, LineInv, Ahead
<1> QED
    BY Zenon, <1>1, <1>2, <1>3, <1>6, <1>7, <1>8, MovedLine

(* Every step keeps the line. *)
LEMMA LineStep ==
    ASSUME Inv, OwnerInv, LineInv, LogInv, [Next]_vars
    PROVE  LineInv'
<1>1. CASE \E c \in Commands : Send(c)
    BY Zenon, <1>1, SendLine
<1>2. CASE Connect \/ \E c \in Commands : BeginQuit(c) \/ TimeOut(c)
    BY Zenon, <1>2, CallersLine
<1>3. CASE ForceReconnection \/ NotifyRouter \/ ReceiveReconnect
    BY Zenon, <1>3, MessagesLine
<1>4. CASE \/ WriteRefused \/ WriteTimedOut \/ ApplyBackpressure \/ SleepElapsed \/ WriteFrame
           \/ CountFrame \/ RouterUnblocked \/ RouterSeesClose \/ DelayElapsed \/ ConnectionRefused
           \/ ReplayFinished
    BY Zenon, <1>4, RouterLine
<1>5. CASE ReceiveCommand \/ MissingConnection \/ PushCommand \/ WriteFails
    BY Zenon, <1>5, ReceiveCommandLine, MissingConnectionLine, PushCommandLine, WriteFailsLine
<1>6. CASE ClosedAfterWrite \/ ClosedBeforeConnect \/ ClosedDuringReplay \/ ClosedAndStopped
    BY Zenon, <1>6, ClosesLine, ClosedAndStoppedLine
<1>7. CASE ConnectionMade \/ ReplayCommand
    BY Zenon, <1>7, ConnectionMadeLine, ReplayCommandLine
<1>8. CASE ReadResponse \/ ReaderSeesEnd \/ ReaderFails \/ CheckFinalAttempt
    BY Zenon, <1>8, ReadResponseLine, CheckBlockedLine, CheckFinalLine
<1>9. CASE \/ UNCHANGED vars \/ ReaderEnds \/ ServerExecutes \/ ServerCloses \/ ConnectionLost
           \/ \E c \in Commands : ServerExecutesOrphan(c)
  <2>1. UNCHANGED <<order, retry, buffer, replay, writer, chan, pc, cmd, rx, sending>>
      BY Zenon, <1>9 DEF vars, ReaderEnds, ServerExecutes, ServerCloses, ConnectionLost,
          ServerExecutesOrphan, callerVars, commandVars, routerVars, connVars, envVars
  <2> QED
      BY Zenon, <2>1, ServerLine
<1> QED
    BY Zenon, <1>1, <1>2, <1>3, <1>4, <1>5, <1>6, <1>7, <1>8, <1>9
    DEF Next, CallerNext, RouterNext, ReaderNext, ServerNext, FaultNext

(* Only a send changes the log. *)
LEMMA LogKept ==
    ASSUME [Next]_vars, \A d \in Commands : ~Send(d)
    PROVE  order' = order
<1>1. CASE \/ UNCHANGED vars \/ Connect \/ ForceReconnection
           \/ \E d \in Commands : BeginQuit(d) \/ TimeOut(d)
    BY <1>1, Zenon DEF Connect, ForceReconnection, BeginQuit, TimeOut, envVars, vars
<1>2. CASE RouterNext
    BY <1>2, Zenon DEF RouterNext, ReceiveCommand, ReceiveReconnect, WriteRefused, MissingConnection,
        WriteTimedOut, ApplyBackpressure, SleepElapsed, PushCommand, WriteFrame, CountFrame,
        WriteFails, RouterUnblocked, RouterSeesClose, ClosedAfterWrite, ClosedBeforeConnect,
        ClosedAndStopped, DelayElapsed, ConnectionMade, ConnectionRefused, ReplayCommand,
        ReplayFinished, ClosedDuringReplay, envVars
<1>3. CASE ReaderNext
    BY <1>3, Zenon DEF ReaderNext, ReadResponse, ReaderSeesEnd, CheckFinalAttempt, NotifyRouter,
        ReaderEnds, envVars
<1>4. CASE ServerNext \/ FaultNext
    BY <1>4, Zenon DEF ServerNext, FaultNext, ReaderFails, ServerExecutes, ServerCloses,
        ConnectionLost, ServerExecutesOrphan, envVars
<1> QED
    BY Zenon, <1>1, <1>2, <1>3, <1>4 DEF Next, CallerNext

LEMMA LogStep ==
    ASSUME Inv, OwnerInv, FrameInv, LineInv, LogInv, [Next]_vars
    PROVE  LogInv'
<1>1. CASE \E d \in Commands : Send(d)
    BY Zenon, <1>1, SendLine
<1>2. CASE \A d \in Commands : ~Send(d)
  <2>1. order' = order
      BY Zenon, <1>2, LogKept
  <2>2. \A c \in Commands : Resolved(c)
      BY Zenon, <1>2, ResolvedStep
  <2>3. \A c \in Commands : NotSent(c)' <=> NotSent(c)
      BY Zenon, <2>2 DEF Resolved, NotSent, Final
  <2> QED
      BY Zenon, <2>1, <2>3 DEF LogInv
<1> QED
    BY Zenon, <1>1, <1>2

(* While the reader task reads, the front of the shared buffer was sent before every
   other command whose caller waits. *)
LEMMA FrontIsFirst ==
    ASSUME Inv, OwnerInv, LineInv, NEW c \in Commands, AtFront(c),
           NEW d \in Commands, outcome[d] = "waiting", d # c
    PROVE  Before(order, c, d)
<1>1. /\ buffer \in Seq(Commands) /\ (retry # <<>> => ~writer) /\ Shape
      /\ Sorted(order, buffer)
      /\ Line(order, Range(retry), Range(buffer), Given, Range(replay), Held, Queued)
    BY Zenon, LineFacts
<1>2. retry = <<>> /\ Range(<<>>) = {}
    BY Zenon, <1>1, EmptySorted DEF Shape, AtFront
<1>3. 1 \in DOMAIN buffer /\ c = buffer[1] /\ \A k \in DOMAIN buffer : k # 1 => 1 < k
    BY <1>1 DEF AtFront
<1>4. c \in Range(buffer)
    BY Zenon, <1>3 DEF Range
<1>5. CASE d \in Range(buffer)
  <2>1. PICK k \in DOMAIN buffer : d = buffer[k]
      BY Zenon, <1>5 DEF Range
  <2> QED
      BY Zenon, <1>1, <1>3, <2>1 DEF Sorted
<1>6. CASE d \in Given \/ d \in Range(replay) \/ d \in Held \/ d \in Queued
    BY Zenon, <1>1, <1>4, <1>6 DEF Line, Ahead
<1>7. \/ d \in Range(retry) \/ d \in Range(buffer) \/ d \in Given
      \/ d \in Range(replay) \/ d \in Held \/ d \in Queued
    BY Zenon, LineHolds
<1> QED
    BY Zenon, <1>2, <1>5, <1>6, <1>7

LEMMA AnswersStep ==
    ASSUME Inv, OwnerInv, FrameInv, LineInv, LogInv, AnswersInOrder, [Next]_vars
    PROVE  AnswersInOrder'
<1>1. order \in Seq(Commands) /\ IsInjective(order)
    BY Zenon, LineFacts DEF LogInv
<1>2. CASE \E x \in Commands : Send(x)
  <2>1. PICK x \in Commands : Send(x)
      BY Zenon, <1>2
  <2>2. order' = Append(order, x) /\ outcome' = [outcome EXCEPT ![x] = "waiting"] /\ NotSent(x)
      BY Zenon, <2>1 DEF Send, NotSent
  <2>3. /\ \A i, j \in DOMAIN order' : i < j /\ order'[j] # x => i \in DOMAIN order /\ j \in DOMAIN order
        /\ \A i \in DOMAIN order : order'[i] = order[i] /\ order[i] \in Commands
      BY <1>1, <2>2
  <2>4. \A i \in DOMAIN order : order[i] # x
      BY Zenon, <2>2 DEF LogInv, Range
  <2>5. outcome'[x] = "waiting" /\ \A c \in Commands : c # x => outcome'[c] = outcome[c]
      BY Zenon, <2>2 DEF Inv, TypeOK, CallerTypes
  <2>6. ASSUME NEW i \in DOMAIN order', NEW j \in DOMAIN order', i < j, outcome'[order'[j]] = "ok",
               order'[j] \notin NoResponses
        PROVE  outcome'[order'[i]] # "waiting"
    <3>1. order'[j] # x
        BY Zenon, <2>5, <2>6
    <3>2. i \in DOMAIN order /\ j \in DOMAIN order
        BY Zenon, <2>3, <2>6, <3>1
    <3>3. /\ order'[i] = order[i] /\ order'[j] = order[j]
          /\ outcome'[order[i]] = outcome[order[i]] /\ outcome'[order[j]] = outcome[order[j]]
        BY Zenon, <2>3, <2>4, <2>5, <3>2
    <3> QED
        BY Zenon, <2>6, <3>2, <3>3 DEF AnswersInOrder
  <2> QED
      BY Zenon, <2>6 DEF AnswersInOrder
<1>3. CASE \A d \in Commands : ~Send(d)
  <2>1. order' = order
      BY Zenon, <1>3, LogKept
  <2>2. \A c \in Commands : Resolved(c)
      BY Zenon, <1>3, ResolvedStep
  <2>3. ASSUME NEW i \in DOMAIN order, NEW j \in DOMAIN order, i < j, outcome'[order[j]] = "ok",
               order[j] \notin NoResponses, outcome'[order[i]] = "waiting"
        PROVE  FALSE
    <3>1. order[i] \in Commands /\ order[j] \in Commands /\ Before(order, order[i], order[j])
      <4>1. order[i] \in Commands /\ order[j] \in Commands
          BY <1>1
      <4> QED
          BY Zenon, <2>3, <4>1 DEF Before
    <3>2. outcome[order[i]] = "waiting"
        BY Zenon, <2>2, <2>3, <3>1 DEF Resolved, Final
    <3>3. outcome[order[j]] # "ok"
        BY Zenon, <2>3, <3>2 DEF AnswersInOrder
    <3>4. AtFront(order[j])
        BY Zenon, <2>2, <2>3, <3>1, <3>3 DEF Resolved
    <3>5. order[i] # order[j]
        BY Zenon, <2>3, <3>2, <3>3
    <3>6. Before(order, order[j], order[i])
        BY Zenon, <3>1, <3>2, <3>4, <3>5, FrontIsFirst
    <3> QED
        BY Zenon, <1>1, <3>1, <3>6, NotBeforeAndAfter
  <2> QED
      BY Zenon, <2>1, <2>3 DEF AnswersInOrder
<1> QED
    BY Zenon, <1>2, <1>3

LEMMA LineInit ==
    ASSUME Init
    PROVE  LineInv /\ LogInv /\ AnswersInOrder
<1>1. /\ order = <<>> /\ retry = <<>> /\ buffer = <<>> /\ replay = <<>> /\ chan = <<>>
      /\ rx = "none" /\ outcome = [c \in Commands |-> "unsent"]
    BY Zenon DEF Init
<1>2. Sorted(order, <<>>) /\ Range(<<>>) = {} /\ DOMAIN <<>> = {}
    BY EmptySorted
<1>3. Queued = {}
    BY Zenon, <1>1, <1>2 DEF Queued
<1>4. Line(order, {}, {}, Given, {}, Held, {})
  <2>1. Given = {}
      BY Zenon DEF Given, Init
  <2> QED
      BY Zenon, <2>1 DEF Line, Ahead
<1>5. LineInv
    BY Zenon, <1>1, <1>2, <1>3, <1>4 DEF LineInv, NewestWaits
<1>6. LogInv
    BY Zenon, <1>1, <1>2 DEF LogInv, IsInjective, NotSent
<1>7. AnswersInOrder
    BY Zenon, <1>1, <1>2 DEF AnswersInOrder
<1> QED
    BY Zenon, <1>5, <1>6, <1>7

(* process_response_frame answers the front of the shared buffer; write_command,
   graceful_close, buffer_commands and retry_buffer keep the commands of a lost connection
   before those that were not written yet.  So no caller gets its response from the server
   while one that sent before it still waits, however many connections are lost. *)
THEOREM AnswersOrdered == Spec => []AnswersInOrder
<1>1. Init => LineInv /\ LogInv /\ AnswersInOrder
    BY Zenon, LineInit
<1>2. /\ Inv /\ OwnerInv /\ FrameInv
      /\ LineInv /\ LogInv /\ AnswersInOrder
      /\ [Next]_vars
      => (LineInv /\ LogInv /\ AnswersInOrder)'
    BY Zenon, LineStep, LogStep, AnswersStep
<1>3. Spec => [](Inv /\ OwnerInv /\ FrameInv)
    BY Zenon, FrameInvariance
<1> QED
    BY <1>1, <1>2, <1>3, PTL DEF Spec
=============================================================================
