--------------------------- MODULE ReconnectPolicy ---------------------------
(***************************************************************************)
(* The reconnection policy and the loops of router/utils.rs that ask it    *)
(* for delays.  They share one counter of attempts, which only some of     *)
(* them reset.  The widths of u32 and u64 are parameters.                  *)
(***************************************************************************)
EXTENDS Naturals

CONSTANTS
    MaxU32, MaxU64,     \* the largest values of the two types
    Policies,           \* the configured policies
    CacheUpdateDelay,   \* cluster_cache_update_delay_ms
    Loops               \* bound: loops entered

VARIABLES
    policy,     \* inner.policy
    mode,       \* the loop the router is in
    rung,       \* in it: about to sleep, or to try
    delay,      \* its delay
    tries,      \* history: how often it tried, where that is bounded
    last,       \* history: the last delay given since the attempts were reset
    loops

policyVars == <<policy, mode, rung, delay, tries, last, loops>>

PolicyLoops == {"reconnect", "replicas", "cluster", "redirect", "asking"}
PolicyKinds == {"Constant", "Linear", "Exponential"}
NoDelay == MaxU64 + 1

ASSUME WidthsAssumption ==
    /\ MaxU32 \in Nat /\ MaxU64 \in Nat
    /\ CacheUpdateDelay \in Nat

ASSUME PoliciesAssumption ==
    Policies \subseteq [kind : PolicyKinds, attempts : {0}, max_attempts : 0..MaxU32, delay : 0..MaxU32,
                        max_delay : 0..MaxU32, mult : 0..MaxU32, jitter : 0..MaxU32]

SaturatingAdd(x, y) == IF x + y > MaxU64 THEN MaxU64 ELSE x + y

(* A slip: the product wraps around. *)
WrappingMul(x, y) == (x * y) % (MaxU64 + 1)

SaturatingMul(x, y) == IF x * y > MaxU64 THEN MaxU64 ELSE x * y

SaturatingPow(x, n) ==
    LET power[k \in 0..n] == IF k = 0 THEN 1 ELSE SaturatingMul(power[k - 1], x)
    IN  power[n]

(* A slip: one attempt more than the maximum. *)
ExhaustedLate(p) == p.max_attempts # 0 /\ p.attempts > p.max_attempts

(* incr_with_max *)
Exhausted(p) == p.max_attempts # 0 /\ p.attempts >= p.max_attempts
Incremented(p) == [p EXCEPT !.attempts = IF @ >= MaxU32 THEN MaxU32 ELSE @ + 1]

add_jitter(d, jitter) == {SaturatingAdd(d, j) : j \in {k \in 0..jitter : k < jitter}}
Capped(p, d) == IF d > p.max_delay THEN p.max_delay ELSE d

(* What next_delay may return once the attempt is counted.  The first delay of an
   exponential policy is min_delay, here p.delay. *)
next_delay(p) ==
    CASE p.kind = "Constant" -> add_jitter(p.delay, p.jitter)
      [] p.kind = "Linear" -> {Capped(p, d) : d \in add_jitter(SaturatingMul(p.delay, p.attempts), p.jitter)}
      [] p.kind = "Exponential" ->
           {Capped(p, d) : d \in add_jitter(SaturatingMul(SaturatingPow(p.mult, p.attempts - 1), p.delay), p.jitter)}

PolicyStart(p) ==
    /\ policy = p /\ mode = "idle" /\ rung = "sleep" /\ delay = 0
    /\ tries = 0 /\ last = NoDelay /\ loops = 0

PolicyInit == \E p \in Policies : PolicyStart(p)

EndLoop == mode' = "idle" /\ UNCHANGED rung

reset_attempts == policy' = [policy EXCEPT !.attempts = 0] /\ last' = NoDelay

(* next_reconnection_delay: the router goes on in the loop with the delay it gives.  A
   range without members panics in add_jitter, and the task ends. *)
Delayed(loop) ==
    /\ ~Exhausted(policy)
    /\ policy' = Incremented(policy)
    /\ IF policy.jitter = 0
       THEN mode' = "panicked" /\ UNCHANGED <<rung, delay, last>>
       ELSE /\ \E d \in next_delay(Incremented(policy)) : delay' = d /\ last' = d
            /\ mode' = loop /\ rung' = "sleep"

OutOfAttempts ==
    /\ Exhausted(policy)
    /\ EndLoop
    /\ UNCHANGED <<policy, delay, last>>

Begins == mode = "idle" /\ loops < Loops /\ loops' = loops + 1 /\ tries' = 0

(* reconnect_with_policy and sync_replicas_with_policy begin with a delay. *)
BeginDelayed(loop) == Begins /\ (Delayed(loop) \/ OutOfAttempts)

(* The others begin with the delay for changes of the cluster. *)
BeginAtOnce(loop) ==
    /\ Begins
    /\ mode' = loop /\ rung' = "sleep" /\ delay' = CacheUpdateDelay
    /\ UNCHANGED <<policy, last>>

Slept ==
    /\ mode \in PolicyLoops /\ rung = "sleep"
    /\ rung' = "try"
    /\ tries' = IF mode = "asking" \/ policy.max_attempts = 0 THEN tries ELSE tries + 1
    /\ UNCHANGED <<policy, mode, delay, last, loops>>

(* wait_with_interrupt: quit() ends the sleep and the loop, without a delay there is none. *)
SleepInterrupted ==
    /\ mode \in PolicyLoops /\ rung = "sleep" /\ delay # 0
    /\ EndLoop
    /\ UNCHANGED <<policy, delay, tries, last, loops>>

(* Reconnecting and ASKING reset the attempts, the others leave them as they are. *)
TrySucceeds ==
    /\ mode \in PolicyLoops /\ rung = "try"
    /\ EndLoop
    /\ IF mode \in {"reconnect", "asking"} THEN reset_attempts ELSE UNCHANGED <<policy, last>>
    /\ UNCHANGED <<delay, tries, loops>>

TryFails ==
    /\ mode \in PolicyLoops /\ rung = "try"
    /\ Delayed(mode) \/ OutOfAttempts
    /\ UNCHANGED <<tries, loops>>

(* should_not_reconnect: three of the loops end as if they had succeeded, and
   send_asking_with_policy resets the attempts. *)
TryFailsForGood ==
    /\ mode \in {"replicas", "cluster", "asking"} /\ rung = "try"
    /\ EndLoop
    /\ IF mode = "asking" THEN reset_attempts ELSE UNCHANGED <<policy, last>>
    /\ UNCHANGED <<delay, tries, loops>>

(* ASKING fails and the reconnection after it succeeds: again, without a delay. *)
AskAgain ==
    /\ mode = "asking" /\ rung = "try"
    /\ reset_attempts
    /\ delay' = 0 /\ rung' = "sleep"
    /\ UNCHANGED <<mode, tries, loops>>

(* The connection task is started again. *)
StartTask ==
    /\ mode = "idle"
    /\ reset_attempts
    /\ UNCHANGED <<mode, rung, delay, tries, loops>>

PolicyNext ==
    \/ \E loop \in {"reconnect", "replicas"} : BeginDelayed(loop)
    \/ \E loop \in {"cluster", "redirect", "asking"} : BeginAtOnce(loop)
    \/ Slept \/ SleepInterrupted \/ TrySucceeds \/ TryFails \/ TryFailsForGood \/ AskAgain \/ StartTask

PolicySpec == PolicyInit /\ [][PolicyNext]_policyVars
-----------------------------------------------------------------------------
(* A policy with a maximum bounds what every loop of the router tries, but for the one
   that sends ASKING, which may go on for ever because each reconnection resets the counter.
   The loops that begin without asking the policy try once more than the maximum. *)
TriesBounded ==
    policy.max_attempts # 0 /\ mode \in PolicyLoops \ {"asking"} =>
        tries <= policy.max_attempts + (IF mode \in {"reconnect", "replicas"} THEN 0 ELSE 1)

(* A delay is at most by the jitter shorter than the one before, in fixed width arithmetic,
   as long as the attempts are not reset.  A factor of 0 is the exception. *)
BacksOff ==
    [][/\ last # NoDelay /\ last' # NoDelay
       /\ policy.kind = "Exponential" => policy.mult # 0
       => last' + policy.jitter >= last]_policyVars
=============================================================================
