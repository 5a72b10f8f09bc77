---------------------------- MODULE RequestService ----------------------------
(***************************************************************************)
(* What the client promises its callers, whatever happens to connections:  *)
(* a command is answered at most once; a response of the server is only    *)
(* delivered to the caller of a command the server has executed; and the   *)
(* server executes a command at most MaxExecutions times, only after it    *)
(* was sent.                                                               *)
(***************************************************************************)
EXTENDS Naturals

CONSTANTS
    Commands,        \* the commands callers may send
    Silent,          \* the ones answered without a response of the server
    MaxExecutions    \* bound on the executions of one command

VARIABLES
    result,          \* unsent, waiting, or how the caller was answered
    executions       \* how often the server executed the command

serviceVars == <<result, executions>>

Results == {"ok", "error", "attempts", "backpressure", "canceled", "timeout"}

Start ==
    /\ result = [c \in Commands |-> "unsent"]
    /\ executions = [c \in Commands |-> 0]

(* A caller hands a command to the client *)
Submit(c) ==
    /\ result[c] = "unsent"
    /\ result' = [result EXCEPT ![c] = "waiting"]
    /\ UNCHANGED executions

(* The server executes a command that was sent, answered or not *)
Execute(c) ==
    /\ result[c] # "unsent"
    /\ executions[c] < MaxExecutions
    /\ executions' = [executions EXCEPT ![c] = @ + 1]
    /\ UNCHANGED result

(* How the answer of one command may change in a step *)
MayResolve(c, r) ==
    /\ result[c] = "waiting"
    /\ r \in Results
    /\ r = "ok" => c \in Silent \/ executions[c] > 0

(* Any number of waiting callers are answered *)
Resolve ==
    /\ result' = [c \in Commands |-> result'[c]]
    /\ \A c \in Commands : result'[c] = result[c] \/ MayResolve(c, result'[c])
    /\ UNCHANGED executions

Progress == Resolve \/ \E c \in Commands : Submit(c) \/ Execute(c)

Service == Start /\ [][Progress]_serviceVars
=============================================================================
