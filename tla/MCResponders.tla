---------------------------- MODULE MCResponders -----------------------------
(***************************************************************************)
(* Instances of Responders: every response policy, pipelines over several  *)
(* nodes, and the combinations whose frames meet in one shared buffer.     *)
(***************************************************************************)
EXTENDS Responders

CONSTANTS a, b

Base == [kind |-> "one", to |-> <<a>>, n |-> 1, arrays |-> {}, unsub |-> FALSE, channel |-> FALSE]
One(n) == [Base EXCEPT !.to = <<n>>]
Waits(n) == [One(n) EXCEPT !.channel = TRUE]
Subscribe(n, k) == [Base EXCEPT !.kind = "multi", !.to = <<n>>, !.n = k]
PSubscribe(n, k) == [Subscribe(n, k) EXCEPT !.channel = TRUE]
Unsubscribe(n, k) == [PSubscribe(n, k) EXCEPT !.unsub = TRUE]
BareUnsubscribe(n, k) == [Base EXCEPT !.kind = "bare", !.to = <<n>>, !.n = k, !.unsub = TRUE]
Pipe(to, arrays) == [Base EXCEPT !.kind = "pipe", !.to = to, !.arrays = arrays]
PipeLast(to) == [Base EXCEPT !.kind = "last", !.to = to]
All == [Base EXCEPT !.kind = "all", !.channel = TRUE]
Scan(n, k) == [Base EXCEPT !.kind = "scan", !.to = <<n>>, !.n = k]

MCPlans == {
    <<Subscribe(a, 2), One(a), One(a)>>,
    <<One(a), PSubscribe(a, 2), One(b)>>,
    <<Pipe(<<a, b, a>>, {2}), One(b)>>,
    <<One(b), All>>,
    <<Scan(a, 2), One(a)>>,
    <<PipeLast(<<a, b>>), One(b)>>,
    <<BareUnsubscribe(a, 2), Unsubscribe(a, 1), One(a)>>,
    <<One(a), Waits(a)>>}

(* A SUBSCRIBE to two channels with two commands behind it. *)
ShiftPlans == {<<Subscribe(a, 2), One(a), One(a)>>}
=============================================================================
