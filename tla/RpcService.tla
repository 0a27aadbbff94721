----------------------------- MODULE RpcService -----------------------------
(***************************************************************************)
(* What the answering side promises for each request that reaches it: it   *)
(* is acknowledged at most once, handled at most once and only when it was *)
(* acknowledged, and answered at most once and only when it was handled.   *)
(* This is the peer that ZmqRpcRequester takes for granted.                *)
(***************************************************************************)
EXTENDS Naturals

CONSTANT Requests

VARIABLE tally   \* how often each request was acknowledged, handled, answered

Init == tally = [r \in Requests |-> [acks |-> 0, runs |-> 0, answers |-> 0]]

Ack(r) ==
  /\ tally[r] = [acks |-> 0, runs |-> 0, answers |-> 0]
  /\ tally' = [tally EXCEPT ![r].acks = 1]

Run(r) ==
  /\ tally[r] = [acks |-> 1, runs |-> 0, answers |-> 0]
  /\ tally' = [tally EXCEPT ![r].runs = 1]

Answer(r) ==
  /\ tally[r] = [acks |-> 1, runs |-> 1, answers |-> 0]
  /\ tally' = [tally EXCEPT ![r].answers = 1]

Next == \E r \in Requests : Ack(r) \/ Run(r) \/ Answer(r)

Spec == Init /\ [][Next]_tally
=============================================================================
