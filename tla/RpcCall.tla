------------------------------ MODULE RpcCall ------------------------------
(***************************************************************************)
(* What RpcRequester::call() promises, for any transport: a request goes   *)
(* to the responder at most once and only for a call that was made, and a  *)
(* call that returns a payload returns the responder's answer to its own   *)
(* request.  A call may fail at any time; once over it stays over.         *)
(***************************************************************************)
CONSTANT Calls

VARIABLES
  state,       \* where each call is: "idle", "active", "answer" or "error"
  requested,   \* calls whose request the responder has been sent
  answered     \* calls whose request the responder has answered

vars == <<state, requested, answered>>

Init ==
  /\ state = [c \in Calls |-> "idle"]
  /\ requested = {}
  /\ answered = {}

Move(c, from, to) ==
  /\ state[c] = from
  /\ state' = [state EXCEPT ![c] = to]
  /\ UNCHANGED <<requested, answered>>

Begin(c) == Move(c, "idle", "active")

Refuse(c) == Move(c, "idle", "error")

Fail(c) == Move(c, "active", "error")

Return(c) == c \in answered /\ Move(c, "active", "answer")

\* The request of a call that has failed meanwhile may still be sent.
Request(c) ==
  /\ state[c] # "idle"
  /\ c \notin requested
  /\ requested' = requested \cup {c}
  /\ UNCHANGED <<state, answered>>

Answer(c) ==
  /\ c \in requested \ answered
  /\ answered' = answered \cup {c}
  /\ UNCHANGED <<state, requested>>

Next ==
  \E c \in Calls :
    Begin(c) \/ Refuse(c) \/ Fail(c) \/ Return(c) \/ Request(c) \/ Answer(c)

Spec == Init /\ [][Next]_vars
=============================================================================
