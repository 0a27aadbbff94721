------------------------- MODULE MCZmqRpcRequester -------------------------
(* ZmqRpcRequester with the values TLC explores. *)
EXTENDS ZmqRpcRequester

CONSTANTS Quick   \* the calls that pass a timeout, shorter than AckTimeout

TimeoutOf == [c \in Calls |-> IF c \in Quick THEN 1 ELSE -1]
=============================================================================
