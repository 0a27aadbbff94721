-------------------------- MODULE ZmqRpcRequester --------------------------
(***************************************************************************)
(* magpie::RpcRequester over ZeroMQ.  Any number of threads make calls;    *)
(* each registers a PendingCall under its request id, hands its request to *)
(* one I/O thread through a control channel, and waits first for an ack    *)
(* and then for a reply on two condition variables of its PendingCall.     *)
(* The I/O thread owns the DEALER socket: it forwards requests and routes  *)
(* what comes back by request id.  close() stops the I/O thread and fails  *)
(* the calls that are pending.                                             *)
(*                                                                         *)
(* A call stands for its request id, which is never used again.  What a    *)
(* thread does under the mutex of a PendingCall is one step: the flags are *)
(* set under the mutex that a caller holds from its test to its wait, so   *)
(* no notification falls in between.  One thread calls close(): its test   *)
(* of closed_ and its store are not one step in the code, and two that     *)
(* both pass the test would run transportClose() side by side.             *)
(***************************************************************************)
EXTENDS Integers, Sequences, FiniteSets

CONSTANTS
  Calls,         \* calls, each made once by a thread of its own
  Timeout,       \* timeoutSec of each call, < 0: none
  AckTimeout,    \* ackTimeoutSec_, < 0: none
  OwnsContext,   \* ownsContext_: FALSE for inproc endpoints
  AckKinds,      \* acks the peer may send:    "ack", "badAck"
  ReplyKinds,    \* replies the peer may send: "payload", "invalid"
  SendRoom,      \* requests the DEALER holds for a peer that takes none
  AcksGetLost,   \* a reconnection may lose an ack but not the reply
  SocketsRunOut, \* zmq_socket() may fail for want of sockets
  IoFaults,      \* ZeroMQ calls of the I/O thread may fail
  CloseSentinel, \* "__CLOSE__"
  NoCall

ASSUME TimeoutAssumption == Timeout \in [Calls -> Int] /\ AckTimeout \in Int
ASSUME PeerAssumption ==
  /\ AckKinds \subseteq {"ack", "badAck"}
  /\ ReplyKinds \subseteq {"payload", "invalid"}
  /\ AcksGetLost \in BOOLEAN
ASSUME ContextAssumption ==
  OwnsContext \in BOOLEAN /\ SocketsRunOut \in BOOLEAN /\ IoFaults \in BOOLEAN
ASSUME SendRoomAssumption == SendRoom \in Nat
ASSUME NamesAssumption ==
  CloseSentinel \notin Calls /\ NoCall \notin Calls \cup {CloseSentinel}

VARIABLES
  \* the callers
  call,        \* where each call is inside transportCall()
  outcome,     \* how it ended
  \* PendingCall and the map of them
  pending,     \* the keys of pending_
  acked, replied, failed,    \* per call; failed: errorMsg is not empty
  payload,     \* replyPayload: the call whose answer it is
  \* the I/O thread
  io,          \* where it is inside ioLoop_()
  ctrl,        \* the control channel
  outgoing,    \* the request taken from it
  dealerReady, \* the DEALER's bit of the last zmq_poll()
  hand,        \* the message it routes, its pending call found
  ioVictims,   \* failAllPending_()'s local map, when it runs it
  \* close()
  closed, closing, socketOpen, contextUp,
  closer,      \* where the closing thread is
  closeVictims,
  \* the peer and the network
  peer,        \* how far the peer got with each request
  inbox        \* messages on their way to the DEALER

callerVars  == <<call, outcome>>
pendingVars == <<pending, acked, replied, failed, payload>>
ioVars      == <<io, ctrl, outgoing, dealerReady, hand, ioVictims>>
closeVars   == <<closed, closing, socketOpen, contextUp, closer, closeVictims>>
peerVars    == <<peer, inbox>>
vars == <<callerVars, pendingVars, ioVars, closeVars, peerVars>>

Message == [rid : Calls, kind : AckKinds \cup ReplyKinds, answer : Calls]

NoMessage == [rid |-> NoCall, kind |-> "none", answer |-> NoCall]

Init ==
  /\ call = [c \in Calls |-> "idle"]
  /\ outcome = [c \in Calls |-> "none"]
  /\ pending = {}
  /\ acked = [c \in Calls |-> FALSE]
  /\ replied = [c \in Calls |-> FALSE]
  /\ failed = [c \in Calls |-> FALSE]
  /\ payload = [c \in Calls |-> NoCall]
  /\ io = "poll"
  /\ ctrl = {}
  /\ outgoing = NoCall
  /\ dealerReady = FALSE
  /\ hand = NoMessage
  /\ ioVictims = {}
  /\ closed = FALSE /\ closing = FALSE
  /\ socketOpen = TRUE /\ contextUp = TRUE
  /\ closer = "open"
  /\ closeVictims = {}
  /\ peer = [c \in Calls |-> "none"]
  /\ inbox = <<>>

(***************************************************************************)
(* call() and transportCall()                                              *)
(***************************************************************************)

Goto(c, from, to) ==
  /\ call[c] \in from
  /\ call' = [call EXCEPT ![c] = to]

\* The call leaves by a throw or a return; every such path erases its entry.
Leave(c, from, how) ==
  /\ Goto(c, from, "done")
  /\ outcome' = [outcome EXCEPT ![c] = how]
  /\ pending' = pending \ {c}
  /\ UNCHANGED <<acked, replied, failed, payload, ioVars, closeVars, peerVars>>

\* The checks before a call is registered, all made without a lock: closed_
\* in call(), then socket_ and closing_ in transportCall().
CallEnter(c) ==
  /\ ~closed
  /\ Goto(c, {"idle"}, "entered")
  /\ UNCHANGED <<outcome, pendingVars, ioVars, closeVars, peerVars>>

CallRefused(c) ==
  \/ closed /\ Leave(c, {"idle"}, "refused")
  \/ (~socketOpen \/ closing) /\ Leave(c, {"entered"}, "refused")

CallCheck(c) ==
  /\ socketOpen /\ ~closing
  /\ Goto(c, {"entered"}, "register")
  /\ UNCHANGED <<outcome, pendingVars, ioVars, closeVars, peerVars>>

CallRegister(c) ==
  /\ Goto(c, {"register"}, "send")
  /\ pending' = pending \cup {c}
  /\ UNCHANGED <<outcome, acked, replied, failed, payload, ioVars, closeVars,
                 peerVars>>

\* sendToIo_() tests context_, without a lock, ...
CallSendTest(c) ==
  /\ contextUp
  /\ Goto(c, {"send"}, "connect")
  /\ UNCHANGED <<outcome, pendingVars, ioVars, closeVars, peerVars>>

\* ... and then uses it: a new PUSH socket on the context, connected even when the
\* I/O thread no longer reads the other end.  The PULL socket serves its
\* peers in turn, so what two threads send may be read in either order.
CallSend(c) ==
  /\ contextUp
  /\ Goto(c, {"connect"}, "ackTest")
  /\ ctrl' = ctrl \cup {c}
  /\ UNCHANGED <<outcome, pendingVars, io, outgoing, dealerReady, hand,
                 ioVictims, closeVars, peerVars>>

\* No context, or one that is gone since the test (zmq_socket() rejects what
\* zmq_ctx_term() has freed), or no more sockets on it.
CallSendThrows(c) ==
  \/ ~contextUp /\ Leave(c, {"send", "connect"}, "sendError")
  \/ SocketsRunOut /\ Leave(c, {"connect"}, "sendError")

\* actualAckTimeout
ActualAckTimeout(c) ==
  IF Timeout[c] >= 0 /\ Timeout[c] < AckTimeout THEN Timeout[c] ELSE AckTimeout

\* Mutant of CallAcked: the acknowledgement taken for the reply.
CallAckedReturns(c) ==
  /\ acked[c]
  /\ Goto(c, {"ackTest", "ackExpired"}, "return")
  /\ UNCHANGED <<outcome, pendingVars, ioVars, closeVars, peerVars>>

CallAcked(c) ==
  /\ acked[c]
  /\ Goto(c, {"ackTest", "ackExpired"}, "replyTest")
  /\ UNCHANGED <<outcome, pendingVars, ioVars, closeVars, peerVars>>

CallFails(c) ==
  /\ failed[c]
  /\ \/ ~acked[c] /\ Leave(c, {"ackTest", "ackExpired"}, "failed")
     \/ ~replied[c] /\ Leave(c, {"replyTest", "replyExpired"}, "failed")

CallWaitsForAck(c) ==
  /\ ~acked[c] /\ ~failed[c]
  /\ Goto(c, {"ackTest"}, "ackWait")
  /\ UNCHANGED <<outcome, pendingVars, ioVars, closeVars, peerVars>>

AckDeadline(c) ==
  /\ ActualAckTimeout(c) >= 0
  /\ Goto(c, {"ackWait"}, "ackExpired")
  /\ UNCHANGED <<outcome, pendingVars, ioVars, closeVars, peerVars>>

\* Mutant of CallAckTimeout: waiting once more.
CallAckWaitsAgain(c) ==
  /\ ~acked[c] /\ ~failed[c]
  /\ Goto(c, {"ackExpired"}, "ackTest")
  /\ UNCHANGED <<outcome, pendingVars, ioVars, closeVars, peerVars>>

CallAckTimeout(c) ==
  /\ ~acked[c] /\ ~failed[c]
  /\ Leave(c, {"ackExpired"}, "ackTimeout")

CallReplied(c) ==
  /\ replied[c]
  /\ Goto(c, {"replyTest", "replyExpired"}, "return")
  /\ UNCHANGED <<outcome, pendingVars, ioVars, closeVars, peerVars>>

CallWaitsForReply(c) ==
  /\ ~replied[c] /\ ~failed[c]
  /\ Goto(c, {"replyTest"}, "replyWait")
  /\ UNCHANGED <<outcome, pendingVars, ioVars, closeVars, peerVars>>

ReplyDeadline(c) ==
  /\ Timeout[c] >= 0
  /\ Goto(c, {"replyWait"}, "replyExpired")
  /\ UNCHANGED <<outcome, pendingVars, ioVars, closeVars, peerVars>>

CallReplyTimeout(c) ==
  /\ ~replied[c] /\ ~failed[c]
  /\ Leave(c, {"replyExpired"}, "replyTimeout")

CallReturn(c) == Leave(c, {"return"}, "reply")

\* The thread of call c wakes from its wait, if it waits on that variable.
Woken(c, at) == IF at[c] = "ackWait" THEN [at EXCEPT ![c] = "ackTest"]
                ELSE IF at[c] = "replyWait" THEN [at EXCEPT ![c] = "replyTest"]
                ELSE at

NotifyAck(c) == call' = IF call[c] = "ackWait" THEN Woken(c, call) ELSE call

NotifyReply(c) == call' = IF call[c] = "replyWait" THEN Woken(c, call) ELSE call

SpuriousWakeup(c) ==
  /\ call[c] \in {"ackWait", "replyWait"}
  /\ call' = Woken(c, call)
  /\ UNCHANGED <<outcome, pendingVars, ioVars, closeVars, peerVars>>

(***************************************************************************)
(* ioLoop_()                                                               *)
(***************************************************************************)

IoAt(from, to) ==
  /\ io = from
  /\ io' = to

\* zmq_poll() without a timeout on the control channel and the DEALER.
IoPoll ==
  /\ ctrl # {} \/ inbox # <<>>
  /\ IoAt("poll", IF ctrl # {} THEN "ctrl" ELSE "dealer")
  /\ dealerReady' = (inbox # <<>>)
  /\ UNCHANGED <<callerVars, pendingVars, ctrl, outgoing, hand, ioVictims,
                 closeVars, peerVars>>

\* zmq_poll() fails (EINTR, or the context is going down): the loop ends.
IoPollFails ==
  /\ IoFaults
  /\ IoAt("poll", "leave")
  /\ UNCHANGED <<callerVars, pendingVars, ctrl, outgoing, dealerReady, hand,
                 ioVictims, closeVars, peerVars>>

\* A receive fails: the loop ends if the requester is closing, else goes on.
IoCtrlFails ==
  /\ IoFaults
  /\ IoAt("ctrl", IF closing THEN "leave"
                  ELSE IF dealerReady THEN "dealer" ELSE "poll")
  /\ UNCHANGED <<callerVars, pendingVars, ctrl, outgoing, dealerReady, hand,
                 ioVictims, closeVars, peerVars>>

IoReceiveFails ==
  /\ IoFaults
  /\ IoAt("dealer", IF closing THEN "leave" ELSE "poll")
  /\ UNCHANGED <<callerVars, pendingVars, ctrl, outgoing, dealerReady, hand,
                 ioVictims, closeVars, peerVars>>

IoCloseSentinel ==
  /\ IoAt("ctrl", "leave")
  /\ CloseSentinel \in ctrl
  /\ ctrl' = ctrl \ {CloseSentinel}
  /\ UNCHANGED <<callerVars, pendingVars, outgoing, dealerReady, hand,
                 ioVictims, closeVars, peerVars>>

IoTake ==
  /\ IoAt("ctrl", "forward")
  /\ \E c \in ctrl \ {CloseSentinel} :
       /\ outgoing' = c
       /\ ctrl' = ctrl \ {c}
  /\ UNCHANGED <<callerVars, pendingVars, dealerReady, hand, ioVictims,
                 closeVars, peerVars>>

\* zmq_send() on the DEALER blocks while its queue is full, that is as long
\* as the peer is away or does not read.
IoForward ==
  /\ Cardinality({c \in Calls : peer[c] = "requested"}) < SendRoom
  /\ IoAt("forward", IF dealerReady THEN "dealer" ELSE "poll")
  /\ peer' = [peer EXCEPT ![outgoing] = "requested"]
  /\ outgoing' = NoCall
  /\ UNCHANGED <<callerVars, pendingVars, ctrl, dealerReady, hand, ioVictims,
                 closeVars, inbox>>

IoSendFails ==
  /\ IoFaults
  /\ IoAt("forward", "sendFailed")
  /\ outgoing' = NoCall
  /\ UNCHANGED <<callerVars, pendingVars, ctrl, dealerReady, hand, ioVictims,
                 closeVars, peerVars>>

\* Mutant of IoReceive: the lookup by pending_[rid], which inserts what it does
\* not find.
IoReceiveInserting ==
  /\ IoAt("dealer", "route")
  /\ hand' = Head(inbox)
  /\ pending' = pending \cup {Head(inbox).rid}
  /\ inbox' = Tail(inbox)
  /\ UNCHANGED <<callerVars, acked, replied, failed, payload, ctrl, outgoing,
                 dealerReady, ioVictims, closeVars, peer>>

\* A message arrives; its call is looked up under pendingMtx_ and kept (a
\* shared_ptr), whatever becomes of the map entry.  Unknown ids are dropped.
IoReceive ==
  /\ IoAt("dealer", IF Head(inbox).rid \in pending THEN "route" ELSE "poll")
  /\ hand' = IF Head(inbox).rid \in pending THEN Head(inbox) ELSE NoMessage
  /\ inbox' = Tail(inbox)
  /\ UNCHANGED <<callerVars, pendingVars, ctrl, outgoing, dealerReady,
                 ioVictims, closeVars, peer>>

Routed(kind) ==
  /\ hand.kind = kind
  /\ IoAt("route", "poll")
  /\ hand' = NoMessage
  /\ UNCHANGED <<outcome, pending, ctrl, outgoing, dealerReady, ioVictims,
                 closeVars, peerVars>>

IoAck ==
  /\ Routed("ack")
  /\ acked' = [acked EXCEPT ![hand.rid] = TRUE]
  /\ NotifyAck(hand.rid)
  /\ UNCHANGED <<replied, failed, payload>>

IoBadAck ==
  /\ Routed("badAck")
  /\ failed' = [failed EXCEPT ![hand.rid] = TRUE]
  /\ NotifyAck(hand.rid)
  /\ UNCHANGED <<acked, replied, payload>>

\* Mutant of IoPayload: the wrong condition variable.
IoPayloadNotifiesAck ==
  /\ Routed("payload")
  /\ payload' = [payload EXCEPT ![hand.rid] = hand.answer]
  /\ replied' = [replied EXCEPT ![hand.rid] = TRUE]
  /\ NotifyAck(hand.rid)
  /\ UNCHANGED <<acked, failed>>

IoPayload ==
  /\ Routed("payload")
  /\ payload' = [payload EXCEPT ![hand.rid] = hand.answer]
  /\ replied' = [replied EXCEPT ![hand.rid] = TRUE]
  /\ NotifyReply(hand.rid)
  /\ UNCHANGED <<acked, failed>>

IoInvalidReply ==
  /\ Routed("invalid")
  /\ failed' = [failed EXCEPT ![hand.rid] = TRUE]
  /\ NotifyReply(hand.rid)
  /\ UNCHANGED <<acked, replied, payload>>

(***************************************************************************)
(* failAllPending_(): the map is swapped into a local one under            *)
(* pendingMtx_; then each call in it is failed and notified in turn.  The  *)
(* I/O thread runs it after a failed send and when it leaves its loop,     *)
(* close() runs it once more.                                              *)
(***************************************************************************)

FailOne(c) ==
  /\ failed' = [failed EXCEPT ![c] = TRUE]
  /\ call' = Woken(c, call)
  /\ UNCHANGED <<outcome, pending, acked, replied, payload, peerVars>>

\* Mutant of IoSwap: the map is cleared, nobody is told.
IoClears ==
  /\ \/ IoAt("sendFailed", "failAfterSend")
     \/ IoAt("leave", "failAtExit")
  /\ pending' = {}
  /\ UNCHANGED <<callerVars, acked, replied, failed, payload, ctrl, outgoing,
                 dealerReady, hand, ioVictims, closeVars, peerVars>>

IoSwap ==
  /\ \/ IoAt("sendFailed", "failAfterSend")
     \/ IoAt("leave", "failAtExit")
  /\ ioVictims' = pending
  /\ pending' = {}
  /\ UNCHANGED <<callerVars, acked, replied, failed, payload, ctrl, outgoing,
                 dealerReady, hand, closeVars, peerVars>>

IoFailOne(c) ==
  /\ io \in {"failAfterSend", "failAtExit"}
  /\ c \in ioVictims
  /\ FailOne(c)
  /\ ioVictims' = ioVictims \ {c}
  /\ UNCHANGED <<io, ctrl, outgoing, dealerReady, hand, closeVars>>

IoFailedAll ==
  /\ ioVictims = {}
  /\ \/ IoAt("failAfterSend", "leave")
     \/ IoAt("failAtExit", "stopped")
  /\ UNCHANGED <<callerVars, pendingVars, ctrl, outgoing, dealerReady, hand,
                 ioVictims, closeVars, peerVars>>

(***************************************************************************)
(* close() and transportClose()                                            *)
(***************************************************************************)

CloserAt(from, to) ==
  /\ closer = from
  /\ closer' = to

CloseFlag ==
  /\ CloserAt("open", "flagged")
  /\ closed' = TRUE
  /\ UNCHANGED <<callerVars, pendingVars, ioVars, closing, socketOpen,
                 contextUp, closeVictims, peerVars>>

CloseClosing ==
  /\ CloserAt("flagged", "sendClose")
  /\ closing' = TRUE
  /\ UNCHANGED <<callerVars, pendingVars, ioVars, closed, socketOpen,
                 contextUp, closeVictims, peerVars>>

CloseSend ==
  /\ CloserAt("sendClose", "join")
  /\ ctrl' = ctrl \cup {CloseSentinel}
  /\ UNCHANGED <<callerVars, pendingVars, io, outgoing, dealerReady, hand,
                 ioVictims, closed, closing, socketOpen, contextUp,
                 closeVictims, peerVars>>

\* sendCloseToIo_() is "best effort": without a socket it sends nothing.
CloseSendFails ==
  /\ SocketsRunOut
  /\ CloserAt("sendClose", "join")
  /\ UNCHANGED <<callerVars, pendingVars, ioVars, closed, closing, socketOpen,
                 contextUp, closeVictims, peerVars>>

CloseSockets ==
  /\ io = "stopped"
  /\ CloserAt("join", "swap")
  /\ socketOpen' = FALSE
  /\ UNCHANGED <<callerVars, pendingVars, ioVars, closed, closing, contextUp,
                 closeVictims, peerVars>>

CloseSwap ==
  /\ CloserAt("swap", "fail")
  /\ closeVictims' = pending
  /\ pending' = {}
  /\ UNCHANGED <<callerVars, acked, replied, failed, payload, ioVars, closed,
                 closing, socketOpen, contextUp, peerVars>>

CloseFailOne(c) ==
  /\ closer = "fail"
  /\ c \in closeVictims
  /\ FailOne(c)
  /\ closeVictims' = closeVictims \ {c}
  /\ UNCHANGED <<ioVars, closed, closing, socketOpen, contextUp, closer>>

CloseContext ==
  /\ closeVictims = {}
  /\ CloserAt("fail", "closed")
  /\ contextUp' = (contextUp /\ ~OwnsContext)
  /\ UNCHANGED <<callerVars, pendingVars, ioVars, closed, closing, socketOpen,
                 closeVictims, peerVars>>

(***************************************************************************)
(* The peer: a responder that acks a request when it receives it, answers  *)
(* once, and may do neither.                                               *)
(***************************************************************************)

PeerSends(c, from, to, kind) ==
  /\ peer[c] = from
  /\ peer' = [peer EXCEPT ![c] = to]
  /\ inbox' = Append(inbox, [rid |-> c, kind |-> kind, answer |-> c])
  /\ UNCHANGED <<callerVars, pendingVars, ioVars, closeVars>>

PeerAck(c) ==
  \E kind \in AckKinds : PeerSends(c, "requested", "acked", kind)

PeerAckLost(c) ==
  /\ AcksGetLost
  /\ peer[c] = "requested"
  /\ peer' = [peer EXCEPT ![c] = "acked"]
  /\ UNCHANGED <<callerVars, pendingVars, ioVars, closeVars, inbox>>

PeerReply(c) ==
  \/ "payload" \in ReplyKinds /\ PeerSends(c, "acked", "answered", "payload")
  \/ "invalid" \in ReplyKinds /\ PeerSends(c, "acked", "garbled", "invalid")

(***************************************************************************)
(* Specification                                                           *)
(***************************************************************************)

CallStep(c) ==
  \/ CallRefused(c)
  \/ CallCheck(c)
  \/ CallRegister(c)
  \/ CallSendTest(c)
  \/ CallSend(c)
  \/ CallSendThrows(c)
  \/ CallAcked(c)
  \/ CallFails(c)
  \/ CallWaitsForAck(c)
  \/ CallAckTimeout(c)
  \/ CallReplied(c)
  \/ CallWaitsForReply(c)
  \/ CallReplyTimeout(c)
  \/ CallReturn(c)

Deadline(c) == AckDeadline(c) \/ ReplyDeadline(c)

IoStep ==
  \/ IoPoll
  \/ IoCloseSentinel
  \/ IoTake
  \/ IoForward
  \/ IoReceive
  \/ IoAck
  \/ IoBadAck
  \/ IoPayload
  \/ IoInvalidReply
  \/ IoSwap
  \/ \E c \in Calls : IoFailOne(c)
  \/ IoFailedAll

\* What ZeroMQ does when it must, and never owes.
IoFault == IoPollFails \/ IoCtrlFails \/ IoReceiveFails \/ IoSendFails

CloseStep ==
  \/ CloseClosing
  \/ CloseSend
  \/ CloseSendFails
  \/ CloseSockets
  \/ CloseSwap
  \/ \E c \in Calls : CloseFailOne(c)
  \/ CloseContext

Next ==
  \/ \E c \in Calls :
       \/ CallEnter(c) \/ CallStep(c) \/ Deadline(c) \/ SpuriousWakeup(c)
       \/ PeerAck(c) \/ PeerAckLost(c) \/ PeerReply(c)
  \/ IoStep \/ IoFault
  \/ CloseFlag \/ CloseStep

Spec == Init /\ [][Next]_vars

\* Threads that can run do run; a deadline is absolute, so it passes however
\* often the caller is woken before.  The peer owes nothing, and nobody is
\* obliged to call call() or close().
Fairness ==
  /\ \A c \in Calls : WF_vars(CallStep(c)) /\ SF_vars(Deadline(c))
  /\ WF_vars(IoStep)
  /\ WF_vars(CloseStep)

FairSpec == Spec /\ Fairness

(***************************************************************************)
(* Properties                                                              *)
(***************************************************************************)

CallerPlaces ==
  {"idle", "entered", "register", "send", "connect", "ackTest", "ackWait", "ackExpired",
   "replyTest", "replyWait", "replyExpired", "return", "done"}

IoPlaces ==
  {"poll", "ctrl", "forward", "dealer", "route", "sendFailed", "failAfterSend", "leave",
   "failAtExit", "stopped"}

CallerTypeOK ==
  /\ call \in [Calls -> CallerPlaces]
  /\ outcome \in [Calls -> {"none", "refused", "sendError", "ackTimeout",
                            "replyTimeout", "failed", "reply"}]

PendingTypeOK ==
  /\ pending \subseteq Calls
  /\ acked \in [Calls -> BOOLEAN]
  /\ replied \in [Calls -> BOOLEAN]
  /\ failed \in [Calls -> BOOLEAN]
  /\ payload \in [Calls -> Calls \cup {NoCall}]

IoTypeOK ==
  /\ io \in IoPlaces
  /\ ctrl \subseteq Calls \cup {CloseSentinel}
  /\ outgoing \in Calls \cup {NoCall}
  /\ dealerReady \in BOOLEAN
  /\ hand \in Message \cup {NoMessage}
  /\ ioVictims \subseteq Calls

\* The I/O thread receives from a channel only when something is in it.
ReadyOK ==
  /\ io = "ctrl" => ctrl # {}
  /\ io = "forward" => outgoing \in Calls
  /\ io = "dealer" \/ (io \in {"ctrl", "forward"} /\ dealerReady)
       => inbox # <<>>

CloseTypeOK ==
  /\ closed \in BOOLEAN /\ closing \in BOOLEAN
  /\ socketOpen \in BOOLEAN /\ contextUp \in BOOLEAN
  /\ closer \in {"open", "flagged", "sendClose", "join", "swap", "fail",
                 "closed"}
  /\ closeVictims \subseteq Calls

PeerTypeOK ==
  /\ peer \in [Calls -> {"none", "requested", "acked", "answered", "garbled"}]
  /\ inbox \in Seq(Message)

\* The values every variable takes; what zmq_poll() reported is still there.
TypeOK ==
  /\ CallerTypeOK /\ PendingTypeOK /\ IoTypeOK /\ CloseTypeOK /\ PeerTypeOK
  /\ ReadyOK

\* A call that returns a payload returns the peer's answer to its own
\* request, whatever other calls were answered, late or failed meanwhile.
ReplyIsOwn ==
  \A c \in Calls :
    outcome[c] = "reply" => payload[c] = c /\ peer[c] = "answered"

\* A reply timeout, like a reply, is reported only of a request the peer
\* acknowledged: a caller may rely on it not to retry blindly.
ReplyTimeoutMeansAcked ==
  \A c \in Calls :
    outcome[c] \in {"reply", "replyTimeout"} =>
      peer[c] \in {"acked", "answered", "garbled"}

\* A call that is over leaves nothing in pending_, however it ended and
\* whatever the I/O thread and close() were doing with its entry.
NoPendingLeft ==
  \A c \in Calls : call[c] = "done" => c \notin pending

\* No caller sleeps on a condition that holds already: the acknowledgement,
\* reply or error it waits for was set before a notification that reached it.
NoSleepOnVerdict ==
  \A c \in Calls :
    /\ call[c] = "ackWait" => ~acked[c] /\ ~failed[c]
    /\ call[c] = "replyWait" => ~replied[c] /\ ~failed[c]

\* A call whose wait for the ack is bounded, and whose own timeout is,
\* returns whatever the peer, the I/O thread and close() do.
BoundedCallReturns ==
  \A c \in Calls :
    (Timeout[c] >= 0 /\ ActualAckTimeout(c) >= 0 /\ call[c] # "idle")
      ~> call[c] = "done"

\* close() returns, as long as there is a socket to tell the I/O thread and
\* the DEALER has room for the requests it is given; and a call that it finds
\* registered, at the latest when it empties the map for the last time, comes
\* back, even if it waits without a timeout.
CloseCompletes ==
  /\ closer # "open" ~> closer = "closed"
  /\ \A c \in Calls :
       (closed /\ closer \in {"flagged", "sendClose", "join", "swap"}
               /\ c \in pending)
         ~> call[c] = "done"

\* What a call is to its caller, and the requests the peer was sent and has
\* answered.
Status(c) ==
  IF call[c] = "idle" THEN "idle"
  ELSE IF outcome[c] = "reply" THEN "answer"
  ELSE IF call[c] = "done" THEN "error"
  ELSE "active"

StatusOfCalls == [c \in Calls |-> Status(c)]
RequestedCalls == {c \in Calls : peer[c] # "none"}
AnsweredCalls == {c \in Calls : peer[c] = "answered"}

\* Calls behave as RpcRequester::call() promises for any transport.
Abstract ==
  INSTANCE RpcCall WITH
    state <- StatusOfCalls,
    requested <- RequestedCalls,
    answered <- AnsweredCalls

ImplementsRpcCall == Abstract!Spec
=============================================================================
