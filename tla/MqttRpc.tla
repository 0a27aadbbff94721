------------------------------ MODULE MqttRpc ------------------------------
(***************************************************************************)
(* RPC over MQTT: an MqttRpcRequester whose threads make calls, the broker *)
(* between, and an MqttRpcResponder a worker thread serves with            *)
(* handleOnce().  The broker may lose a message (QoS 0) and deliver a      *)
(* request twice (QoS 1); both ends may be closed at any time.             *)
(*                                                                         *)
(* A call stands for its request id.  What is done under the mutex of a    *)
(* PendingCall is one step, the wait that releases it included: whoever    *)
(* sets a flag holds it, and notifies in a later step, without it.         *)
(* transportClose() of the responder sets reqClosed_ without reqMutex_, so *)
(* there the test and the wait are two steps.  MqttConnection::publish()   *)
(* logs and swallows what the client throws, so that a message is lost     *)
(* unseen; what else it throws reaches its caller.                         *)
(***************************************************************************)
EXTENDS Naturals, Sequences

CONSTANTS
  Calls,       \* calls, each made once by a thread of its own
  Bounded,     \* those with timeoutSec >= 0
  AckBounded,  \* ackTimeoutSec_ >= 0
  Deliveries,  \* how often the broker may deliver the request of each call
  Garbled,     \* those a peer other than magpie's may answer out of format
  NoCall

ASSUME CallAssumption ==
  /\ Bounded \cup Garbled \subseteq Calls /\ NoCall \notin Calls
  /\ AckBounded \in BOOLEAN
  /\ Deliveries \in [Calls -> SUBSET (0 .. 2)]

VARIABLES
  \* the requester
  place,       \* where each call is inside transportCall()
  asleep,      \* the calls whose thread sleeps on cvAck or cvReply
  outcome,     \* how it ended: "unsent", "failed" (or timed out) or "reply"
  pending,     \* the keys of pending_
  acked, replied, error, payload,   \* PendingCall; error: whose errorMsg it is
  stage,       \* where the network thread is with
  hand,        \* the message it delivers
  closer,      \* where transportClose() is
  victims,     \* failAllPending()'s local map
  telling,     \* the call it has failed and not yet notified
  replies,     \* on their way to the requester
  \* the responder
  coming,      \* how often the broker has still to deliver each request
  arriving,    \* the request its network thread delivers, reqClosed_ tested
  queue,       \* reqQueue_
  worker,      \* where handleOnce() is
  item,        \* the request it handles
  reqCloser,   \* where its transportClose() is
  answered     \* history: requests that were answered

flagVars == <<acked, replied, error, payload>>
callVars == <<place, asleep, outcome>>
netVars == <<stage, hand>>
closeVars == <<closer, victims, telling>>
arrivalVars == <<coming, arriving>>
serverVars == <<arrivalVars, queue, worker, item, reqCloser, answered>>
vars == <<callVars, pending, flagVars, netVars, closeVars, replies, serverVars>>

NoReply == [rid |-> NoCall, kind |-> "none", answer |-> NoCall]
Reply(c, kind) == [rid |-> c, kind |-> kind, answer |-> c]

Init ==
  /\ place = [c \in Calls |-> "idle"]
  /\ asleep = {}
  /\ outcome = [c \in Calls |-> "none"]
  /\ pending = {} /\ acked = {} /\ replied = {}
  /\ error = [c \in Calls |-> "none"]
  /\ payload = [c \in Calls |-> NoCall]
  /\ stage = "idle" /\ hand = NoReply
  /\ closer = "open" /\ victims = {} /\ telling = NoCall
  /\ replies = <<>>
  /\ coming = [c \in Calls |-> 0] /\ arriving = NoCall
  /\ queue = <<>> /\ worker = "top" /\ item = NoCall
  /\ reqCloser = "open"
  /\ answered = {}

(***************************************************************************)
(* transportCall()                                                         *)
(***************************************************************************)

At(c, from) == place[c] = from
To(c, to) == place' = [place EXCEPT ![c] = to]

closing == closer # "open"
subscribed == closer \in {"open", "unsubscribe"}
reqClosed == reqCloser # "open"

\* Every way out erases the entry; the PendingCall goes with its last user,
\* and but for a payload that is returned nothing of it is read again.
Leave(c, how) ==
  /\ To(c, "done")
  /\ outcome' = [outcome EXCEPT ![c] = how]
  /\ pending' = pending \ {c}
  /\ acked' = acked \ {c} /\ replied' = replied \ {c}
  /\ error' = [error EXCEPT ![c] = "none"]
  /\ asleep' = asleep \ {c}
  /\ payload' = IF how = "reply" THEN payload ELSE [payload EXCEPT ![c] = NoCall]
  /\ UNCHANGED <<netVars, closeVars, replies, serverVars>>

\* closed_ and closing_ are read once, before the call is registered.
Enter(c) ==
  /\ At(c, "idle") /\ ~closing
  /\ To(c, "register")
  /\ UNCHANGED <<asleep, outcome, pending, flagVars, netVars, closeVars, replies, serverVars>>

Refuse(c) == At(c, "idle") /\ closing /\ Leave(c, "unsent")

Register(c) ==
  /\ At(c, "register")
  /\ To(c, "publish")
  /\ pending' = pending \cup {c}
  /\ UNCHANGED <<asleep, outcome, flagVars, netVars, closeVars, replies, serverVars>>

\* The broker loses the request, or will deliver it, once or twice.
Publish(c) ==
  /\ At(c, "publish")
  /\ To(c, "ack")
  /\ \E n \in Deliveries[c] : coming' = [coming EXCEPT ![c] = n]
  /\ UNCHANGED <<asleep, outcome, pending, flagVars, netVars, closeVars, replies, arriving, queue, worker, item, reqCloser, answered>>

\* publish() throws: the call is erased, nothing is sent.
PublishThrows(c) == At(c, "publish") /\ Leave(c, "unsent")

\* The two waits: for the ack, then for the reply.
Got(c) == IF At(c, "ack") THEN c \in acked ELSE c \in replied
Waits(c) == place[c] \in {"ack", "reply"}
Tests(c) == Waits(c) /\ c \notin asleep

Proceed(c) ==
  /\ Tests(c) /\ Got(c)
  /\ To(c, IF At(c, "ack") THEN "reply" ELSE "return")
  /\ UNCHANGED <<asleep, outcome, pending, flagVars, netVars, closeVars, replies, serverVars>>

Failed(c) == error[c] # "none"

Fail(c) == Tests(c) /\ ~Got(c) /\ Failed(c) /\ Leave(c, "failed")

Sleep(c) ==
  /\ Tests(c) /\ ~Got(c) /\ ~Failed(c)
  /\ asleep' = asleep \cup {c}
  /\ UNCHANGED <<place, outcome, pending, flagVars, netVars, closeVars, replies, serverVars>>

\* Spuriously, too.
WakesUp(c) ==
  /\ c \in asleep
  /\ asleep' = asleep \ {c}
  /\ UNCHANGED <<place, outcome, pending, flagVars, netVars, closeVars, replies, serverVars>>

\* The wait for the ack has the shorter of two timeouts, none if
\* ackTimeoutSec_ is negative, whatever the timeout of the call.
HasDeadline(c) == IF At(c, "ack") THEN AckBounded ELSE c \in Bounded

\* The deadline passes: what is there by then still counts.
Expire(c) ==
  /\ c \in asleep /\ HasDeadline(c)
  /\ \/ ~Got(c) /\ ~Failed(c) /\ Leave(c, "failed")
     \/ (Got(c) \/ Failed(c)) /\ WakesUp(c)

ReturnReply(c) == At(c, "return") /\ Leave(c, "reply")

(***************************************************************************)
(* onReplyMessage(), in the network thread                                 *)
(***************************************************************************)

NetworkAt(from, to) == stage = from /\ stage' = to

\* MqttConnection has a message and has copied the callback it is for.
OnMessage ==
  /\ NetworkAt("idle", "called") /\ replies # <<>>
  /\ hand' = Head(replies) /\ replies' = Tail(replies)
  /\ UNCHANGED <<callVars, pending, flagVars, closeVars, serverVars>>

\* Mutant of OnReply: the reply goes to whatever call is pending.
OnReplyForAny ==
  /\ NetworkAt("called", "found")
  /\ \E c \in pending : hand' = [hand EXCEPT !.rid = c]
  /\ UNCHANGED <<callVars, pending, flagVars, closeVars, replies, serverVars>>

\* The call is looked up under pendingMtx_ and kept, whatever becomes of its
\* entry; a reply to a call that is gone is dropped.
OnReply ==
  /\ \/ hand.rid \in pending /\ NetworkAt("called", "found") /\ UNCHANGED hand
     \/ hand.rid \notin pending /\ NetworkAt("called", "idle") /\ hand' = NoReply
  /\ UNCHANGED <<callVars, pending, flagVars, closeVars, replies, serverVars>>

Invalid(kind) == IF kind = "ack" THEN "bad_ack" ELSE "bad_reply"

\* What a message is about, and whose condition variable is notified.
About(kind) == IF kind \in {"ack", "bad_ack"} THEN "ack" ELSE "reply"

\* The flag is set under the mutex of the call.
Route ==
  LET c == hand.rid
  IN  /\ NetworkAt("found", "notify") /\ ~At(c, "done")
      /\ acked' = IF hand.kind = "ack" THEN acked \cup {c} ELSE acked
      /\ replied' = IF hand.kind = "payload" THEN replied \cup {c} ELSE replied
      /\ payload' = IF hand.kind = "payload" THEN [payload EXCEPT ![c] = hand.answer] ELSE payload
      /\ error' = IF hand.kind \in {"bad_ack", "bad_reply"}
                   THEN [error EXCEPT ![c] = About(hand.kind)] ELSE error
      /\ UNCHANGED <<callVars, pending, hand, closeVars, replies, serverVars>>

\* The call has left meanwhile: nobody reads what is set.
RouteToNobody ==
  /\ NetworkAt("found", "idle") /\ At(hand.rid, "done")
  /\ hand' = NoReply
  /\ UNCHANGED <<callVars, pending, flagVars, closeVars, replies, serverVars>>

Woken(c, where) == IF place[c] = where THEN asleep \ {c} ELSE asleep

\* Mutant of Notify: an ack wakes who waits for a reply.
NotifyReplyOnly ==
  /\ NetworkAt("notify", "idle")
  /\ asleep' = Woken(hand.rid, "reply")
  /\ hand' = NoReply
  /\ UNCHANGED <<place, outcome, pending, flagVars, closeVars, replies, serverVars>>

\* Then its variable is notified: cvAck for an ack, cvReply for all else.
Notify ==
  /\ NetworkAt("notify", "idle")
  /\ asleep' = Woken(hand.rid, About(hand.kind))
  /\ hand' = NoReply
  /\ UNCHANGED <<place, outcome, pending, flagVars, closeVars, replies, serverVars>>

(***************************************************************************)
(* transportClose() of the requester                                       *)
(***************************************************************************)

Closes(from, to) == closer = from /\ closer' = to

CloseFlag ==
  /\ Closes("open", "unsubscribe")
  /\ UNCHANGED <<callVars, pending, flagVars, netVars, victims, telling, replies, serverVars>>

\* removeSubscription(): what comes in now finds no callback; one that is
\* copied already still runs.
CloseUnsubscribe ==
  /\ Closes("unsubscribe", "swap")
  /\ replies' = <<>>
  /\ UNCHANGED <<callVars, pending, flagVars, netVars, victims, telling, serverVars>>

\* Mutant of CloseSwap: the map is cleared, nobody is told.
CloseClears ==
  /\ Closes("swap", "fail")
  /\ pending' = {}
  /\ UNCHANGED <<callVars, flagVars, netVars, victims, telling, replies, serverVars>>

CloseSwap ==
  /\ Closes("swap", "fail")
  /\ victims' = pending
  /\ pending' = {}
  /\ UNCHANGED <<callVars, flagVars, netVars, telling, replies, serverVars>>

\* An error that is there already stays.
CloseFails(c) ==
  /\ closer = "fail" /\ telling = NoCall /\ c \in victims
  /\ victims' = victims \ {c} /\ telling' = c
  /\ error' = IF At(c, "done") \/ Failed(c) THEN error ELSE [error EXCEPT ![c] = "closed"]
  /\ UNCHANGED <<callVars, pending, acked, replied, payload, netVars, closer, replies, serverVars>>

\* Both variables, one after the other.
CloseNotifies ==
  /\ telling # NoCall
  /\ asleep' = asleep \ {telling} /\ telling' = NoCall
  /\ UNCHANGED <<place, outcome, pending, flagVars, netVars, closer, victims, replies, serverVars>>

CloseDone ==
  /\ victims = {} /\ telling = NoCall /\ Closes("fail", "closed")
  /\ UNCHANGED <<callVars, pending, flagVars, netVars, victims, telling, replies, serverVars>>

(***************************************************************************)
(* onRequestMessage(), in the responder's network thread                   *)
(***************************************************************************)

requesterVars == <<callVars, pending, flagVars, netVars, closeVars>>

\* A closed responder drops the request.
OnRequest(c) ==
  /\ arriving = NoCall /\ coming[c] > 0
  /\ coming' = [coming EXCEPT ![c] = @ - 1]
  /\ arriving' = IF reqClosed THEN NoCall ELSE c
  /\ UNCHANGED <<requesterVars, replies, queue, worker, item, reqCloser, answered>>

\* Under reqMutex_, which the worker holds from its test to its wait; then
\* notify_one(), in time for a worker that sleeps and for nothing else.
Enqueue ==
  /\ arriving # NoCall /\ worker # "tested"
  /\ queue' = Append(queue, arriving) /\ arriving' = NoCall
  /\ worker' = IF worker = "asleep" THEN "test" ELSE worker
  /\ UNCHANGED <<requesterVars, replies, coming, item, reqCloser, answered>>

(***************************************************************************)
(* handleOnce(), in a loop that ends when it throws that it is closed; a   *)
(* handler that throws, and a schema that has nothing to say, send nothing *)
(***************************************************************************)

WorkerAt(from, to) ==
  /\ worker \in from /\ worker' = to
  /\ UNCHANGED <<requesterVars, arrivalVars, reqCloser>>

Quietly == UNCHANGED <<replies, queue, item, answered>>

Receive == ~reqClosed /\ WorkerAt({"top"}, "test") /\ Quietly

\* Mutant of ReceiveExpires: the wait has no deadline.
ReceiveUntimed == queue # <<>> /\ WorkerAt({"asleep"}, "test") /\ Quietly

\* The deadline passes: TimeoutError, unless there is something by then.
ReceiveExpires ==
  WorkerAt({"asleep"}, IF queue = <<>> /\ ~reqClosed THEN "top" ELSE "test") /\ Quietly

ReceiveSleeps ==
  \/ queue = <<>> /\ ~reqClosed /\ WorkerAt({"test"}, "tested") /\ Quietly
  \/ WorkerAt({"tested"}, "asleep") /\ Quietly

Stop ==
  \/ reqClosed /\ WorkerAt({"top"}, "stopped") /\ Quietly
  \/ reqClosed /\ queue = <<>> /\ WorkerAt({"test"}, "stopped") /\ Quietly

Take ==
  /\ queue # <<>> /\ WorkerAt({"test"}, "ack")
  /\ item' = Head(queue) /\ queue' = Tail(queue)
  /\ UNCHANGED <<replies, answered>>

\* A message the broker may lose, and has nobody for after an unsubscribe.
Sends(kind) ==
  \/ replies' = replies
  \/ subscribed /\ replies' = Append(replies, Reply(item, kind))
  \/ subscribed /\ item \in Garbled /\ replies' = Append(replies, Reply(item, Invalid(kind)))

Ack ==
  /\ WorkerAt({"ack"}, "handle")
  /\ Sends("ack")
  /\ UNCHANGED <<queue, item, answered>>

\* publish() throws, and so does handleOnce(): the request is not handled.
AckThrows ==
  /\ WorkerAt({"ack"}, "top")
  /\ item' = NoCall
  /\ UNCHANGED <<replies, queue, answered>>

Answer ==
  /\ WorkerAt({"handle"}, "top")
  /\ Sends("payload")
  /\ item' = NoCall
  /\ answered' = answered \cup {item}
  /\ UNCHANGED queue

\* transportClose() of the responder.
ReqCloses(from, to) ==
  /\ reqCloser = from /\ reqCloser' = to
  /\ UNCHANGED <<requesterVars, replies, arrivalVars, queue, item, answered>>

ReqCloseFlag == ReqCloses("open", "notify") /\ UNCHANGED worker

\* notify_all(); that the subscription is removed last changes nothing more.
ReqCloseNotify ==
  /\ ReqCloses("notify", "closed")
  /\ worker' = IF worker = "asleep" THEN "test" ELSE worker

(***************************************************************************)
(* Specification                                                           *)
(***************************************************************************)

CallStep(c) ==
  \/ Enter(c) \/ Refuse(c) \/ Register(c) \/ Publish(c) \/ PublishThrows(c)
  \/ Proceed(c) \/ Fail(c) \/ Sleep(c) \/ WakesUp(c) \/ Expire(c) \/ ReturnReply(c)
NetworkStep == OnMessage \/ OnReply \/ Route \/ RouteToNobody \/ Notify
CloseStep ==
  \/ CloseFlag \/ CloseUnsubscribe \/ CloseSwap \/ CloseNotifies \/ CloseDone
  \/ \E c \in Calls : CloseFails(c)
WorkerStep ==
  \/ Receive \/ ReceiveSleeps \/ Stop
  \/ Take \/ Ack \/ AckThrows \/ Answer

Next ==
  \/ \E c \in Calls : CallStep(c) \/ OnRequest(c)
  \/ NetworkStep \/ CloseStep
  \/ Enqueue \/ WorkerStep \/ ReceiveExpires
  \/ ReqCloseFlag \/ ReqCloseNotify

Spec == Init /\ [][Next]_vars

\* The worker runs, handlers return, and the deadline of a receive passes
\* however often it is woken before.  Nothing else is owed.
Fairness == WF_vars(WorkerStep) /\ SF_vars(ReceiveExpires)

FairSpec == Spec /\ Fairness

(***************************************************************************)
(* Properties                                                              *)
(***************************************************************************)

Kinds == {"ack", "bad_ack", "payload", "bad_reply"}
Replies == {Reply(c, kind) : c \in Calls, kind \in Kinds}

TypeOK ==
  /\ place \in [Calls -> {"idle", "register", "publish", "ack", "reply", "return", "done"}]
  /\ asleep \subseteq {c \in Calls : Waits(c)}
  /\ outcome \in [Calls -> {"none", "unsent", "failed", "reply"}]
  /\ \A set \in {pending, acked, replied, victims, answered} : set \subseteq Calls
  /\ error \in [Calls -> {"none", "ack", "reply", "closed"}]
  /\ payload \in [Calls -> Calls \cup {NoCall}]
  /\ stage \in {"idle", "called", "found", "notify"}
  /\ hand \in IF stage = "idle" THEN {NoReply} ELSE Replies
  /\ replies \in Seq(Replies)
  /\ closer \in {"open", "unsubscribe", "swap", "fail", "closed"}
  /\ {telling, arriving, item} \subseteq Calls \cup {NoCall}
  /\ coming \in [Calls -> 0 .. 2] /\ queue \in Seq(Calls)
  /\ worker \in {"ack", "handle"} => item # NoCall
  /\ worker \in {"top", "test", "tested", "asleep", "ack", "handle", "stopped"}
  /\ reqCloser \in {"open", "notify", "closed"}

\* Who is about to wake a caller where it sleeps.
BeingTold(c) ==
  \/ telling = c
  \/ stage = "notify" /\ hand.rid = c /\ About(hand.kind) = place[c]

\* Nobody sleeps through a verdict on what it waits for: it is there only
\* while who set it is about to notify.  That takes in an invalid ack for who
\* waits for the ack, an invalid reply for who waits for the reply, and a
\* close() for both.  It leaves out an error about the other message: who
\* waits for a lost ack is not told of an invalid reply, nor who waits for
\* the reply of a second, invalid ack.
NoSleepOnVerdict ==
  \A c \in asleep : Got(c) \/ error[c] \in {place[c], "closed"} => BeingTold(c)

\* close() strands nobody it can know of: when it is done, a caller still
\* asleep was past the check of closing_ and not yet registered when the map
\* was swapped.  It waits for an ack that cannot come, until ackTimeoutSec_
\* has passed, and for ever if that is negative.
NobodyStranded == closer = "closed" => \A c \in asleep : c \in pending /\ At(c, "ack")

\* A worker that receives with a timeout leaves after close(), whether or not
\* the notification found it asleep.
WorkerLeaves == reqClosed ~> worker = "stopped"

Status(c) ==
  IF At(c, "idle") THEN "idle"
  ELSE IF ~At(c, "done") THEN "active"
  ELSE IF outcome[c] # "reply" THEN "error"
  ELSE IF payload[c] = c THEN "answer" ELSE "wrong answer"

Sent == {c \in Calls : place[c] \in {"ack", "reply", "return"} \/ outcome[c] \in {"failed", "reply"}}

\* Whatever the broker loses or repeats, a call that returns a payload returns
\* the answer to its own request, and stays over.
Abstract ==
  INSTANCE RpcCall WITH
    state <- [c \in Calls |-> Status(c)], requested <- Sent, answered <- answered
ImplementsRpcCall == Abstract!Spec
=============================================================================
