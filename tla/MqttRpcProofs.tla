---------------------------- MODULE MqttRpcProofs ----------------------------
(***************************************************************************)
(* Theorems about RPC over MQTT, for any number of calls, with or without  *)
(* timeouts, and any loss or repetition by the broker.                     *)
(***************************************************************************)
EXTENDS MqttRpc, TLAPS

USE CallAssumption

\* What the responder may have sent so far, and what follows from it: requests
\* were sent, replies are answers to their own request, and what a call has
\* been told was received.
Honest == {r \in Replies : r.rid \in Sent /\ (r.kind = "payload" => r.rid \in answered)}

AnswerInv ==
  /\ hand \in Honest \cup {NoReply} /\ replies \in Seq(Honest)
  /\ {arriving, item} \subseteq Sent \cup {NoCall} /\ queue \in Seq(Sent)
  /\ \A c \in Calls : coming[c] > 0 => c \in Sent
  /\ replied \subseteq answered
  /\ \A c \in replied : payload[c] = c
  /\ \A c \in Calls : place[c] = "return" => c \in replied

\* The outcome is written once, as the call leaves.
OutcomeInv == \A c \in Calls : outcome[c] = "none" <=> place[c] # "done"

\* A call is acknowledged between its publish() and its wait for the reply.
AckInv ==
  /\ \A c \in Calls : place[c] \in {"idle", "register"} => c \notin acked
  /\ \A c \in Calls : place[c] \in {"reply", "return"} => c \in acked

\* Where a registered call can be found: close() has failed it, is going to,
\* or will find it in the map; while it sleeps, it has yet to be told.
Findable == pending \cup victims \cup {telling}
HeardInv ==
  /\ \A c \in Calls : place[c] \in {"publish", "ack", "reply", "return"} => c \in Findable \/ Failed(c)
  /\ asleep \subseteq Findable

\* Once close() has emptied the map, what is registered after is never heard of.
CloseInv ==
  /\ closer \in {"swap", "fail", "closed"} => replies = <<>>
  /\ closer # "fail" => victims = {} /\ telling = NoCall
  /\ telling # NoCall /\ place[telling] # "done" => Failed(telling)
  /\ closer \in {"fail", "closed"} => \A c \in pending : c \notin acked /\ hand.rid # c

IInv ==
  /\ TypeOK /\ AnswerInv /\ OutcomeInv /\ AckInv /\ HeardInv /\ CloseInv
  /\ NoSleepOnVerdict

\* The steps of Next, one disjunct per action.
LEMMA NextCases ==
  ASSUME Next
  PROVE  \/ \E c \in Calls :
              \/ Enter(c) \/ Refuse(c) \/ Register(c) \/ Publish(c) \/ PublishThrows(c)
              \/ Proceed(c) \/ Fail(c) \/ Sleep(c) \/ WakesUp(c) \/ Expire(c) \/ ReturnReply(c)
         \/ OnMessage \/ OnReply \/ Route \/ RouteToNobody \/ Notify
         \/ CloseFlag \/ CloseUnsubscribe \/ CloseSwap \/ CloseNotifies \/ CloseDone
         \/ \E c \in Calls : CloseFails(c) \/ OnRequest(c)
         \/ Enqueue \/ Receive \/ ReceiveExpires \/ ReceiveSleeps \/ Stop
         \/ Take \/ Ack \/ AckThrows \/ Answer \/ ReqCloseFlag \/ ReqCloseNotify
  BY DEF Next, CallStep, NetworkStep, CloseStep, WorkerStep

\* A call that sleeps past its deadline either leaves or wakes up.
LEMMA ExpireCases ==
  ASSUME TypeOK, NEW c \in Calls, Expire(c)
  PROVE  \/ Waits(c) /\ ~Got(c) /\ ~Failed(c) /\ Leave(c, "failed")
         \/ WakesUp(c)
  BY DEF Expire, TypeOK

-----------------------------------------------------------------------------
(* Types.                                                                  *)

LEMMA ReplyType ==
  ASSUME NEW r \in Replies
  PROVE  r.rid \in Calls /\ r.kind \in Kinds /\ r.answer = r.rid /\ r # NoReply
  BY DEF Replies, Reply, NoReply, Kinds

Places == {"idle", "register", "publish", "ack", "reply", "return", "done"}
Outcomes == {"none", "unsent", "failed", "reply"}

CallTypes ==
  /\ place \in [Calls -> Places] /\ outcome \in [Calls -> Outcomes]
  /\ asleep \subseteq Calls /\ \A c \in asleep : place[c] \in {"ack", "reply"}
  /\ pending \subseteq Calls /\ acked \subseteq Calls /\ replied \subseteq Calls
  /\ error \in [Calls -> {"none", "ack", "reply", "closed"}]
  /\ payload \in [Calls -> Calls \cup {NoCall}]
ClientTypes ==
  /\ stage \in {"idle", "called", "found", "notify"}
  /\ hand \in IF stage = "idle" THEN {NoReply} ELSE Replies
  /\ replies \in Seq(Replies)
  /\ victims \subseteq Calls /\ telling \in Calls \cup {NoCall}
  /\ closer \in {"open", "unsubscribe", "swap", "fail", "closed"}
ServerTypes ==
  /\ coming \in [Calls -> 0 .. 2] /\ arriving \in Calls \cup {NoCall}
  /\ queue \in Seq(Calls) /\ item \in Calls \cup {NoCall} /\ answered \subseteq Calls
  /\ worker \in {"ack", "handle"} => item # NoCall
  /\ worker \in {"top", "test", "tested", "asleep", "ack", "handle", "stopped"}
  /\ reqCloser \in {"open", "notify", "closed"}

LEMMA TypeParts == TypeOK <=> CallTypes /\ ClientTypes /\ ServerTypes
  BY DEF TypeOK, CallTypes, ClientTypes, ServerTypes, Places, Outcomes, Waits

LEMMA TypePartsPrimed == TypeOK' <=> CallTypes' /\ ClientTypes' /\ ServerTypes'
  BY DEF TypeOK, CallTypes, ClientTypes, ServerTypes, Places, Outcomes, Waits

LEMMA StepKeepsTypes == TypeOK /\ [Next]_vars => TypeOK'
<1> SUFFICES ASSUME TypeOK, [Next]_vars
             PROVE  CallTypes' /\ ClientTypes' /\ ServerTypes'
  BY TypePartsPrimed
<1>0. CallTypes /\ ClientTypes /\ ServerTypes
  BY TypeParts
<1> USE DEF flagVars, callVars, netVars, closeVars, arrivalVars, serverVars, requesterVars
<1>s. ASSUME UNCHANGED serverVars PROVE ServerTypes'
  BY <1>0, <1>s DEF ServerTypes
<1>c. ASSUME UNCHANGED <<netVars, closeVars, replies>> PROVE ClientTypes'
  BY <1>0, <1>c DEF ClientTypes
<1>u. ASSUME UNCHANGED <<callVars, pending, flagVars>> PROVE CallTypes'
  BY <1>0, <1>u DEF CallTypes
<1>l. ASSUME NEW c \in Calls, NEW how \in Outcomes, Leave(c, how)
      PROVE  CallTypes' /\ ClientTypes' /\ ServerTypes'
  <2>1. /\ place' = [place EXCEPT ![c] = "done"]
        /\ outcome' = [outcome EXCEPT ![c] = how]
        /\ asleep' = asleep \ {c}
    BY <1>l DEF Leave, To
  <2>2. \A d \in asleep' : place'[d] \in {"ack", "reply"}
    BY <1>0, <2>1 DEF CallTypes
  <2>3. CallTypes'
    BY <1>0, <1>l, <2>1, <2>2 DEF Leave, CallTypes, Places
  <2>4. QED
    BY <1>l, <1>s, <1>c, <2>3 DEF Leave
<1>1. ASSUME NEW c \in Calls, Refuse(c) \/ PublishThrows(c) \/ Fail(c) \/ ReturnReply(c)
      PROVE  CallTypes' /\ ClientTypes' /\ ServerTypes'
  <2>1. \E how \in Outcomes : Leave(c, how)
    BY <1>1 DEF Refuse, PublishThrows, Fail, ReturnReply, Outcomes
  <2>2. QED
    BY <2>1, <1>l
<1>2. ASSUME NEW c \in Calls, WakesUp(c) \/ Sleep(c)
      PROVE  CallTypes' /\ ClientTypes' /\ ServerTypes'
  <2>1. CallTypes'
    BY <1>0, <1>2 DEF WakesUp, Sleep, Tests, Waits, CallTypes
  <2>2. QED
    BY <1>2, <1>s, <1>c, <2>1 DEF WakesUp, Sleep
<1>3. ASSUME NEW c \in Calls, Expire(c) PROVE CallTypes' /\ ClientTypes' /\ ServerTypes'
  <2>1. "failed" \in Outcomes
    BY DEF Outcomes
  <2>2. QED
    BY <1>3, <1>2, <1>l, <2>1, ExpireCases
<1>4. ASSUME NEW c \in Calls, Enter(c) \/ Register(c) \/ Proceed(c) \/ Publish(c)
      PROVE  CallTypes' /\ ClientTypes' /\ ServerTypes'
  <2>1. PICK to \in Places : place' = [place EXCEPT ![c] = to]
    BY <1>4 DEF Enter, Register, Proceed, Publish, To, Places
  <2>2. c \notin asleep
    BY <1>0, <1>4 DEF Enter, Register, Proceed, Publish, At, Tests, CallTypes
  <2>3. \A d \in asleep : place'[d] \in {"ack", "reply"}
    BY <1>0, <2>1, <2>2 DEF CallTypes
  <2>4. CallTypes' /\ ClientTypes'
    BY <1>0, <1>4, <1>c, <2>1, <2>3 DEF Enter, Register, Proceed, Publish, CallTypes
  <2>5. CASE ~Publish(c)
    BY <1>4, <1>s, <2>4, <2>5 DEF Enter, Register, Proceed
  <2>6. CASE Publish(c)
    <3>1. coming' \in [Calls -> 0 .. 2]
      BY <1>0, <2>6 DEF Publish, ServerTypes
    <3>2. QED
      BY <1>0, <2>4, <2>6, <3>1 DEF Publish, ServerTypes
  <2>7. QED
    BY <2>5, <2>6
<1>5. CASE OnMessage \/ OnReply \/ RouteToNobody
  <2>1. CallTypes' /\ ServerTypes'
    BY <1>5, <1>u, <1>s DEF OnMessage, OnReply, RouteToNobody
  <2>2. ClientTypes'
    BY <1>0, <1>5 DEF OnMessage, OnReply, RouteToNobody, NetworkAt, ClientTypes
  <2>3. QED
    BY <2>1, <2>2
<1>6. CASE Route
  <2>1. hand \in Replies /\ hand.rid \in Calls /\ hand.answer \in Calls /\ hand.kind \in Kinds
    BY <1>0, <1>6, ReplyType DEF Route, NetworkAt, ClientTypes
  <2>2. payload' \in [Calls -> Calls \cup {NoCall}]
    BY <1>0, <1>6, <2>1 DEF Route, CallTypes
  <2>3. error' \in [Calls -> {"none", "ack", "reply", "closed"}]
    BY <1>0, <1>6, <2>1 DEF Route, About, CallTypes
  <2>4. CallTypes'
    BY <1>0, <1>6, <2>1, <2>2, <2>3 DEF Route, CallTypes
  <2>5. ClientTypes'
    BY <1>0, <1>6 DEF Route, NetworkAt, ClientTypes
  <2>6. QED
    BY <1>6, <1>s, <2>4, <2>5 DEF Route
<1>7. CASE Notify
  <2>1. CallTypes'
    BY <1>0, <1>7 DEF Notify, Woken, CallTypes
  <2>2. ClientTypes'
    BY <1>0, <1>7 DEF Notify, NetworkAt, ClientTypes
  <2>3. QED
    BY <1>7, <1>s, <2>1, <2>2 DEF Notify
<1>8. CASE CloseFlag \/ CloseUnsubscribe \/ CloseSwap \/ CloseDone
  <2>1. /\ closer' \in {"open", "unsubscribe", "swap", "fail", "closed"}
        /\ replies' \in {replies, <<>>} /\ victims' \in {victims, pending}
        /\ pending' \in {pending, {}}
        /\ UNCHANGED <<callVars, flagVars, netVars, telling, serverVars>>
    BY <1>8 DEF CloseFlag, CloseUnsubscribe, CloseSwap, CloseDone, Closes
  <2>2. <<>> \in Seq(Replies)
    OBVIOUS
  <2>3. replies' \in Seq(Replies)
    BY <1>0, <2>1, <2>2 DEF ClientTypes
  <2>4. CallTypes'
    BY <1>0, <2>1 DEF CallTypes
  <2>5. ClientTypes'
    BY <1>0, <2>1, <2>3 DEF ClientTypes, CallTypes
  <2>6. QED
    BY <1>s, <2>1, <2>4, <2>5
<1>9. ASSUME NEW c \in Calls, CloseFails(c) PROVE CallTypes' /\ ClientTypes' /\ ServerTypes'
  <2>1. CallTypes'
    BY <1>0, <1>9 DEF CloseFails, CallTypes
  <2>2. ClientTypes'
    BY <1>0, <1>9 DEF CloseFails, ClientTypes
  <2>3. QED
    BY <1>9, <1>s, <2>1, <2>2 DEF CloseFails
<1>10. CASE CloseNotifies
  <2>1. CallTypes'
    BY <1>0, <1>10 DEF CloseNotifies, CallTypes
  <2>2. ClientTypes'
    BY <1>0, <1>10 DEF CloseNotifies, ClientTypes
  <2>3. QED
    BY <1>10, <1>s, <2>1, <2>2 DEF CloseNotifies
<1>11. ASSUME NEW c \in Calls, OnRequest(c) PROVE CallTypes' /\ ClientTypes' /\ ServerTypes'
  <2>1. coming' \in [Calls -> 0 .. 2]
    BY <1>0, <1>11 DEF OnRequest, ServerTypes
  <2>2. ServerTypes'
    BY <1>0, <1>11, <2>1 DEF OnRequest, ServerTypes
  <2>3. QED
    BY <1>11, <1>u, <1>c, <2>2 DEF OnRequest
<1>12. CASE Enqueue
  <2>1. queue' \in Seq(Calls)
    BY <1>0, <1>12 DEF Enqueue, ServerTypes
  <2>2. ServerTypes'
    BY <1>0, <1>12, <2>1 DEF Enqueue, ServerTypes
  <2>3. QED
    BY <1>12, <1>u, <1>c, <2>2 DEF Enqueue
<1>13. CASE Receive \/ ReceiveExpires \/ ReceiveSleeps \/ Stop \/ AckThrows
            \/ ReqCloseFlag \/ ReqCloseNotify
  <2>1. ServerTypes'
    BY <1>0, <1>13 DEF Receive, ReceiveExpires, ReceiveSleeps, Stop, AckThrows, WorkerAt,
                       Quietly, ReqCloseFlag, ReqCloseNotify, ReqCloses, ServerTypes
  <2>2. QED
    BY <1>13, <1>u, <1>c, <2>1
       DEF Receive, ReceiveExpires, ReceiveSleeps, Stop, AckThrows, WorkerAt, Quietly,
           ReqCloseFlag, ReqCloseNotify, ReqCloses
<1>14. CASE Take
  <2>1. item' \in Calls /\ queue' \in Seq(Calls)
    BY <1>0, <1>14 DEF Take, ServerTypes
  <2>2. ServerTypes'
    BY <1>0, <1>14, <2>1 DEF Take, WorkerAt, ServerTypes
  <2>3. QED
    BY <1>14, <1>u, <1>c, <2>2 DEF Take, WorkerAt
<1>15. CASE Ack \/ Answer
  <2>1. PICK kind \in {"ack", "payload"} : Sends(kind)
    BY <1>15 DEF Ack, Answer
  <2>2. Reply(item, kind) \in Replies /\ Reply(item, Invalid(kind)) \in Replies
    BY <1>0, <1>15 DEF Ack, Answer, WorkerAt, Replies, Kinds, Invalid, ServerTypes
  <2>3. replies' \in Seq(Replies)
    BY <1>0, <2>1, <2>2 DEF Sends, ClientTypes
  <2>4. ServerTypes' /\ CallTypes'
    BY <1>0, <1>15, <1>u DEF Ack, Answer, WorkerAt, ServerTypes
  <2>5. QED
    BY <1>0, <1>15, <2>3, <2>4 DEF Ack, Answer, WorkerAt, ClientTypes
<1>16. CASE UNCHANGED vars
  BY <1>16, <1>u, <1>c, <1>s DEF vars
<1>17. QED
  BY <1>1, <1>2, <1>3, <1>4, <1>5, <1>6, <1>7, <1>8, <1>9, <1>10, <1>11, <1>12,
     <1>13, <1>14, <1>15, <1>16, NextCases

LEMMA InitTypes == Init => TypeOK
<1> SUFFICES ASSUME Init
             PROVE  TypeOK
  OBVIOUS
<1>1. queue \in Seq(Calls) /\ replies \in Seq(Replies)
  BY DEF Init
<1>2. QED
  BY <1>1 DEF Init, TypeOK

\* The variables keep their types, and only a call that waits is asleep.
THEOREM TypeCorrect == Spec => []TypeOK
  BY InitTypes, StepKeepsTypes, PTL DEF Spec

-----------------------------------------------------------------------------
(* How calls move, and what only grows.                                    *)

\* A call moves one place on, or leaves with an outcome that fits its place.
Moves(c) ==
  \/ /\ outcome' = outcome
     /\ \E to \in {"register", "publish", "ack", "reply", "return"} :
          /\ place' = [place EXCEPT ![c] = to]
          /\ <<place[c], to>> \in {<<"idle", "register">>, <<"register", "publish">>,
               <<"publish", "ack">>, <<"ack", "reply">>, <<"reply", "return">>}
  \/ /\ place' = [place EXCEPT ![c] = "done"]
     /\ \/ place[c] \in {"idle", "publish"} /\ outcome' = [outcome EXCEPT ![c] = "unsent"]
        \/ place[c] \in {"ack", "reply"} /\ outcome' = [outcome EXCEPT ![c] = "failed"]
        \/ place[c] = "return" /\ outcome' = [outcome EXCEPT ![c] = "reply"]

LEMMA StepMoves ==
  ASSUME TypeOK, [Next]_vars
  PROVE  UNCHANGED <<place, outcome>> \/ \E c \in Calls : Moves(c)
<1> USE DEF callVars, At, To
<1>1. ASSUME NEW c \in Calls, Enter(c) \/ Register(c) \/ Publish(c) PROVE Moves(c)
  BY <1>1 DEF Enter, Register, Publish, Moves
<1>2. ASSUME NEW c \in Calls, Proceed(c) PROVE Moves(c)
  BY <1>2 DEF Proceed, Tests, Waits, Moves
<1>3. ASSUME NEW c \in Calls, Refuse(c) \/ PublishThrows(c) \/ Fail(c) \/ ReturnReply(c)
      PROVE  Moves(c)
  BY <1>3 DEF Refuse, PublishThrows, Fail, ReturnReply, Leave, Tests, Waits, Moves
<1>4. ASSUME NEW c \in Calls, Expire(c) PROVE Moves(c) \/ UNCHANGED <<place, outcome>>
  BY <1>4, ExpireCases DEF Leave, Waits, WakesUp, Moves
<1>5. ASSUME NEW c \in Calls, Sleep(c) \/ WakesUp(c) \/ CloseFails(c) \/ OnRequest(c)
      PROVE  UNCHANGED <<place, outcome>>
  BY <1>5 DEF Sleep, WakesUp, CloseFails, OnRequest, requesterVars
<1>6. CASE \/ OnMessage \/ OnReply \/ Route \/ RouteToNobody \/ Notify
           \/ CloseFlag \/ CloseUnsubscribe \/ CloseSwap \/ CloseNotifies \/ CloseDone
           \/ UNCHANGED vars
  BY <1>6 DEF OnMessage, OnReply, Route, RouteToNobody, Notify, CloseFlag, CloseUnsubscribe,
              CloseSwap, CloseNotifies, CloseDone, vars
<1>7. CASE \/ Enqueue \/ Receive \/ ReceiveExpires \/ ReceiveSleeps \/ Stop
           \/ Take \/ Ack \/ AckThrows \/ Answer \/ ReqCloseFlag \/ ReqCloseNotify
  BY <1>7 DEF Enqueue, Receive, ReceiveExpires, ReceiveSleeps, Stop, Take, Ack, AckThrows, Answer,
              WorkerAt, ReqCloseFlag, ReqCloseNotify, ReqCloses, requesterVars
<1>8. QED
  BY <1>1, <1>2, <1>3, <1>4, <1>5, <1>6, <1>7, NextCases

\* Only an answer adds to the history of answers.
LEMMA OnlyAnswerAnswers ==
  ASSUME TypeOK, [Next]_vars, ~Answer
  PROVE  answered' = answered
<1> USE DEF serverVars, Quietly
<1>1. ASSUME NEW c \in Calls,
             \/ Enter(c) \/ Refuse(c) \/ Register(c) \/ Publish(c) \/ PublishThrows(c)
             \/ Proceed(c) \/ Fail(c) \/ Sleep(c) \/ WakesUp(c) \/ Expire(c) \/ ReturnReply(c)
             \/ CloseFails(c) \/ OnRequest(c)
      PROVE  answered' = answered
  BY <1>1, ExpireCases DEF Enter, Refuse, Register, Publish, PublishThrows, Proceed, Fail, Sleep,
     WakesUp, ReturnReply, CloseFails, OnRequest, Leave
<1>2. QED
  BY <1>1, NextCases
     DEF OnMessage, OnReply, Route, RouteToNobody, Notify, CloseFlag, CloseUnsubscribe, CloseSwap,
         CloseNotifies, CloseDone, Enqueue, Receive, ReceiveExpires, ReceiveSleeps, Stop, Take,
         Ack, AckThrows, WorkerAt, ReqCloseFlag, ReqCloseNotify, ReqCloses, vars

\* A request that was sent stays sent, one that was answered stays answered.
LEMMA StepGrows ==
  ASSUME TypeOK, OutcomeInv, [Next]_vars
  PROVE  Sent \subseteq Sent' /\ answered \subseteq answered' /\ Honest \subseteq Honest'
<1>0. place \in [Calls -> Places] /\ outcome \in [Calls -> Outcomes]
  BY TypeParts DEF CallTypes
<1>1. Sent \subseteq Sent'
  <2>1. CASE UNCHANGED <<place, outcome>>
    BY <2>1 DEF Sent
  <2>2. ASSUME NEW c \in Calls, Moves(c) PROVE Sent \subseteq Sent'
    <3>1. \A d \in Calls \ {c} : place'[d] = place[d] /\ outcome'[d] = outcome[d]
      BY <1>0, <2>2 DEF Moves
    <3>2. c \in Sent => c \in Sent'
      BY <1>0, <2>2 DEF Moves, OutcomeInv, Sent
    <3>3. QED
      BY <3>1, <3>2 DEF Sent
  <2>3. QED
    BY <2>1, <2>2, StepMoves
<1>2. answered \subseteq answered'
  BY OnlyAnswerAnswers DEF Answer
<1>3. QED
  BY <1>1, <1>2 DEF Honest

LEMMA StepKeepsOutcome ==
  ASSUME TypeOK, OutcomeInv, [Next]_vars
  PROVE  OutcomeInv'
<1>0. place \in [Calls -> Places] /\ outcome \in [Calls -> Outcomes]
  BY TypeParts DEF CallTypes
<1>1. CASE UNCHANGED <<place, outcome>>
  BY <1>1 DEF OutcomeInv
<1>2. ASSUME NEW c \in Calls, Moves(c) PROVE OutcomeInv'
  <2>1. \A d \in Calls \ {c} : place'[d] = place[d] /\ outcome'[d] = outcome[d]
    BY <1>0, <1>2 DEF Moves
  <2>2. outcome'[c] = "none" <=> place'[c] # "done"
    BY <1>0, <1>2 DEF Moves, OutcomeInv
  <2>3. QED
    BY <2>1, <2>2 DEF OutcomeInv
<1>3. QED
  BY <1>1, <1>2, StepMoves

-----------------------------------------------------------------------------
(* Answers.                                                                *)

LEMMA SeqGrows ==
  ASSUME NEW S, NEW T, S \subseteq T, NEW s \in Seq(S)
  PROVE  s \in Seq(T)
  OBVIOUS

LEMMA StepKeepsAnswers ==
  ASSUME TypeOK, OutcomeInv, AnswerInv, [Next]_vars
  PROVE  AnswerInv'
<1>0. CallTypes /\ ClientTypes /\ ServerTypes
  BY TypeParts
<1>1. Sent \subseteq Sent' /\ answered \subseteq answered' /\ Honest \subseteq Honest'
  BY StepGrows
<1>2. /\ hand \in Honest' \cup {NoReply} /\ replies \in Seq(Honest')
      /\ {arriving, item} \subseteq Sent' \cup {NoCall} /\ queue \in Seq(Sent')
      /\ \A c \in Calls : coming[c] > 0 => c \in Sent'
      /\ replied \subseteq answered' /\ \A c \in replied : payload[c] = c
      /\ \A c \in Calls : place[c] = "return" => c \in replied
  BY <1>1, SeqGrows DEF AnswerInv
<1> USE DEF flagVars, callVars, netVars, closeVars, arrivalVars, serverVars, requesterVars
<1>a. ASSUME hand' \in {hand, NoReply}, UNCHANGED <<replies, arriving, queue, coming>>,
             item' \in {item, NoCall}, replied' \subseteq replied,
             \A c \in replied' : payload'[c] = payload[c],
             \A c \in Calls : place'[c] = "return" => c \in replied'
      PROVE  AnswerInv'
  BY <1>a, <1>2 DEF AnswerInv
<1>b. ASSUME NEW c \in Calls, NEW how, Leave(c, how) PROVE AnswerInv'
  <2>1. \A d \in Calls : place'[d] = "return" => d \in replied'
    BY <1>b, <1>0, <1>2 DEF Leave, To, CallTypes
  <2>2. \A d \in replied' : payload'[d] = payload[d]
    BY <1>b, <1>0 DEF Leave, CallTypes
  <2>3. QED
    BY <1>b, <2>1, <2>2, <1>a DEF Leave
<1>3. ASSUME NEW c \in Calls, Refuse(c) \/ PublishThrows(c) \/ Fail(c) \/ ReturnReply(c)
      PROVE  AnswerInv'
  BY <1>3, <1>b DEF Refuse, PublishThrows, Fail, ReturnReply
<1>4. ASSUME NEW c \in Calls, Sleep(c) \/ WakesUp(c) PROVE AnswerInv'
  BY <1>4, <1>2, <1>a DEF Sleep, WakesUp
<1>5. ASSUME NEW c \in Calls, Expire(c) PROVE AnswerInv'
  BY <1>5, <1>b, <1>4, ExpireCases
<1>6. ASSUME NEW c \in Calls, Enter(c) \/ Register(c) \/ Proceed(c) PROVE AnswerInv'
  <2>1. \A d \in Calls : place'[d] = "return" => d \in replied'
    BY <1>6, <1>0, <1>2 DEF Enter, Register, Proceed, To, Got, At, Tests, Waits, CallTypes
  <2>2. QED
    BY <1>6, <2>1, <1>a DEF Enter, Register, Proceed
<1>7. ASSUME NEW c \in Calls, Publish(c) PROVE AnswerInv'
  <2>1. /\ place' = [place EXCEPT ![c] = "ack"]
        /\ \E n : coming' = [coming EXCEPT ![c] = n]
        /\ UNCHANGED <<hand, replies, arriving, item, queue, replied, payload>>
    BY <1>7 DEF Publish, To
  <2>2. c \in Sent'
    BY <1>0, <2>1 DEF Sent, CallTypes
  <2>3. \A d \in Calls : coming'[d] > 0 => d \in Sent'
    BY <1>0, <1>2, <2>1, <2>2 DEF ServerTypes
  <2>4. \A d \in Calls : place'[d] = "return" => d \in replied'
    BY <1>0, <1>2, <2>1 DEF CallTypes
  <2>5. QED
    BY <1>2, <2>1, <2>3, <2>4 DEF AnswerInv
<1>8. CASE OnMessage
  <2>1. /\ replies # <<>> /\ replies' = Tail(replies) /\ hand' = Head(replies)
        /\ UNCHANGED <<place, replied, payload, arriving, coming, queue, item>>
    BY <1>8 DEF OnMessage
  <2>2. Head(replies) \in Honest' /\ replies' \in Seq(Honest')
    BY <1>2, <2>1
  <2>3. QED
    BY <1>2, <2>1, <2>2 DEF AnswerInv
<1>9. CASE OnReply \/ RouteToNobody \/ Notify
  BY <1>2, <1>9, <1>a DEF OnReply, RouteToNobody, Notify
<1>10. CASE Route
  <2> DEFINE c == hand.rid
  <2>1. hand \in Honest /\ hand \in Replies
    BY <1>0, <1>10 DEF AnswerInv, Route, NetworkAt, Honest, ClientTypes, NoReply, Replies, Reply
  <2>2. c \in Calls /\ hand.answer = c /\ (hand.kind = "payload" => c \in answered)
    BY <2>1, ReplyType DEF Honest
  <2>3. /\ UNCHANGED <<hand, place, replies, arriving, coming, queue, item, answered>>
        /\ replied' = IF hand.kind = "payload" THEN replied \cup {c} ELSE replied
        /\ payload' = IF hand.kind = "payload" THEN [payload EXCEPT ![c] = c] ELSE payload
    BY <1>10, <2>2 DEF Route
  <2> HIDE DEF c
  <2>4. \A d \in replied' : payload'[d] = d
    BY <1>0, <1>2, <2>2, <2>3 DEF CallTypes
  <2>5. replied' \subseteq answered' /\ replied \subseteq replied'
    BY <1>2, <2>2, <2>3
  <2>6. QED
    BY <1>2, <2>3, <2>4, <2>5 DEF AnswerInv
<1>11. CASE CloseFlag \/ CloseSwap \/ CloseNotifies \/ CloseDone
  BY <1>2, <1>11, <1>a DEF CloseFlag, CloseSwap, CloseNotifies, CloseDone
<1>12. CASE CloseUnsubscribe
  <2>1. replies' \in Seq(Honest')
    BY <1>12 DEF CloseUnsubscribe
  <2>2. QED
    BY <1>2, <1>12, <2>1 DEF CloseUnsubscribe, AnswerInv
<1>13. ASSUME NEW c \in Calls, CloseFails(c) PROVE AnswerInv'
  BY <1>2, <1>13, <1>a DEF CloseFails
<1>14. ASSUME NEW c \in Calls, OnRequest(c) PROVE AnswerInv'
  <2>1. \A d \in Calls : coming'[d] > 0 => d \in Sent'
    BY <1>0, <1>2, <1>14 DEF OnRequest, ServerTypes
  <2>2. c \in Sent'
    BY <1>2, <1>14 DEF OnRequest
  <2>3. QED
    BY <1>2, <1>14, <2>1, <2>2 DEF OnRequest, AnswerInv
<1>15. CASE Enqueue
  <2>1. arriving \in Sent'
    BY <1>2, <1>15 DEF Enqueue
  <2>2. queue' \in Seq(Sent')
    BY <1>2, <1>15, <2>1 DEF Enqueue
  <2>3. QED
    BY <1>2, <1>15, <2>2 DEF Enqueue, AnswerInv
<1>16. CASE Receive \/ ReceiveExpires \/ ReceiveSleeps \/ Stop \/ AckThrows
  BY <1>2, <1>16, <1>a
     DEF Receive, ReceiveExpires, ReceiveSleeps, Stop, AckThrows, WorkerAt, Quietly
<1>17. CASE Take
  <2>1. /\ queue # <<>> /\ item' = Head(queue) /\ queue' = Tail(queue)
        /\ UNCHANGED <<hand, place, replies, arriving, coming, replied, payload>>
    BY <1>17 DEF Take, WorkerAt
  <2>2. item' \in Sent' /\ queue' \in Seq(Sent')
    BY <1>2, <2>1
  <2>3. QED
    BY <1>2, <2>1, <2>2 DEF AnswerInv
<1>18. CASE Ack \/ Answer
  <2>1. PICK kind \in {"ack", "payload"} : Sends(kind) /\ (kind = "payload" => item \in answered')
    BY <1>18 DEF Ack, Answer
  <2>2. item \in Calls /\ item \in Sent'
    BY <1>0, <1>2, <1>18 DEF Ack, Answer, WorkerAt, ServerTypes
  <2>3. Reply(item, kind) \in Honest' /\ Reply(item, Invalid(kind)) \in Honest'
    BY <2>1, <2>2 DEF Honest, Replies, Reply, Kinds, Invalid
  <2>4. replies' \in Seq(Honest')
    <3>1. \A r \in Honest' : Append(replies, r) \in Seq(Honest')
      BY <1>2
    <3>2. \/ replies' = replies
          \/ replies' = Append(replies, Reply(item, kind))
          \/ replies' = Append(replies, Reply(item, Invalid(kind)))
      BY <2>1 DEF Sends
    <3>3. QED
      BY <1>2, <2>3, <3>1, <3>2
  <2>5. UNCHANGED <<hand, place, arriving, coming, replied, payload, queue>> /\ item' \in {item, NoCall}
    BY <1>18 DEF Ack, Answer, WorkerAt
  <2>6. QED
    BY <1>2, <2>4, <2>5 DEF AnswerInv
<1>19. CASE ReqCloseFlag \/ ReqCloseNotify \/ UNCHANGED vars
  BY <1>2, <1>19, <1>a DEF ReqCloseFlag, ReqCloseNotify, ReqCloses, vars
<1>20. QED
  BY <1>3, <1>4, <1>5, <1>6, <1>7, <1>8, <1>9, <1>10, <1>11, <1>12, <1>13, <1>14,
     <1>15, <1>16, <1>17, <1>18, <1>19, NextCases

-----------------------------------------------------------------------------
(* Verdicts and close().                                                   *)

clientVars == <<place, asleep, pending, acked, replied, error, stage, hand, closer, victims, telling>>

\* Steps that concern none of what follows.
LEMMA OtherSteps ==
  ASSUME \/ Enqueue \/ Receive \/ ReceiveExpires \/ ReceiveSleeps \/ Stop \/ Take \/ AckThrows
         \/ ReqCloseFlag \/ ReqCloseNotify \/ UNCHANGED vars \/ \E c \in Calls : OnRequest(c)
  PROVE  UNCHANGED clientVars /\ UNCHANGED replies
  BY DEF Enqueue, Receive, ReceiveExpires, ReceiveSleeps, Stop, Take, AckThrows, WorkerAt, Quietly,
         ReqCloseFlag, ReqCloseNotify, ReqCloses, OnRequest, vars, requesterVars, callVars, flagVars,
         netVars, closeVars, serverVars, clientVars

\* Mail from the responder is read as long as the requester is subscribed.
LEMMA ResponderSends ==
  ASSUME Ack \/ Answer
  PROVE  UNCHANGED clientVars /\ (replies' = replies \/ closer \in {"open", "unsubscribe"})
  BY DEF Ack, Answer, Sends, subscribed, WorkerAt, requesterVars, callVars, flagVars, netVars,
         closeVars, clientVars

LEMMA StepKeepsAwake ==
  ASSUME TypeOK, NoSleepOnVerdict, [Next]_vars
  PROVE  NoSleepOnVerdict'
<1>0. CallTypes /\ ClientTypes /\ NoCall \notin Calls
  BY TypeParts
<1> USE DEF NoSleepOnVerdict, Got, At, To, Failed, BeingTold, flagVars, callVars, netVars, closeVars
<1>a. ASSUME NEW c \in Calls, NEW how, Leave(c, how) PROVE NoSleepOnVerdict'
  BY <1>a, <1>0 DEF Leave, CallTypes
<1>1. ASSUME NEW c \in Calls, Refuse(c) \/ PublishThrows(c) \/ Fail(c) \/ ReturnReply(c)
      PROVE  NoSleepOnVerdict'
  BY <1>1, <1>a DEF Refuse, PublishThrows, Fail, ReturnReply
<1>2. ASSUME NEW c \in Calls, WakesUp(c) PROVE NoSleepOnVerdict'
  BY <1>2 DEF WakesUp
<1>3. ASSUME NEW c \in Calls, Expire(c) PROVE NoSleepOnVerdict'
  BY <1>3, <1>2, <1>a, ExpireCases
<1>4. ASSUME NEW c \in Calls, Enter(c) \/ Register(c) \/ Publish(c) \/ Proceed(c)
      PROVE  NoSleepOnVerdict'
  <2>1. c \notin asleep
    BY <1>0, <1>4 DEF Enter, Register, Publish, Proceed, Tests, CallTypes
  <2>2. /\ \A d \in asleep : place'[d] = place[d]
        /\ UNCHANGED <<asleep, acked, replied, error, stage, hand, telling>>
    BY <1>0, <1>4, <2>1 DEF Enter, Register, Publish, Proceed, CallTypes
  <2>3. QED
    BY <2>2
<1>5. ASSUME NEW c \in Calls, Sleep(c) PROVE NoSleepOnVerdict'
  BY <1>0, <1>5 DEF Sleep, Tests, Waits
<1>6. CASE OnMessage \/ OnReply \/ RouteToNobody
  BY <1>0, <1>6 DEF OnMessage, OnReply, RouteToNobody, NetworkAt
<1>7. CASE Route
  <2>1. hand \in Replies
    BY <1>0, <1>7 DEF ClientTypes, Route, NetworkAt
  <2>2. hand.rid \in Calls /\ hand.kind \in Kinds
    BY <2>1, ReplyType
  <2>3. \A d \in Calls \ {hand.rid} :
          (d \in acked' <=> d \in acked) /\ (d \in replied' <=> d \in replied) /\ error'[d] = error[d]
    BY <1>0, <1>7 DEF Route, CallTypes
  <2>4. ASSUME NEW d \in asleep, Got(d)' \/ error'[d] \in {place'[d], "closed"}
        PROVE  BeingTold(d)'
    <3>1. UNCHANGED <<place, asleep, telling, hand>> /\ stage = "found" /\ stage' = "notify"
      BY <1>7 DEF Route, NetworkAt
    <3>2. d \in Calls /\ place[d] \in {"ack", "reply"}
      BY <1>0 DEF CallTypes
    <3>3. CASE d # hand.rid
      BY <2>3, <2>4, <3>1, <3>2, <3>3
    <3>4. CASE d = hand.rid
      <4>1. CASE Got(d) \/ error[d] \in {place[d], "closed"}
        BY <3>1, <4>1
      <4>2. CASE ~(Got(d) \/ error[d] \in {place[d], "closed"})
        <5>1. About(hand.kind) = place[d]
          BY <1>0, <1>7, <2>2, <2>4, <3>1, <3>2, <3>4, <4>2 DEF Route, About, Kinds, CallTypes
        <5>2. QED
          BY <3>1, <3>4, <5>1
      <4>3. QED
        BY <4>1, <4>2
    <3>5. QED
      BY <3>3, <3>4
  <2>5. asleep' = asleep
    BY <1>7 DEF Route
  <2>6. QED
    BY <2>4, <2>5
<1>8. CASE Notify
  BY <1>0, <1>8 DEF Notify, NetworkAt, Woken
<1>9. ASSUME NEW c \in Calls, CloseFails(c) PROVE NoSleepOnVerdict'
  <2>1. \A d \in Calls \ {c} : error'[d] = error[d]
    BY <1>0, <1>9 DEF CloseFails, CallTypes
  <2>2. telling = NoCall /\ telling' = c /\ UNCHANGED <<place, asleep, acked, replied, stage, hand>>
    BY <1>9 DEF CloseFails
  <2>3. QED
    BY <1>0, <2>1, <2>2 DEF CallTypes
<1>10. CASE CloseNotifies
  BY <1>0, <1>10 DEF CloseNotifies
<1>11. CASE UNCHANGED <<place, asleep, acked, replied, error, stage, hand, telling>>
  BY <1>11
<1>12. QED
  BY <1>1, <1>2, <1>3, <1>4, <1>5, <1>6, <1>7, <1>8, <1>9, <1>10, <1>11, OtherSteps,
     ResponderSends, NextCases
     DEF CloseFlag, CloseUnsubscribe, CloseSwap, CloseDone, clientVars

\* No caller sleeps through a verdict on what it waits for: who sets the flag,
\* or the error, is about to notify the variable it sleeps on.
THEOREM NobodySleepsOnVerdict == Spec => []NoSleepOnVerdict
<1>1. Init => NoSleepOnVerdict
  BY DEF Init, NoSleepOnVerdict
<1>2. QED
  BY <1>1, InitTypes, StepKeepsTypes, StepKeepsAwake, PTL DEF Spec

\* A message in the hands of the network thread is for a call that was sent.
LEMMA HandIsSent ==
  ASSUME OutcomeInv, AnswerInv, NEW c \in Calls, place[c] \in {"idle", "register", "publish"}
  PROVE  hand.rid # c
<1>1. c \notin Sent
  BY DEF Sent, OutcomeInv
<1>2. hand.rid \in Sent \/ hand.rid = NoCall
  BY DEF AnswerInv, Honest, NoReply
<1>3. QED
  BY <1>1, <1>2

\* Of the steps of a call, those that change neither flags nor the map.
LEMMA CallSteps ==
  ASSUME TypeOK, NEW c \in Calls,
         Enter(c) \/ Publish(c) \/ Proceed(c) \/ Sleep(c) \/ WakesUp(c)
  PROVE  UNCHANGED <<pending, acked, replied, error, stage, hand, closer, victims, telling, replies>>
  BY DEF Enter, Publish, Proceed, Sleep, WakesUp, flagVars, netVars, closeVars

LEMMA StepKeepsAcks ==
  ASSUME TypeOK, OutcomeInv, AnswerInv, AckInv, [Next]_vars
  PROVE  AckInv'
<1>0. CallTypes
  BY TypeParts
<1> USE DEF AckInv, At, To, flagVars, callVars
<1>1. ASSUME NEW c \in Calls, NEW how, Leave(c, how) PROVE AckInv'
  BY <1>0, <1>1 DEF Leave, CallTypes
<1>2. ASSUME NEW c \in Calls, Refuse(c) \/ PublishThrows(c) \/ Fail(c) \/ ReturnReply(c)
      PROVE  AckInv'
  BY <1>1, <1>2 DEF Refuse, PublishThrows, Fail, ReturnReply
<1>3. ASSUME NEW c \in Calls, Sleep(c) \/ WakesUp(c) PROVE AckInv'
  BY <1>3 DEF Sleep, WakesUp
<1>4. ASSUME NEW c \in Calls, Expire(c) PROVE AckInv'
  BY <1>1, <1>3, <1>4, ExpireCases
<1>5. ASSUME NEW c \in Calls, Enter(c) \/ Register(c) \/ Publish(c) \/ Proceed(c) PROVE AckInv'
  BY <1>0, <1>5 DEF Enter, Register, Publish, Proceed, Got, Tests, Waits, CallTypes
<1>6. CASE Route
  <2>1. acked' \subseteq acked \cup {hand.rid} /\ acked \subseteq acked' /\ place' = place
    BY <1>6 DEF Route
  <2>2. QED
    BY <2>1, HandIsSent
<1>7. CASE UNCHANGED <<place, acked>>
  BY <1>7
<1>8. QED
  BY <1>2, <1>3, <1>4, <1>5, <1>6, <1>7, OtherSteps, ResponderSends, NextCases
     DEF OnMessage, OnReply, RouteToNobody, Notify, CloseFlag, CloseUnsubscribe, CloseSwap,
         CloseFails, CloseNotifies, CloseDone, clientVars

LEMMA StepKeepsHeard ==
  ASSUME TypeOK, HeardInv, CloseInv, [Next]_vars
  PROVE  HeardInv'
<1>0. CallTypes /\ ClientTypes /\ NoCall \notin Calls
  BY TypeParts
<1> USE DEF HeardInv, Findable, Failed, At, To, flagVars, callVars, netVars, closeVars
<1>1. ASSUME NEW c \in Calls, NEW how, Leave(c, how) PROVE HeardInv'
  BY <1>0, <1>1 DEF Leave, CallTypes
<1>2. ASSUME NEW c \in Calls, Refuse(c) \/ PublishThrows(c) \/ Fail(c) \/ ReturnReply(c)
      PROVE  HeardInv'
  BY <1>1, <1>2 DEF Refuse, PublishThrows, Fail, ReturnReply
<1>3. ASSUME NEW c \in Calls, Sleep(c) \/ WakesUp(c) PROVE HeardInv'
  BY <1>0, <1>3 DEF Sleep, WakesUp, Tests, Waits
<1>4. ASSUME NEW c \in Calls, Expire(c) PROVE HeardInv'
  BY <1>1, <1>3, <1>4, ExpireCases
<1>5. ASSUME NEW c \in Calls, Enter(c) \/ Register(c) \/ Publish(c) \/ Proceed(c) PROVE HeardInv'
  BY <1>0, <1>5 DEF Enter, Register, Publish, Proceed, Tests, Waits, CallTypes
<1>6. CASE Route
  <2>1. \A c \in Calls : Failed(c) => Failed(c)'
    BY <1>0, <1>6 DEF Route, About, CallTypes
  <2>2. QED
    BY <1>6, <2>1 DEF Route
<1>7. CASE OnMessage \/ OnReply \/ RouteToNobody \/ CloseFlag \/ CloseUnsubscribe \/ CloseDone
  BY <1>7 DEF OnMessage, OnReply, RouteToNobody, CloseFlag, CloseUnsubscribe, CloseDone
<1>8. CASE Notify
  BY <1>8 DEF Notify, Woken
<1>9. CASE CloseSwap
  <2>1. victims = {}
    BY <1>9 DEF CloseSwap, Closes, CloseInv
  <2>2. QED
    BY <1>9, <2>1 DEF CloseSwap
<1>10. ASSUME NEW c \in Calls, CloseFails(c) PROVE HeardInv'
  <2>1. \A d \in Calls : Failed(d) => Failed(d)'
    BY <1>0, <1>10 DEF CloseFails, CallTypes
  <2>2. /\ victims' \cup {telling'} = victims \cup {c} /\ c \in victims /\ telling = NoCall
        /\ UNCHANGED <<place, asleep, pending>>
    BY <1>10 DEF CloseFails
  <2>3. QED
    BY <1>0, <2>1, <2>2 DEF CallTypes
<1>11. CASE CloseNotifies
  <2>1. place[telling] # "done" => Failed(telling)
    BY <1>11 DEF CloseNotifies, CloseInv
  <2>2. QED
    BY <1>0, <1>11, <2>1 DEF CloseNotifies, CallTypes
<1>12. CASE UNCHANGED <<place, asleep, pending, error, victims, telling>>
  BY <1>12
<1>13. QED
  BY <1>2, <1>3, <1>4, <1>5, <1>6, <1>7, <1>8, <1>9, <1>10, <1>11, <1>12,
     OtherSteps, ResponderSends, NextCases DEF clientVars

LEMMA StepKeepsClose ==
  ASSUME TypeOK, OutcomeInv, AnswerInv, AckInv, HeardInv, CloseInv, [Next]_vars
  PROVE  CloseInv'
<1>0. CallTypes /\ ClientTypes /\ NoCall \notin Calls
  BY TypeParts
<1> USE DEF CloseInv, At, To, Failed, flagVars, callVars, netVars, closeVars
<1>1. ASSUME NEW c \in Calls, NEW how, Leave(c, how) PROVE CloseInv'
  BY <1>0, <1>1 DEF Leave, CallTypes
<1>2. ASSUME NEW c \in Calls, Refuse(c) \/ PublishThrows(c) \/ Fail(c) \/ ReturnReply(c)
      PROVE  CloseInv'
  BY <1>1, <1>2 DEF Refuse, PublishThrows, Fail, ReturnReply
<1>3. ASSUME NEW c \in Calls, Sleep(c) \/ WakesUp(c) PROVE CloseInv'
  BY <1>3 DEF Sleep, WakesUp
<1>4. ASSUME NEW c \in Calls, Expire(c) PROVE CloseInv'
  BY <1>1, <1>3, <1>4, ExpireCases
<1>5. ASSUME NEW c \in Calls, Enter(c) \/ Publish(c) \/ Proceed(c) PROVE CloseInv'
  <2>1. /\ UNCHANGED <<pending, acked, error, hand, closer, victims, telling, replies>>
        /\ place[c] # "done" /\ \A d \in Calls \ {c} : place'[d] = place[d]
    BY <1>0, <1>5 DEF Enter, Publish, Proceed, Tests, Waits, CallTypes
  <2>2. telling # NoCall => telling \in Calls
    BY <1>0 DEF ClientTypes
  <2>3. telling # NoCall /\ place'[telling] # "done" => error'[telling] # "none"
    BY <2>1, <2>2
  <2>4. QED
    BY <2>1, <2>3
<1>6. ASSUME NEW c \in Calls, Register(c) PROVE CloseInv'
  <2>1. c \notin acked /\ hand.rid # c
    BY <1>6, HandIsSent DEF Register, AckInv
  <2>2. QED
    BY <1>0, <1>6, <2>1 DEF Register, CallTypes
<1>7. CASE OnMessage
  BY <1>7 DEF OnMessage
<1>8. CASE OnReply \/ RouteToNobody \/ Notify
  <2>1. \A c \in pending : c # NoReply.rid
    BY <1>0 DEF CallTypes, NoReply
  <2>2. QED
    BY <1>8, <2>1 DEF OnReply, RouteToNobody, Notify
<1>9. CASE Route
  <2>1. acked' \subseteq acked \cup {hand.rid} /\ UNCHANGED <<hand, place, pending, closer, victims, telling, replies>>
    BY <1>9 DEF Route
  <2>2. telling # NoCall => (Failed(telling) => Failed(telling)')
    BY <1>0, <1>9 DEF Route, About, ClientTypes, CallTypes
  <2>3. QED
    BY <2>1, <2>2
<1>10. CASE CloseFlag \/ CloseUnsubscribe \/ CloseSwap \/ CloseNotifies \/ CloseDone
  BY <1>10 DEF CloseFlag, CloseUnsubscribe, CloseSwap, CloseNotifies, CloseDone, Closes
<1>11. ASSUME NEW c \in Calls, CloseFails(c) PROVE CloseInv'
  BY <1>0, <1>11 DEF CloseFails, CallTypes
<1>12. CASE Ack \/ Answer
  BY <1>12, ResponderSends DEF clientVars
<1>13. CASE UNCHANGED clientVars /\ UNCHANGED replies
  BY <1>13 DEF clientVars
<1>14. QED
  BY <1>2, <1>3, <1>4, <1>5, <1>6, <1>7, <1>8, <1>9, <1>10, <1>11, <1>12, <1>13,
     OtherSteps, NextCases

LEMMA InitIInv == Init => IInv
<1> SUFFICES ASSUME Init
             PROVE  IInv
  OBVIOUS
<1>1. queue \in Seq(Sent) /\ replies \in Seq(Honest)
  BY DEF Init
<1>2. TypeOK
  BY InitTypes
<1>3. AnswerInv
  BY <1>1 DEF Init, AnswerInv
<1>4. OutcomeInv /\ AckInv /\ HeardInv /\ CloseInv /\ NoSleepOnVerdict
  BY DEF Init, OutcomeInv, AckInv, HeardInv, CloseInv, NoSleepOnVerdict, NoReply
<1>5. QED
  BY <1>2, <1>3, <1>4 DEF IInv

LEMMA StepKeepsIInv == IInv /\ [Next]_vars => IInv'
  BY StepKeepsTypes, StepKeepsAnswers, StepKeepsOutcome, StepKeepsAcks, StepKeepsHeard,
     StepKeepsClose, StepKeepsAwake DEF IInv

\* close() strands nobody that it finds registered, and told: who sleeps when
\* it is done is still registered, was never heard of, and waits for its ack.
THEOREM CloseStrandsNobody == Spec => []NobodyStranded
<1>1. IInv => NobodyStranded
  <2> SUFFICES ASSUME IInv, closer = "closed", NEW c \in asleep
               PROVE  c \in pending /\ At(c, "ack")
    BY DEF NobodyStranded
  <2>1. c \in Calls /\ place[c] \in {"ack", "reply"}
    BY DEF IInv, TypeOK, Waits
  <2>2. c \in pending
    BY <2>1 DEF IInv, HeardInv, Findable, CloseInv
  <2>3. c \notin acked
    BY <2>2 DEF IInv, CloseInv
  <2>4. QED
    BY <2>1, <2>2, <2>3 DEF IInv, AckInv, At
<1>2. QED
  BY <1>1, InitIInv, StepKeepsIInv, PTL DEF Spec

-----------------------------------------------------------------------------
(* The abstract specification.                                             *)

States == [c \in Calls |-> Status(c)]

\* What a call that returned its payload keeps.
ReturnedKept == \A c \in Calls : payload'[c] = payload[c] \/ outcome'[c] # "reply"

LEMMA StepKeepsReturned ==
  ASSUME TypeOK, OutcomeInv, [Next]_vars
  PROVE  ReturnedKept
<1>0. /\ place \in [Calls -> Places] /\ outcome \in [Calls -> Outcomes]
      /\ payload \in [Calls -> Calls \cup {NoCall}]
  BY TypeParts DEF CallTypes
<1> USE DEF ReturnedKept, flagVars
<1>1. ASSUME NEW c \in Calls, NEW how, Leave(c, how)
      PROVE  ReturnedKept
  BY <1>0, <1>1 DEF Leave
<1>2. ASSUME NEW c \in Calls,
             \/ Enter(c) \/ Refuse(c) \/ Register(c) \/ Publish(c) \/ PublishThrows(c)
             \/ Proceed(c) \/ Fail(c) \/ Sleep(c) \/ WakesUp(c) \/ Expire(c) \/ ReturnReply(c)
             \/ CloseFails(c) \/ OnRequest(c)
      PROVE  ReturnedKept
  BY <1>1, <1>2, ExpireCases
     DEF Enter, Refuse, Register, Publish, PublishThrows, Proceed, Fail, Sleep, WakesUp,
         ReturnReply, CloseFails, OnRequest, requesterVars
<1>3. CASE Route
  <2>1. place[hand.rid] # "done" /\ outcome' = outcome
    BY <1>3 DEF Route, At, callVars
  <2>2. ASSUME NEW c \in Calls, payload'[c] # payload[c]
        PROVE  c = hand.rid
    BY <1>0, <1>3, <2>2 DEF Route
  <2>3. QED
    BY <2>1, <2>2 DEF OutcomeInv
<1>4. QED
  BY <1>2, <1>3, NextCases
     DEF OnMessage, OnReply, RouteToNobody, Notify, CloseFlag, CloseUnsubscribe, CloseSwap,
         CloseNotifies, CloseDone, Enqueue, Receive, ReceiveExpires, ReceiveSleeps, Stop, Take,
         Ack, AckThrows, Answer, WorkerAt, ReqCloseFlag, ReqCloseNotify, ReqCloses,
         requesterVars, vars

\* A step that moves no call and answers nothing is nothing to RpcCall.
LEMMA StillImplements ==
  ASSUME IInv, UNCHANGED <<place, outcome, answered>>, ReturnedKept
  PROVE  UNCHANGED Abstract!vars
<1>1. \A c \in Calls : Status(c)' = Status(c)
  BY DEF Status, At, ReturnedKept
<1>2. States' = States /\ Sent' = Sent
  BY <1>1 DEF States, Sent
<1>3. QED
  BY <1>2 DEF Abstract!vars, States

\* A call moves as in RpcCall; its place among those that were sent is known
\* to the specification from its publish() on.
LEMMA MoveImplements ==
  ASSUME IInv, NEW c \in Calls, Moves(c), answered' = answered, ReturnedKept
  PROVE  [Abstract!Next]_(Abstract!vars)
<1>0. /\ place \in [Calls -> Places] /\ outcome \in [Calls -> Outcomes]
      /\ outcome[c] = "none" <=> place[c] # "done"
      /\ place[c] = "return" => c \in answered /\ payload[c] = c
  BY TypeParts DEF IInv, CallTypes, OutcomeInv, AnswerInv
<1>1. \A d \in Calls \ {c} : place'[d] = place[d] /\ outcome'[d] = outcome[d]
  BY <1>0 DEF Moves
<1>2. \A d \in Calls \ {c} : Status(d)' = Status(d) /\ (d \in Sent' <=> d \in Sent)
  BY <1>1 DEF Status, At, Sent, ReturnedKept
<1>3. States' = [States EXCEPT ![c] = Status(c)']
  BY <1>2 DEF States
<1>4. CASE Status(c)' = Status(c) /\ (c \in Sent' <=> c \in Sent)
  <2>1. States' = States /\ Sent' = Sent
    BY <1>2, <1>3, <1>4 DEF States, Sent
  <2>2. QED
    BY <2>1 DEF Abstract!vars, States
<1>5. CASE Status(c) = "active" /\ Status(c)' = "active" /\ c \notin Sent /\ c \in Sent'
  <2>1. States' = States /\ Sent' = Sent \cup {c}
    BY <1>2, <1>3, <1>5 DEF States, Sent
  <2>2. Abstract!Request(c)
    BY <1>5, <2>1 DEF Abstract!Request, States
  <2>3. QED
    BY <2>2 DEF Abstract!Next
<1>6. CASE /\ c \in Sent' <=> c \in Sent
           /\ \/ Status(c) = "idle" /\ Status(c)' \in {"active", "error"}
              \/ Status(c) = "active" /\ Status(c)' = "error"
              \/ Status(c) = "active" /\ Status(c)' = "answer" /\ c \in answered
  <2>1. Sent' = Sent
    BY <1>2, <1>6 DEF Sent
  <2>2. Abstract!Begin(c) \/ Abstract!Refuse(c) \/ Abstract!Fail(c) \/ Abstract!Return(c)
    BY <1>3, <1>6, <2>1
       DEF Abstract!Begin, Abstract!Refuse, Abstract!Fail, Abstract!Return, Abstract!Move, States
  <2>3. QED
    BY <2>2 DEF Abstract!Next
<1>7. CASE \E to \in {"register", "publish", "ack", "reply", "return"} :
             /\ place' = [place EXCEPT ![c] = to] /\ outcome' = outcome
             /\ <<place[c], to>> \in {<<"idle", "register">>, <<"register", "publish">>,
                  <<"publish", "ack">>, <<"ack", "reply">>, <<"reply", "return">>}
  <2>1. PICK to \in {"register", "publish", "ack", "reply", "return"} :
          /\ place'[c] = to /\ outcome'[c] = "none" /\ outcome[c] = "none"
          /\ <<place[c], to>> \in {<<"idle", "register">>, <<"register", "publish">>,
               <<"publish", "ack">>, <<"ack", "reply">>, <<"reply", "return">>}
    BY <1>0, <1>7
  <2>2. QED
    BY <1>4, <1>5, <1>6, <2>1 DEF Status, Sent, At
<1>8. CASE place' = [place EXCEPT ![c] = "done"] /\ outcome' # outcome
  <2>1. /\ place'[c] = "done" /\ outcome[c] = "none"
        /\ \/ place[c] \in {"idle", "publish"} /\ outcome'[c] = "unsent"
           \/ place[c] \in {"ack", "reply"} /\ outcome'[c] = "failed"
           \/ place[c] = "return" /\ outcome'[c] = "reply"
    BY <1>0, <1>8 DEF Moves
  <2>2. QED
    BY <1>0, <1>6, <2>1 DEF Status, Sent, At, ReturnedKept
<1>9. QED
  BY <1>0, <1>7, <1>8 DEF Moves

\* The first answer to a request is an answer in RpcCall, another one to the
\* same request nothing.
LEMMA AnswerImplements ==
  ASSUME IInv, Answer
  PROVE  [Abstract!Next]_(Abstract!vars)
<1>1. /\ UNCHANGED <<place, outcome, payload>> /\ answered' = answered \cup {item}
      /\ item \in Sent /\ item \in Calls
  BY DEF Answer, WorkerAt, requesterVars, callVars, flagVars, IInv, TypeOK, AnswerInv, Sent
<1>2. States' = States /\ Sent' = Sent
  BY <1>1 DEF States, Status, Sent, At
<1>3. CASE item \in answered
  BY <1>1, <1>2, <1>3 DEF Abstract!vars, States
<1>4. CASE item \notin answered
  <2>1. Abstract!Answer(item)
    BY <1>1, <1>2, <1>4 DEF Abstract!Answer, States
  <2>2. QED
    BY <1>1, <2>1 DEF Abstract!Next
<1>5. QED
  BY <1>3, <1>4

LEMMA StepImplements ==
  ASSUME IInv, [Next]_vars
  PROVE  [Abstract!Next]_(Abstract!vars)
<1>1. CASE Answer
  BY <1>1, AnswerImplements
<1>2. CASE ~Answer
  <2>1. answered' = answered /\ ReturnedKept
    BY <1>2, OnlyAnswerAnswers, StepKeepsReturned DEF IInv
  <2>2. QED
    BY <2>1, StepMoves, StillImplements, MoveImplements DEF IInv
<1>3. QED
  BY <1>1, <1>2

\* RPC over MQTT is the RPC that RpcRequester promises, however often the
\* broker loses or repeats a message: a request is made once, and a call that
\* returns a payload returns the responder's answer to its own request.
THEOREM MqttIsRpcCall == Spec => ImplementsRpcCall
<1>1. Init => Abstract!Init
  <2> SUFFICES ASSUME Init
               PROVE  Abstract!Init
    OBVIOUS
  <2>1. Sent = {} /\ answered = {} /\ \A c \in Calls : Status(c) = "idle"
    BY DEF Init, Sent, Status, At
  <2>2. QED
    BY <2>1 DEF Abstract!Init
<1>2. QED
  BY <1>1, InitIInv, StepKeepsIInv, StepImplements, PTL DEF Spec, ImplementsRpcCall, Abstract!Spec
==============================================================================
