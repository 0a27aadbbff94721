----------------------- MODULE ZmqRpcRequesterProofs -----------------------
(***************************************************************************)
(* Theorems about ZmqRpcRequester, for every number of calls, all timeouts *)
(* and every behaviour of the peer.                                        *)
(***************************************************************************)
EXTENDS ZmqRpcRequester, TLAPS

USE TimeoutAssumption, PeerAssumption, SendRoomAssumption,
    ContextAssumption, NamesAssumption

\* The steps of Next, one disjunct per action, as the proofs go through them.
LEMMA NextCases ==
  ASSUME Next
  PROVE  \/ \E c \in Calls :
              \/ CallEnter(c) \/ CallRefused(c) \/ CallCheck(c)
              \/ CallRegister(c) \/ CallSendTest(c) \/ CallSend(c) \/ CallSendThrows(c)
              \/ CallAcked(c) \/ CallFails(c) \/ CallWaitsForAck(c)
              \/ AckDeadline(c) \/ CallAckTimeout(c) \/ CallReplied(c)
              \/ CallWaitsForReply(c) \/ ReplyDeadline(c)
              \/ CallReplyTimeout(c) \/ CallReturn(c) \/ SpuriousWakeup(c)
              \/ PeerAck(c) \/ PeerAckLost(c) \/ PeerReply(c)
              \/ IoFailOne(c) \/ CloseFailOne(c)
         \/ IoPoll \/ IoPollFails \/ IoCtrlFails \/ IoReceiveFails
         \/ IoCloseSentinel \/ IoTake \/ IoForward \/ IoSendFails \/ IoReceive
         \/ IoAck \/ IoBadAck \/ IoPayload \/ IoInvalidReply
         \/ IoSwap \/ IoFailedAll
         \/ CloseFlag \/ CloseClosing \/ CloseSend \/ CloseSendFails
         \/ CloseSockets \/ CloseSwap \/ CloseContext
  BY DEF Next, CallStep, Deadline, IoStep, IoFault, CloseStep

-----------------------------------------------------------------------------
(* Types.                                                                  *)

\* Waking a thread moves it between places of transportCall().
LEMMA WokenType ==
  ASSUME NEW at \in [Calls -> CallerPlaces], NEW c \in Calls
  PROVE  Woken(c, at) \in [Calls -> CallerPlaces]
  BY DEF Woken, CallerPlaces

LEMMA NotifyType ==
  ASSUME call \in [Calls -> CallerPlaces], NEW c \in Calls,
         NotifyAck(c) \/ NotifyReply(c)
  PROVE  call' \in [Calls -> CallerPlaces]
  BY WokenType DEF NotifyAck, NotifyReply

\* What the I/O thread routes is a message, for some call.
LEMMA RoutedMessage ==
  ASSUME IoTypeOK, IoAck \/ IoBadAck \/ IoPayload \/ IoInvalidReply
  PROVE  hand.rid \in Calls /\ hand.answer \in Calls
<1>1. hand.kind # "none"
  BY DEF IoAck, IoBadAck, IoPayload, IoInvalidReply, Routed
<1>2. hand \in Message
  BY <1>1 DEF IoTypeOK, NoMessage
<1>3. QED
  BY <1>2 DEF Message

LEMMA StepKeepsCallerTypes == TypeOK /\ Next => CallerTypeOK'
<1> SUFFICES ASSUME TypeOK, Next
             PROVE  CallerTypeOK'
  OBVIOUS
<1>0. CallerTypeOK /\ IoTypeOK
  BY DEF TypeOK
<1> USE DEF CallerTypeOK, callerVars
<1>1. ASSUME NEW c \in Calls,
             \/ CallEnter(c) \/ CallCheck(c) \/ CallRegister(c)
             \/ CallSendTest(c) \/ CallSend(c)
             \/ CallAcked(c) \/ CallWaitsForAck(c) \/ AckDeadline(c)
             \/ CallReplied(c) \/ CallWaitsForReply(c) \/ ReplyDeadline(c)
      PROVE  CallerTypeOK'
  BY <1>0, <1>1 DEF CallEnter, CallCheck, CallRegister, CallSendTest, CallSend, CallAcked,
     CallWaitsForAck, AckDeadline, CallReplied, CallWaitsForReply,
     ReplyDeadline, Goto, CallerPlaces
<1>2. ASSUME NEW c \in Calls,
             \/ CallRefused(c) \/ CallSendThrows(c) \/ CallFails(c)
             \/ CallAckTimeout(c) \/ CallReplyTimeout(c) \/ CallReturn(c)
      PROVE  CallerTypeOK'
  BY <1>0, <1>2 DEF CallRefused, CallSendThrows, CallFails, CallAckTimeout,
     CallReplyTimeout, CallReturn, Leave, Goto, CallerPlaces
<1>3. ASSUME NEW c \in Calls,
             SpuriousWakeup(c) \/ IoFailOne(c) \/ CloseFailOne(c)
      PROVE  CallerTypeOK'
  BY <1>0, <1>3, WokenType DEF SpuriousWakeup, IoFailOne, CloseFailOne, FailOne
<1>4. CASE IoAck \/ IoBadAck \/ IoPayload \/ IoInvalidReply
  BY <1>0, <1>4, NotifyType, RoutedMessage DEF IoAck, IoBadAck, IoPayload,
     IoInvalidReply, Routed
<1>5. ASSUME NEW c \in Calls, PeerAck(c) \/ PeerAckLost(c) \/ PeerReply(c)
      PROVE  CallerTypeOK'
  BY <1>0, <1>5 DEF PeerAck, PeerAckLost, PeerReply, PeerSends
<1>6. CASE \/ IoPoll \/ IoPollFails \/ IoCtrlFails \/ IoReceiveFails
           \/ IoCloseSentinel \/ IoTake \/ IoForward \/ IoSendFails \/ IoReceive
           \/ IoSwap \/ IoFailedAll
  BY <1>0, <1>6 DEF IoPoll, IoPollFails, IoCtrlFails, IoReceiveFails,
     IoCloseSentinel, IoTake, IoForward, IoSendFails, IoReceive, IoSwap, IoFailedAll
<1>7. CASE \/ CloseFlag \/ CloseClosing \/ CloseSend \/ CloseSendFails
           \/ CloseSockets \/ CloseSwap \/ CloseContext
  BY <1>0, <1>7 DEF CloseFlag, CloseClosing, CloseSend, CloseSendFails,
     CloseSockets, CloseSwap, CloseContext
<1>8. QED
  BY <1>1, <1>2, <1>3, <1>4, <1>5, <1>6, <1>7, NextCases

LEMMA StepKeepsPendingTypes == TypeOK /\ Next => PendingTypeOK'
<1> SUFFICES ASSUME TypeOK, Next
             PROVE  PendingTypeOK'
  OBVIOUS
<1>0. PendingTypeOK /\ IoTypeOK
  BY DEF TypeOK
<1> USE DEF PendingTypeOK, pendingVars
<1>1. ASSUME NEW c \in Calls,
             \/ CallEnter(c) \/ CallCheck(c) \/ CallRegister(c)
             \/ CallSendTest(c) \/ CallSend(c)
             \/ CallAcked(c) \/ CallWaitsForAck(c) \/ AckDeadline(c)
             \/ CallReplied(c) \/ CallWaitsForReply(c) \/ ReplyDeadline(c)
             \/ SpuriousWakeup(c)
      PROVE  PendingTypeOK'
  BY <1>0, <1>1 DEF CallEnter, CallCheck, CallRegister, CallSendTest, CallSend, CallAcked,
     CallWaitsForAck, AckDeadline, CallReplied, CallWaitsForReply,
     ReplyDeadline, SpuriousWakeup
<1>2. ASSUME NEW c \in Calls,
             \/ CallRefused(c) \/ CallSendThrows(c) \/ CallFails(c)
             \/ CallAckTimeout(c) \/ CallReplyTimeout(c) \/ CallReturn(c)
      PROVE  PendingTypeOK'
  BY <1>0, <1>2 DEF CallRefused, CallSendThrows, CallFails, CallAckTimeout,
     CallReplyTimeout, CallReturn, Leave
<1>3. ASSUME NEW c \in Calls, IoFailOne(c) \/ CloseFailOne(c)
      PROVE  PendingTypeOK'
  BY <1>0, <1>3 DEF IoFailOne, CloseFailOne, FailOne
<1>4. CASE IoAck \/ IoBadAck \/ IoPayload \/ IoInvalidReply
  <2>1. hand.rid \in Calls /\ hand.answer \in Calls
    BY <1>0, <1>4, RoutedMessage
  <2>2. CASE IoAck
    BY <1>0, <2>1, <2>2 DEF IoAck, Routed
  <2>3. CASE IoBadAck \/ IoInvalidReply
    BY <1>0, <2>1, <2>3 DEF IoBadAck, IoInvalidReply, Routed
  <2>4. CASE IoPayload
    BY <1>0, <2>1, <2>4 DEF IoPayload, Routed
  <2>5. QED
    BY <1>4, <2>2, <2>3, <2>4
<1>5. ASSUME NEW c \in Calls, PeerAck(c) \/ PeerAckLost(c) \/ PeerReply(c)
      PROVE  PendingTypeOK'
  BY <1>0, <1>5 DEF PeerAck, PeerAckLost, PeerReply, PeerSends
<1>6. CASE \/ IoPoll \/ IoPollFails \/ IoCtrlFails \/ IoReceiveFails
           \/ IoCloseSentinel \/ IoTake \/ IoForward \/ IoSendFails \/ IoReceive
           \/ IoSwap \/ IoFailedAll
  BY <1>0, <1>6 DEF IoPoll, IoPollFails, IoCtrlFails, IoReceiveFails,
     IoCloseSentinel, IoTake, IoForward, IoSendFails, IoReceive, IoSwap, IoFailedAll
<1>7. CASE \/ CloseFlag \/ CloseClosing \/ CloseSend \/ CloseSendFails
           \/ CloseSockets \/ CloseSwap \/ CloseContext
  BY <1>0, <1>7 DEF CloseFlag, CloseClosing, CloseSend, CloseSendFails,
     CloseSockets, CloseSwap, CloseContext
<1>8. QED
  BY <1>1, <1>2, <1>3, <1>4, <1>5, <1>6, <1>7, NextCases

LEMMA AppendType ==
  ASSUME NEW S, NEW s \in Seq(S), NEW e \in S
  PROVE  Append(s, e) \in Seq(S) /\ Append(s, e) # <<>>
<1>1. Len(Append(s, e)) = Len(s) + 1 /\ Len(s) \in Nat
  OBVIOUS
<1>2. Len(Append(s, e)) # 0
  BY <1>1
<1>3. Append(s, e) \in Seq(S)
  OBVIOUS
<1>4. QED
  BY <1>2, <1>3

\* The channels: what the I/O thread reads, and what the peer writes.
ChannelInv == IoTypeOK /\ PeerTypeOK /\ ReadyOK

LEMMA StepKeepsChannels == TypeOK /\ Next => ChannelInv'
<1> SUFFICES ASSUME TypeOK, Next
             PROVE  ChannelInv'
  OBVIOUS
<1>0. ChannelInv /\ PendingTypeOK /\ CloseTypeOK
  BY DEF TypeOK, ChannelInv
<1> USE DEF ChannelInv, ReadyOK, IoTypeOK, PeerTypeOK, ioVars, peerVars, IoPlaces
<1>1. ASSUME NEW c \in Calls,
             \/ CallEnter(c) \/ CallCheck(c) \/ CallRegister(c) \/ CallSendTest(c)
             \/ CallAcked(c) \/ CallWaitsForAck(c) \/ AckDeadline(c)
             \/ CallReplied(c) \/ CallWaitsForReply(c) \/ ReplyDeadline(c)
             \/ SpuriousWakeup(c)
      PROVE  ChannelInv'
  BY <1>0, <1>1 DEF CallEnter, CallCheck, CallRegister, CallSendTest, CallAcked,
     CallWaitsForAck, AckDeadline, CallReplied, CallWaitsForReply,
     ReplyDeadline, SpuriousWakeup
<1>2. ASSUME NEW c \in Calls,
             \/ CallRefused(c) \/ CallSendThrows(c) \/ CallFails(c)
             \/ CallAckTimeout(c) \/ CallReplyTimeout(c) \/ CallReturn(c)
      PROVE  ChannelInv'
  BY <1>0, <1>2 DEF CallRefused, CallSendThrows, CallFails, CallAckTimeout,
     CallReplyTimeout, CallReturn, Leave
<1>3. ASSUME NEW c \in Calls, CallSend(c)
      PROVE  ChannelInv'
  BY <1>0, <1>3 DEF CallSend
<1>4. ASSUME NEW c \in Calls, IoFailOne(c) \/ CloseFailOne(c)
      PROVE  ChannelInv'
  BY <1>0, <1>4 DEF IoFailOne, CloseFailOne, FailOne
<1>5. CASE IoAck \/ IoBadAck \/ IoPayload \/ IoInvalidReply
  BY <1>0, <1>5 DEF IoAck, IoBadAck, IoPayload, IoInvalidReply, Routed, IoAt
<1>6. ASSUME NEW c \in Calls, PeerAck(c) \/ PeerAckLost(c) \/ PeerReply(c)
      PROVE  ChannelInv'
  <2>1. ASSUME NEW kind \in AckKinds \cup ReplyKinds, NEW from,
               NEW to \in {"acked", "answered", "garbled"},
               PeerSends(c, from, to, kind)
        PROVE  ChannelInv'
    <3> DEFINE m == [rid |-> c, kind |-> kind, answer |-> c]
    <3>1. m \in Message
      BY DEF Message
    <3>2. inbox' = Append(inbox, m)
      BY <2>1 DEF PeerSends
    <3>3. inbox' \in Seq(Message) /\ inbox' # <<>>
      BY <1>0, <3>1, <3>2, AppendType
    <3>4. QED
      BY <1>0, <2>1, <3>3 DEF PeerSends
  <2>2. CASE PeerAckLost(c)
    BY <1>0, <2>2 DEF PeerAckLost
  <2>3. QED
    BY <1>6, <2>1, <2>2 DEF PeerAck, PeerReply
<1>7. CASE IoPoll \/ IoPollFails \/ IoSwap \/ IoFailedAll
  BY <1>0, <1>7 DEF IoPoll, IoPollFails, IoSwap, IoFailedAll, IoAt,
     PendingTypeOK
<1>8. CASE IoCtrlFails \/ IoReceiveFails
  BY <1>0, <1>8 DEF IoCtrlFails, IoReceiveFails, IoAt
<1>9. CASE IoCloseSentinel \/ IoTake \/ IoForward \/ IoSendFails
  BY <1>0, <1>9 DEF IoCloseSentinel, IoTake, IoForward, IoSendFails, IoAt
<1>10. CASE IoReceive
  <2>1. inbox # <<>> /\ Head(inbox) \in Message /\ Tail(inbox) \in Seq(Message)
    BY <1>0, <1>10 DEF IoReceive, IoAt
  <2>2. QED
    BY <1>0, <1>10, <2>1 DEF IoReceive, IoAt
<1>11. CASE CloseSend
  BY <1>0, <1>11 DEF CloseSend
<1>12. CASE \/ CloseFlag \/ CloseClosing \/ CloseSendFails
            \/ CloseSockets \/ CloseSwap \/ CloseContext
  BY <1>0, <1>12 DEF CloseFlag, CloseClosing, CloseSendFails,
     CloseSockets, CloseSwap, CloseContext
<1>13. QED
  BY <1>1, <1>2, <1>3, <1>4, <1>5, <1>6, <1>7, <1>8, <1>9, <1>10, <1>11,
     <1>12, NextCases

LEMMA StepKeepsCloseTypes == TypeOK /\ Next => CloseTypeOK'
<1> SUFFICES ASSUME TypeOK, Next
             PROVE  CloseTypeOK'
  OBVIOUS
<1>0. CloseTypeOK /\ PendingTypeOK
  BY DEF TypeOK
<1> USE DEF CloseTypeOK, closeVars
<1>1. ASSUME NEW c \in Calls,
             \/ CallEnter(c) \/ CallCheck(c) \/ CallRegister(c)
             \/ CallSendTest(c) \/ CallSend(c)
             \/ CallAcked(c) \/ CallWaitsForAck(c) \/ AckDeadline(c)
             \/ CallReplied(c) \/ CallWaitsForReply(c) \/ ReplyDeadline(c)
             \/ SpuriousWakeup(c)
      PROVE  CloseTypeOK'
  BY <1>0, <1>1 DEF CallEnter, CallCheck, CallRegister, CallSendTest, CallSend, CallAcked,
     CallWaitsForAck, AckDeadline, CallReplied, CallWaitsForReply,
     ReplyDeadline, SpuriousWakeup
<1>2. ASSUME NEW c \in Calls,
             \/ CallRefused(c) \/ CallSendThrows(c) \/ CallFails(c)
             \/ CallAckTimeout(c) \/ CallReplyTimeout(c) \/ CallReturn(c)
             \/ IoFailOne(c) \/ CloseFailOne(c)
             \/ PeerAck(c) \/ PeerAckLost(c) \/ PeerReply(c)
      PROVE  CloseTypeOK'
  BY <1>0, <1>2 DEF CallRefused, CallSendThrows, CallFails, CallAckTimeout,
     CallReplyTimeout, CallReturn, Leave, IoFailOne, CloseFailOne, FailOne,
     PeerAck, PeerAckLost, PeerReply, PeerSends
<1>3. CASE IoAck \/ IoBadAck \/ IoPayload \/ IoInvalidReply
  BY <1>0, <1>3 DEF IoAck, IoBadAck, IoPayload, IoInvalidReply, Routed
<1>4. CASE \/ IoPoll \/ IoPollFails \/ IoCtrlFails \/ IoReceiveFails
           \/ IoCloseSentinel \/ IoTake \/ IoForward \/ IoSendFails \/ IoReceive
           \/ IoSwap \/ IoFailedAll
  BY <1>0, <1>4 DEF IoPoll, IoPollFails, IoCtrlFails, IoReceiveFails,
     IoCloseSentinel, IoTake, IoForward, IoSendFails, IoReceive, IoSwap, IoFailedAll
<1>5. CASE \/ CloseFlag \/ CloseClosing \/ CloseSend \/ CloseSendFails
           \/ CloseSockets \/ CloseSwap \/ CloseContext
  BY <1>0, <1>5 DEF CloseFlag, CloseClosing, CloseSend, CloseSendFails,
     CloseSockets, CloseSwap, CloseContext, CloserAt, PendingTypeOK
<1>6. QED
  BY <1>1, <1>2, <1>3, <1>4, <1>5, NextCases

LEMMA StepKeepsTypeOK == TypeOK /\ [Next]_vars => TypeOK'
<1>1. ASSUME TypeOK, UNCHANGED vars
      PROVE  TypeOK'
  BY <1>1 DEF TypeOK, CallerTypeOK, PendingTypeOK, IoTypeOK,
     CloseTypeOK, PeerTypeOK, ReadyOK, vars, callerVars, pendingVars, ioVars,
     closeVars, peerVars
<1>2. ASSUME TypeOK, Next
      PROVE  TypeOK'
  BY <1>2, StepKeepsCallerTypes, StepKeepsPendingTypes, StepKeepsChannels,
     StepKeepsCloseTypes DEF TypeOK, ChannelInv
<1>3. QED
  BY <1>1, <1>2

LEMMA InitTypeOK == Init => TypeOK
<1> SUFFICES ASSUME Init
             PROVE  TypeOK
  OBVIOUS
<1>1. call \in [Calls -> {"idle"}] /\ outcome \in [Calls -> {"none"}]
      /\ peer \in [Calls -> {"none"}] /\ payload \in [Calls -> {NoCall}]
  BY DEF Init
<1>2. acked \in [Calls -> BOOLEAN] /\ replied \in [Calls -> BOOLEAN]
      /\ failed \in [Calls -> BOOLEAN]
  BY DEF Init
<1>3. inbox \in Seq(Message)
  BY DEF Init
<1>4. QED
  BY <1>1, <1>2, <1>3 DEF Init, TypeOK, CallerTypeOK, PendingTypeOK,
     IoTypeOK, CloseTypeOK, PeerTypeOK, ReadyOK, CallerPlaces, IoPlaces

\* Every variable keeps its type.
THEOREM TypeCorrect == Spec => []TypeOK
BY InitTypeOK, StepKeepsTypeOK, PTL DEF Spec

-----------------------------------------------------------------------------
(* What a step does to the places of the calls, to the peer and to the     *)
(* control channel; the invariants below are preserved because of these.   *)

Early == {"idle", "entered", "register", "send", "connect"}

Acknowledged == {"acked", "answered", "garbled"}

\* A request that is on the control channel or taken from it was put there
\* by a call past its send, is in one place only and has not been forwarded.
RequestInv ==
  /\ \A c \in Calls :
       c \in ctrl \/ c = outgoing => peer[c] = "none" /\ call[c] \notin Early
  /\ outgoing \notin ctrl
  /\ \A c \in Calls : peer[c] # "none" => call[c] \notin Early

LEMMA CallMoves ==
  ASSUME TypeOK, Next, NEW c \in Calls, call[c] \notin Early
  PROVE  call'[c] \notin Early
<1>0. CallerTypeOK /\ IoTypeOK
  BY DEF TypeOK
<1> USE DEF CallerTypeOK, callerVars, Early
<1>1. ASSUME NEW d \in Calls,
             \/ CallEnter(d) \/ CallCheck(d) \/ CallRegister(d)
             \/ CallSendTest(d) \/ CallSend(d)
             \/ CallAcked(d) \/ CallWaitsForAck(d) \/ AckDeadline(d)
             \/ CallReplied(d) \/ CallWaitsForReply(d) \/ ReplyDeadline(d)
      PROVE  call'[c] \notin Early
  BY <1>0, <1>1 DEF CallEnter, CallCheck, CallRegister, CallSendTest, CallSend, CallAcked,
     CallWaitsForAck, AckDeadline, CallReplied, CallWaitsForReply,
     ReplyDeadline, Goto
<1>2. ASSUME NEW d \in Calls,
             \/ CallRefused(d) \/ CallSendThrows(d) \/ CallFails(d)
             \/ CallAckTimeout(d) \/ CallReplyTimeout(d) \/ CallReturn(d)
      PROVE  call'[c] \notin Early
  BY <1>0, <1>2 DEF CallRefused, CallSendThrows, CallFails, CallAckTimeout,
     CallReplyTimeout, CallReturn, Leave, Goto
<1>3. ASSUME NEW d \in Calls,
             SpuriousWakeup(d) \/ IoFailOne(d) \/ CloseFailOne(d)
      PROVE  call'[c] \notin Early
  BY <1>0, <1>3 DEF SpuriousWakeup, IoFailOne, CloseFailOne, FailOne, Woken
<1>4. CASE IoAck \/ IoBadAck \/ IoPayload \/ IoInvalidReply
  BY <1>0, <1>4, RoutedMessage DEF IoAck, IoBadAck, IoPayload,
     IoInvalidReply, NotifyAck, NotifyReply, Woken
<1>5. ASSUME NEW d \in Calls, PeerAck(d) \/ PeerAckLost(d) \/ PeerReply(d)
      PROVE  call'[c] \notin Early
  BY <1>5 DEF PeerAck, PeerAckLost, PeerReply, PeerSends
<1>6. CASE \/ IoPoll \/ IoPollFails \/ IoCtrlFails \/ IoReceiveFails
           \/ IoCloseSentinel \/ IoTake \/ IoForward \/ IoSendFails \/ IoReceive
           \/ IoSwap \/ IoFailedAll
  BY <1>6 DEF IoPoll, IoPollFails, IoCtrlFails, IoReceiveFails,
     IoCloseSentinel, IoTake, IoForward, IoSendFails, IoReceive, IoSwap, IoFailedAll
<1>7. CASE \/ CloseFlag \/ CloseClosing \/ CloseSend \/ CloseSendFails
           \/ CloseSockets \/ CloseSwap \/ CloseContext
  BY <1>7 DEF CloseFlag, CloseClosing, CloseSend, CloseSendFails,
     CloseSockets, CloseSwap, CloseContext
<1>8. QED
  BY <1>1, <1>2, <1>3, <1>4, <1>5, <1>6, <1>7, NextCases

\* The request the I/O thread hands to the DEALER.
LEMMA ForwardedRequest ==
  ASSUME TypeOK, RequestInv, IoForward
  PROVE  /\ outgoing \in Calls
         /\ peer[outgoing] = "none"
         /\ call[outgoing] \notin Early
BY DEF TypeOK, ReadyOK, IoForward, IoAt, RequestInv

\* A request goes to the peer once; the peer acknowledges it, then answers.
LEMMA PeerMoves ==
  ASSUME TypeOK, RequestInv, Next, NEW c \in Calls
  PROVE  \/ peer'[c] = peer[c]
         \/ /\ IoForward /\ c = outgoing
            /\ peer[c] = "none" /\ peer'[c] = "requested"
         \/ peer[c] = "requested" /\ peer'[c] = "acked"
         \/ peer[c] = "acked" /\ peer'[c] \in {"answered", "garbled"}
<1>0. PeerTypeOK
  BY DEF TypeOK
<1> USE DEF PeerTypeOK, peerVars
<1>1. ASSUME NEW d \in Calls,
             \/ CallEnter(d) \/ CallCheck(d) \/ CallRegister(d)
             \/ CallSendTest(d) \/ CallSend(d)
             \/ CallAcked(d) \/ CallWaitsForAck(d) \/ AckDeadline(d)
             \/ CallReplied(d) \/ CallWaitsForReply(d) \/ ReplyDeadline(d)
             \/ SpuriousWakeup(d)
      PROVE  peer' = peer
  BY <1>1 DEF CallEnter, CallCheck, CallRegister, CallSendTest, CallSend, CallAcked,
     CallWaitsForAck, AckDeadline, CallReplied, CallWaitsForReply,
     ReplyDeadline, SpuriousWakeup
<1>2. ASSUME NEW d \in Calls,
             \/ CallRefused(d) \/ CallSendThrows(d) \/ CallFails(d)
             \/ CallAckTimeout(d) \/ CallReplyTimeout(d) \/ CallReturn(d)
             \/ IoFailOne(d) \/ CloseFailOne(d)
      PROVE  peer' = peer
  BY <1>2 DEF CallRefused, CallSendThrows, CallFails, CallAckTimeout,
     CallReplyTimeout, CallReturn, Leave, IoFailOne, CloseFailOne, FailOne
<1>3. ASSUME NEW d \in Calls, PeerAck(d) \/ PeerAckLost(d) \/ PeerReply(d)
      PROVE  \/ peer'[c] = peer[c]
             \/ peer[c] = "requested" /\ peer'[c] = "acked"
             \/ peer[c] = "acked" /\ peer'[c] \in {"answered", "garbled"}
  BY <1>0, <1>3 DEF PeerAck, PeerAckLost, PeerReply, PeerSends
<1>4. CASE IoForward
  BY <1>0, <1>4, ForwardedRequest DEF IoForward
<1>5. CASE \/ IoPoll \/ IoPollFails \/ IoCtrlFails \/ IoReceiveFails
           \/ IoCloseSentinel \/ IoTake \/ IoSendFails \/ IoReceive
           \/ IoAck \/ IoBadAck \/ IoPayload \/ IoInvalidReply
           \/ IoSwap \/ IoFailedAll
  BY <1>5 DEF IoPoll, IoPollFails, IoCtrlFails, IoReceiveFails,
     IoCloseSentinel, IoTake, IoSendFails, IoReceive, IoAck, IoBadAck, IoPayload,
     IoInvalidReply, Routed, IoSwap, IoFailedAll
<1>6. CASE \/ CloseFlag \/ CloseClosing \/ CloseSend \/ CloseSendFails
           \/ CloseSockets \/ CloseSwap \/ CloseContext
  BY <1>6 DEF CloseFlag, CloseClosing, CloseSend, CloseSendFails,
     CloseSockets, CloseSwap, CloseContext
<1>7. QED
  BY <1>1, <1>2, <1>3, <1>4, <1>5, <1>6, NextCases

\* Who writes and reads the control channel.
LEMMA CtrlMoves ==
  ASSUME TypeOK, Next
  PROVE  \/ ctrl' \ {CloseSentinel} = ctrl \ {CloseSentinel}
            /\ outgoing' = outgoing /\ ~IoForward
         \/ \E c \in Calls : CallSend(c)
         \/ IoTake
         \/ (IoForward \/ IoSendFails) /\ ctrl' = ctrl /\ outgoing' = NoCall
<1> USE DEF ioVars
<1>1. ASSUME NEW d \in Calls,
             \/ CallEnter(d) \/ CallCheck(d) \/ CallRegister(d) \/ CallSendTest(d)
             \/ CallAcked(d) \/ CallWaitsForAck(d) \/ AckDeadline(d)
             \/ CallReplied(d) \/ CallWaitsForReply(d) \/ ReplyDeadline(d)
             \/ SpuriousWakeup(d)
      PROVE  ctrl' = ctrl /\ outgoing' = outgoing /\ io' = io
  BY <1>1 DEF CallEnter, CallCheck, CallRegister, CallSendTest, CallAcked,
     CallWaitsForAck, AckDeadline, CallReplied, CallWaitsForReply,
     ReplyDeadline, SpuriousWakeup
<1>2. ASSUME NEW d \in Calls,
             \/ CallRefused(d) \/ CallSendThrows(d) \/ CallFails(d)
             \/ CallAckTimeout(d) \/ CallReplyTimeout(d) \/ CallReturn(d)
             \/ IoFailOne(d) \/ CloseFailOne(d)
             \/ PeerAck(d) \/ PeerAckLost(d) \/ PeerReply(d)
      PROVE  ctrl' = ctrl /\ outgoing' = outgoing /\ io' = io
  BY <1>2 DEF CallRefused, CallSendThrows, CallFails, CallAckTimeout,
     CallReplyTimeout, CallReturn, Leave, IoFailOne, CloseFailOne, FailOne,
     PeerAck, PeerAckLost, PeerReply, PeerSends
<1>3. CASE IoForward \/ IoSendFails
  BY <1>3 DEF IoForward, IoSendFails
<1>4. CASE \/ IoPoll \/ IoPollFails \/ IoCtrlFails \/ IoReceiveFails
           \/ IoReceive \/ IoAck \/ IoBadAck \/ IoPayload \/ IoInvalidReply
           \/ IoSwap \/ IoFailedAll
  <2>1. ctrl' = ctrl /\ outgoing' = outgoing
    BY <1>4 DEF IoPoll, IoPollFails, IoCtrlFails, IoReceiveFails, IoReceive,
       IoAck, IoBadAck, IoPayload, IoInvalidReply, Routed, IoSwap, IoFailedAll
  <2>2. io # "forward"
    BY <1>4 DEF IoPoll, IoPollFails, IoCtrlFails, IoReceiveFails, IoReceive,
       IoAck, IoBadAck, IoPayload, IoInvalidReply, Routed, IoSwap,
       IoFailedAll, IoAt
  <2>3. QED
    BY <2>1, <2>2 DEF IoForward, IoAt
<1>5. CASE \/ CloseFlag \/ CloseClosing \/ CloseSendFails
           \/ CloseSockets \/ CloseSwap \/ CloseContext
  <2>1. ctrl' = ctrl /\ outgoing' = outgoing /\ io' = io
    BY <1>5 DEF CloseFlag, CloseClosing, CloseSendFails, CloseSockets,
       CloseSwap, CloseContext
  <2>2. QED
    BY <2>1 DEF IoForward, IoAt
<1>6. CASE CloseSend
  <2>1. ctrl' = ctrl \cup {CloseSentinel} /\ outgoing' = outgoing /\ io' = io
    BY <1>6 DEF CloseSend
  <2>2. QED
    BY <2>1 DEF IoForward, IoAt
<1>7. CASE IoCloseSentinel
  BY <1>7 DEF IoCloseSentinel, IoForward, IoAt
<1>8. CASE IoTake
  BY <1>8
<1>9. ASSUME ctrl' = ctrl, outgoing' = outgoing, io' = io
      PROVE  ~IoForward
  BY <1>9 DEF IoForward, IoAt
<1>10. QED
  BY <1>1, <1>2, <1>3, <1>4, <1>5, <1>6, <1>7, <1>8, <1>9, NextCases

LEMMA StepKeepsRequest ==
  ASSUME TypeOK, RequestInv, Next
  PROVE  RequestInv'
<1>1. \A c \in Calls : peer'[c] # "none" => call'[c] \notin Early
  <2> SUFFICES ASSUME NEW c \in Calls, peer'[c] # "none"
               PROVE  call'[c] \notin Early
    OBVIOUS
  <2>1. call[c] \notin Early
    BY PeerMoves, ForwardedRequest DEF RequestInv
  <2>2. QED
    BY <2>1, CallMoves
<1> DEFINE Sent(c) == peer[c] = "none" /\ call[c] \notin Early
           Sent2(c) == peer'[c] = "none" /\ call'[c] \notin Early
<1>2. ASSUME NEW c \in Calls, Sent(c), ~IoForward \/ c # outgoing
      PROVE  Sent2(c)
  BY <1>2, PeerMoves, CallMoves
<1>3. \A c \in Calls : c \in ctrl \/ c = outgoing => Sent(c)
  BY DEF RequestInv
<1>4. SUFFICES /\ \A c \in Calls : c \in ctrl' \/ c = outgoing' => Sent2(c)
               /\ outgoing' \notin ctrl'
  BY <1>1 DEF RequestInv
<1>5. outgoing \in Calls \cup {NoCall} /\ outgoing \notin ctrl
      /\ ctrl \subseteq Calls \cup {CloseSentinel} /\ NoCall \notin ctrl
  BY DEF TypeOK, IoTypeOK, RequestInv
<1>6. CASE ctrl' \ {CloseSentinel} = ctrl \ {CloseSentinel}
           /\ outgoing' = outgoing /\ ~IoForward
  <2>1. \A c \in Calls : c \in ctrl' <=> c \in ctrl
    BY <1>6
  <2>2. NoCall \notin ctrl'
    BY <1>5, <1>6
  <2> HIDE DEF Sent, Sent2
  <2>3. QED
    BY <1>2, <1>3, <1>5, <1>6, <2>1, <2>2
<1>7. ASSUME NEW c \in Calls, CallSend(c)
      PROVE  /\ \A d \in Calls : d \in ctrl' \/ d = outgoing' => Sent2(d)
             /\ outgoing' \notin ctrl'
  <2>1. /\ ctrl' = ctrl \cup {c} /\ outgoing' = outgoing /\ peer' = peer
        /\ call[c] = "connect" /\ call'[c] = "ackTest"
    BY <1>7 DEF CallSend, Goto, peerVars, TypeOK, CallerTypeOK
  <2>2. peer[c] = "none" /\ c # outgoing
    BY <2>1 DEF RequestInv, Early
  <2>3. Sent2(c)
    BY <2>1, <2>2 DEF Early
  <2>4. \A d \in Calls : Sent(d) => Sent2(d)
    BY <2>1, CallMoves
  <2>5. QED
    BY <1>3, <1>5, <2>1, <2>2, <2>3, <2>4
<1>8. CASE IoTake
  <2>1. PICK c \in ctrl \ {CloseSentinel} : outgoing' = c /\ ctrl' = ctrl \ {c}
    BY <1>8 DEF IoTake
  <2>2. ~IoForward
    BY <1>8 DEF IoTake, IoForward, IoAt
  <2>3. QED
    BY <1>2, <1>3, <1>5, <2>1, <2>2
<1>9. CASE (IoForward \/ IoSendFails) /\ ctrl' = ctrl /\ outgoing' = NoCall
  BY <1>2, <1>3, <1>5, <1>9
<1>10. QED
  BY <1>6, <1>7, <1>8, <1>9, CtrlMoves

-----------------------------------------------------------------------------
(* From messages to verdicts.                                              *)

\* A message is the peer's, about the request whose id it carries.
Genuine(m) ==
  /\ m.answer = m.rid
  /\ peer[m.rid] \in Acknowledged
  /\ m.kind = "payload" => peer[m.rid] = "answered"

MessageInv ==
  /\ \A i \in 1..Len(inbox) : Genuine(inbox[i])
  /\ hand # NoMessage => Genuine(hand)

VerdictInv ==
  \A c \in Calls :
    /\ acked[c] => peer[c] \in Acknowledged
    /\ replied[c] => payload[c] = c /\ peer[c] = "answered"

\* How far a call has come tells what it was told.
ProgressInv ==
  \A c \in Calls :
    /\ \/ call[c] \in {"replyTest", "replyWait", "replyExpired", "return"}
       \/ outcome[c] \in {"reply", "replyTimeout"}
       => acked[c]
    /\ call[c] = "return" \/ outcome[c] = "reply" => replied[c]
    /\ call[c] = "done" <=> outcome[c] # "none"

\* Who writes and reads the inbox, and the message in hand.
LEMMA InboxMoves ==
  ASSUME TypeOK, Next
  PROVE  \/ inbox' = inbox /\ (hand' = hand \/ hand' = NoMessage)
         \/ \E c \in Calls : PeerAck(c) \/ PeerReply(c)
         \/ /\ inbox # <<>>
            /\ inbox' = Tail(inbox)
            /\ hand' = NoMessage \/ hand' = Head(inbox)
<1> USE DEF ioVars, peerVars
<1>1. ASSUME NEW d \in Calls,
             \/ CallEnter(d) \/ CallCheck(d) \/ CallRegister(d)
             \/ CallSendTest(d) \/ CallSend(d)
             \/ CallAcked(d) \/ CallWaitsForAck(d) \/ AckDeadline(d)
             \/ CallReplied(d) \/ CallWaitsForReply(d) \/ ReplyDeadline(d)
             \/ SpuriousWakeup(d) \/ PeerAckLost(d)
      PROVE  inbox' = inbox /\ hand' = hand
  BY <1>1 DEF CallEnter, CallCheck, CallRegister, CallSendTest, CallSend, CallAcked,
     CallWaitsForAck, AckDeadline, CallReplied, CallWaitsForReply,
     ReplyDeadline, SpuriousWakeup, PeerAckLost
<1>2. ASSUME NEW d \in Calls,
             \/ CallRefused(d) \/ CallSendThrows(d) \/ CallFails(d)
             \/ CallAckTimeout(d) \/ CallReplyTimeout(d) \/ CallReturn(d)
             \/ IoFailOne(d) \/ CloseFailOne(d)
      PROVE  inbox' = inbox /\ hand' = hand
  BY <1>2 DEF CallRefused, CallSendThrows, CallFails, CallAckTimeout,
     CallReplyTimeout, CallReturn, Leave, IoFailOne, CloseFailOne, FailOne
<1>3. CASE IoReceive
  BY <1>3 DEF IoReceive, TypeOK, ReadyOK, IoAt
<1>4. CASE \/ IoPoll \/ IoPollFails \/ IoCtrlFails \/ IoReceiveFails
           \/ IoCloseSentinel \/ IoTake \/ IoForward \/ IoSendFails
           \/ IoAck \/ IoBadAck \/ IoPayload \/ IoInvalidReply
           \/ IoSwap \/ IoFailedAll
  BY <1>4 DEF IoPoll, IoPollFails, IoCtrlFails, IoReceiveFails,
     IoCloseSentinel, IoTake, IoForward, IoSendFails, IoAck, IoBadAck, IoPayload,
     IoInvalidReply, Routed, IoSwap, IoFailedAll
<1>5. CASE \/ CloseFlag \/ CloseClosing \/ CloseSend \/ CloseSendFails
           \/ CloseSockets \/ CloseSwap \/ CloseContext
  BY <1>5 DEF CloseFlag, CloseClosing, CloseSend, CloseSendFails,
     CloseSockets, CloseSwap, CloseContext
<1>6. QED
  BY <1>1, <1>2, <1>3, <1>4, <1>5, NextCases

LEMMA StepKeepsMessages ==
  ASSUME TypeOK, RequestInv, MessageInv, Next
  PROVE  MessageInv'
<1>0. /\ inbox \in Seq(Message) /\ Len(inbox) \in Nat
      /\ \A i \in 1..Len(inbox) : inbox[i] \in Message
      /\ hand \in Message \cup {NoMessage}
  BY DEF TypeOK, IoTypeOK, PeerTypeOK
<1> DEFINE StillGenuine(m) ==
             /\ m.answer = m.rid
             /\ peer'[m.rid] \in Acknowledged
             /\ m.kind = "payload" => peer'[m.rid] = "answered"
<1>1. ASSUME NEW m \in Message, Genuine(m)
      PROVE  StillGenuine(m)
  <2>1. m.rid \in Calls
    BY DEF Message
  <2>2. QED
    BY <1>1, <2>1, PeerMoves DEF Genuine, Acknowledged
<1>2. \A i \in 1..Len(inbox) : StillGenuine(inbox[i])
  BY <1>0, <1>1 DEF MessageInv
<1>3. hand # NoMessage => StillGenuine(hand)
  BY <1>0, <1>1 DEF MessageInv
<1> SUFFICES /\ \A i \in 1..Len(inbox') : StillGenuine(inbox'[i])
             /\ hand' # NoMessage => StillGenuine(hand')
  BY DEF MessageInv, Genuine
<1> HIDE DEF StillGenuine
<1>4. CASE inbox' = inbox /\ (hand' = hand \/ hand' = NoMessage)
  BY <1>2, <1>3, <1>4
<1>5. CASE /\ inbox # <<>>
           /\ inbox' = Tail(inbox)
           /\ hand' = NoMessage \/ hand' = Head(inbox)
  <2>1. /\ Head(inbox) = inbox[1] /\ 1 \in 1..Len(inbox)
        /\ \A i \in 1..Len(inbox') : /\ i + 1 \in 1..Len(inbox)
                                     /\ inbox'[i] = inbox[i + 1]
    BY <1>0, <1>5
  <2>2. QED
    BY <1>2, <1>5, <2>1
<1>6. ASSUME NEW c \in Calls, PeerAck(c) \/ PeerReply(c)
      PROVE  /\ \A i \in 1..Len(inbox') : StillGenuine(inbox'[i])
             /\ hand' # NoMessage => StillGenuine(hand')
  <2>0. ASSUME NEW kind, NEW from, NEW to \in Acknowledged,
               PeerSends(c, from, to, kind),
               kind = "payload" => to = "answered"
        PROVE  \E m : inbox' = Append(inbox, m) /\ StillGenuine(m)
    <3> DEFINE m == [rid |-> c, kind |-> kind, answer |-> c]
    <3>1. peer'[c] = to
      BY <2>0 DEF PeerSends, TypeOK, PeerTypeOK
    <3>2. StillGenuine(m)
      BY <2>0, <3>1 DEF StillGenuine
    <3>3. inbox' = Append(inbox, m)
      BY <2>0 DEF PeerSends
    <3>4. QED
      BY <3>2, <3>3
  <2>1. PICK m : inbox' = Append(inbox, m) /\ StillGenuine(m)
    BY <1>6, <2>0 DEF PeerAck, PeerReply, Acknowledged
  <2>2. \A i \in 1..Len(inbox') : \/ i \in 1..Len(inbox) /\ inbox'[i] = inbox[i]
                                  \/ inbox'[i] = m
    BY <1>0, <2>1
  <2>3. hand' = hand
    BY <1>6 DEF PeerAck, PeerReply, PeerSends, ioVars
  <2>4. QED
    BY <1>2, <1>3, <2>1, <2>2, <2>3
<1>7. QED
  BY <1>4, <1>5, <1>6, InboxMoves

LEMMA StepKeepsVerdicts ==
  ASSUME TypeOK, RequestInv, MessageInv, VerdictInv, Next
  PROVE  VerdictInv'
<1>0. PendingTypeOK /\ IoTypeOK
  BY DEF TypeOK
<1>1. \A c \in Calls :
        /\ peer[c] \in Acknowledged => peer'[c] \in Acknowledged
        /\ peer[c] = "answered" => peer'[c] = "answered"
  BY PeerMoves DEF Acknowledged
<1>2. ASSUME acked' = acked, replied' = replied, payload' = payload
      PROVE  VerdictInv'
  BY <1>1, <1>2 DEF VerdictInv
<1> USE DEF pendingVars
<1>3. ASSUME NEW d \in Calls,
             \/ CallEnter(d) \/ CallCheck(d) \/ CallRegister(d)
             \/ CallSendTest(d) \/ CallSend(d)
             \/ CallAcked(d) \/ CallWaitsForAck(d) \/ AckDeadline(d)
             \/ CallReplied(d) \/ CallWaitsForReply(d) \/ ReplyDeadline(d)
             \/ SpuriousWakeup(d)
      PROVE  acked' = acked /\ replied' = replied /\ payload' = payload
  BY <1>3 DEF CallEnter, CallCheck, CallRegister, CallSendTest, CallSend, CallAcked,
     CallWaitsForAck, AckDeadline, CallReplied, CallWaitsForReply,
     ReplyDeadline, SpuriousWakeup
<1>4. ASSUME NEW d \in Calls,
             \/ CallRefused(d) \/ CallSendThrows(d) \/ CallFails(d)
             \/ CallAckTimeout(d) \/ CallReplyTimeout(d) \/ CallReturn(d)
             \/ IoFailOne(d) \/ CloseFailOne(d)
             \/ PeerAck(d) \/ PeerAckLost(d) \/ PeerReply(d)
      PROVE  acked' = acked /\ replied' = replied /\ payload' = payload
  BY <1>4 DEF CallRefused, CallSendThrows, CallFails, CallAckTimeout,
     CallReplyTimeout, CallReturn, Leave, IoFailOne, CloseFailOne, FailOne,
     PeerAck, PeerAckLost, PeerReply, PeerSends
<1>5. CASE \/ IoPoll \/ IoPollFails \/ IoCtrlFails \/ IoReceiveFails
           \/ IoCloseSentinel \/ IoTake \/ IoForward \/ IoSendFails \/ IoReceive
           \/ IoBadAck \/ IoInvalidReply \/ IoSwap \/ IoFailedAll
  <2>1. acked' = acked /\ replied' = replied /\ payload' = payload
    BY <1>5 DEF IoPoll, IoPollFails, IoCtrlFails, IoReceiveFails,
       IoCloseSentinel, IoTake, IoForward, IoSendFails, IoReceive, IoBadAck,
       IoInvalidReply, IoSwap, IoFailedAll
  <2>2. QED
    BY <1>2, <2>1
<1>6. CASE \/ CloseFlag \/ CloseClosing \/ CloseSend \/ CloseSendFails
           \/ CloseSockets \/ CloseSwap \/ CloseContext
  <2>1. acked' = acked /\ replied' = replied /\ payload' = payload
    BY <1>6 DEF CloseFlag, CloseClosing, CloseSend, CloseSendFails,
       CloseSockets, CloseSwap, CloseContext
  <2>2. QED
    BY <1>2, <2>1
<1>7. CASE IoAck \/ IoPayload
  <2>1. hand.rid \in Calls /\ hand # NoMessage
    BY <1>0, <1>7, RoutedMessage DEF IoAck, IoPayload, Routed, NoMessage
  <2>2. Genuine(hand)
    BY <2>1 DEF MessageInv
  <2>3. CASE IoAck
    BY <1>0, <1>1, <2>1, <2>2, <2>3 DEF IoAck, VerdictInv, Genuine,
       PendingTypeOK
  <2>4. CASE IoPayload
    <3>1. hand.answer = hand.rid /\ peer[hand.rid] = "answered"
      BY <2>2, <2>4 DEF Genuine, IoPayload, Routed
    <3>2. /\ payload' = [payload EXCEPT ![hand.rid] = hand.rid]
          /\ replied' = [replied EXCEPT ![hand.rid] = TRUE]
          /\ acked' = acked
      BY <2>4, <3>1 DEF IoPayload
    <3>3. QED
      BY <1>0, <1>1, <2>1, <3>1, <3>2 DEF VerdictInv, PendingTypeOK
  <2>5. QED
    BY <1>7, <2>3, <2>4
<1>8. QED
  BY <1>2, <1>3, <1>4, <1>5, <1>6, <1>7, NextCases

LEMMA StepKeepsProgress ==
  ASSUME TypeOK, VerdictInv, ProgressInv, Next
  PROVE  ProgressInv'
<1>0. CallerTypeOK /\ PendingTypeOK /\ IoTypeOK
  BY DEF TypeOK
<1> USE DEF ProgressInv, CallerTypeOK, callerVars, pendingVars
<1>1. ASSUME NEW d \in Calls,
             \/ CallEnter(d) \/ CallCheck(d) \/ CallRegister(d)
             \/ CallSendTest(d) \/ CallSend(d)
             \/ CallAcked(d) \/ CallWaitsForAck(d) \/ AckDeadline(d)
      PROVE  ProgressInv'
  BY <1>0, <1>1 DEF CallEnter, CallCheck, CallRegister, CallSendTest, CallSend, CallAcked,
     CallWaitsForAck, AckDeadline, Goto
<1>2. ASSUME NEW d \in Calls,
             CallReplied(d) \/ CallWaitsForReply(d) \/ ReplyDeadline(d)
      PROVE  ProgressInv'
  BY <1>0, <1>2 DEF CallReplied, CallWaitsForReply, ReplyDeadline, Goto
<1>3. ASSUME NEW d \in Calls,
             \/ CallRefused(d) \/ CallSendThrows(d) \/ CallFails(d)
             \/ CallAckTimeout(d) \/ CallReplyTimeout(d) \/ CallReturn(d)
      PROVE  ProgressInv'
  <2>1. CASE CallRefused(d) \/ CallSendThrows(d) \/ CallFails(d)
             \/ CallAckTimeout(d)
    BY <1>0, <2>1 DEF CallRefused, CallSendThrows, CallFails,
       CallAckTimeout, Leave, Goto
  <2>2. CASE CallReplyTimeout(d) \/ CallReturn(d)
    BY <1>0, <2>2 DEF CallReplyTimeout, CallReturn, Leave, Goto
  <2>3. QED
    BY <1>3, <2>1, <2>2
<1>4. ASSUME NEW d \in Calls,
             SpuriousWakeup(d) \/ IoFailOne(d) \/ CloseFailOne(d)
      PROVE  ProgressInv'
  BY <1>0, <1>4 DEF SpuriousWakeup, IoFailOne, CloseFailOne, FailOne, Woken
<1>5. CASE IoAck \/ IoBadAck \/ IoPayload \/ IoInvalidReply
  <2>1. hand.rid \in Calls
    BY <1>0, <1>5, RoutedMessage
  <2>2. /\ call' = call \/ call' = Woken(hand.rid, call)
        /\ outcome' = outcome
        /\ \A c \in Calls : /\ acked[c] => acked'[c]
                            /\ replied[c] => replied'[c]
    BY <1>0, <1>5, <2>1 DEF IoAck, IoBadAck, IoPayload, IoInvalidReply,
       Routed, NotifyAck, NotifyReply, PendingTypeOK
  <2>3. QED
    BY <1>0, <2>1, <2>2 DEF Woken
<1>6. ASSUME NEW d \in Calls, PeerAck(d) \/ PeerAckLost(d) \/ PeerReply(d)
      PROVE  ProgressInv'
  BY <1>6 DEF PeerAck, PeerAckLost, PeerReply, PeerSends
<1>7. CASE \/ IoPoll \/ IoPollFails \/ IoCtrlFails \/ IoReceiveFails
           \/ IoCloseSentinel \/ IoTake \/ IoForward \/ IoSendFails \/ IoReceive
           \/ IoSwap \/ IoFailedAll
  BY <1>7 DEF IoPoll, IoPollFails, IoCtrlFails, IoReceiveFails,
     IoCloseSentinel, IoTake, IoForward, IoSendFails, IoReceive, IoSwap, IoFailedAll
<1>8. CASE \/ CloseFlag \/ CloseClosing \/ CloseSend \/ CloseSendFails
           \/ CloseSockets \/ CloseSwap \/ CloseContext
  BY <1>8 DEF CloseFlag, CloseClosing, CloseSend, CloseSendFails,
     CloseSockets, CloseSwap, CloseContext
<1>9. QED
  BY <1>1, <1>2, <1>3, <1>4, <1>5, <1>6, <1>7, <1>8, NextCases

-----------------------------------------------------------------------------
(* The inductive invariant, and what follows from it.                      *)

SafeInv == TypeOK /\ RequestInv /\ MessageInv /\ VerdictInv /\ ProgressInv

LEMMA InitSafeInv == Init => SafeInv
<1> SUFFICES ASSUME Init
             PROVE  SafeInv
  OBVIOUS
<1>1. Len(inbox) = 0 /\ 1..0 = {}
  BY DEF Init
<1>2. RequestInv /\ MessageInv
  BY <1>1 DEF Init, RequestInv, MessageInv
<1>3. VerdictInv /\ ProgressInv
  BY DEF Init, VerdictInv, ProgressInv
<1>4. QED
  BY <1>2, <1>3, InitTypeOK DEF SafeInv

LEMMA StepKeepsSafeInv == SafeInv /\ [Next]_vars => SafeInv'
<1>1. ASSUME SafeInv, UNCHANGED vars
      PROVE  SafeInv'
  <2>1. TypeOK'
    BY <1>1, StepKeepsTypeOK DEF SafeInv
  <2>2. QED
    BY <1>1, <2>1 DEF SafeInv, RequestInv, MessageInv, Genuine, VerdictInv,
       ProgressInv, vars, callerVars, pendingVars, ioVars, peerVars
<1>2. ASSUME SafeInv, Next
      PROVE  SafeInv'
  BY <1>2, StepKeepsTypeOK, StepKeepsRequest, StepKeepsMessages,
     StepKeepsVerdicts, StepKeepsProgress DEF SafeInv
<1>3. QED
  BY <1>1, <1>2

\* A call returns the peer's answer to its own request, and reports a reply
\* timeout only of a request the peer acknowledged.
THEOREM AnswersAreOwn == Spec => [](ReplyIsOwn /\ ReplyTimeoutMeansAcked)
<1>1. SafeInv => ReplyIsOwn /\ ReplyTimeoutMeansAcked
  BY DEF SafeInv, VerdictInv, ProgressInv, ReplyIsOwn, ReplyTimeoutMeansAcked,
     Acknowledged
<1>2. QED
  BY <1>1, InitSafeInv, StepKeepsSafeInv, PTL DEF Spec

\* Steps that leave every call where its caller sees it, and the peer alone.
LEMMA Stutters ==
  ASSUME peer' = peer,
         \A c \in Calls :
           /\ outcome'[c] = outcome[c]
           /\ \/ call'[c] = call[c]
              \/ /\ call[c] \notin {"idle", "done"}
                 /\ call'[c] \notin {"idle", "done"}
  PROVE  UNCHANGED Abstract!vars
<1>1. StatusOfCalls' = StatusOfCalls
  BY DEF StatusOfCalls, Status
<1>2. QED
  BY <1>1 DEF RequestedCalls, AnsweredCalls, Abstract!vars

\* A call enters, and is refused, fails or returns, as in RpcCall.
LEMMA CallerImplements ==
  ASSUME SafeInv, NEW c \in Calls,
         \/ CallEnter(c) \/ CallRefused(c) \/ CallSendThrows(c) \/ CallFails(c)
         \/ CallAckTimeout(c) \/ CallReplyTimeout(c) \/ CallReturn(c)
  PROVE  Abstract!Next
<1>0. CallerTypeOK /\ ProgressInv /\ VerdictInv
  BY DEF SafeInv, TypeOK
<1> USE DEF CallerTypeOK
<1>1. peer' = peer
  BY DEF CallEnter, CallRefused, CallSendThrows, CallFails, CallAckTimeout,
     CallReplyTimeout, CallReturn, Leave, peerVars
<1>2. UNCHANGED <<RequestedCalls, AnsweredCalls>>
  BY <1>1 DEF RequestedCalls, AnsweredCalls
<1>3. CASE CallEnter(c)
  <2>1. /\ call[c] = "idle" /\ call' = [call EXCEPT ![c] = "entered"]
        /\ outcome' = outcome /\ outcome[c] = "none"
    BY <1>0, <1>3 DEF CallEnter, Goto, ProgressInv
  <2>2. StatusOfCalls[c] = "idle"
        /\ StatusOfCalls' = [StatusOfCalls EXCEPT ![c] = "active"]
    BY <1>0, <2>1 DEF StatusOfCalls, Status
  <2>3. Abstract!Begin(c)
    BY <1>2, <2>2 DEF Abstract!Begin, Abstract!Move
  <2>4. QED
    BY <2>3 DEF Abstract!Next
<1>4. CASE \/ CallRefused(c) \/ CallSendThrows(c) \/ CallFails(c)
           \/ CallAckTimeout(c) \/ CallReplyTimeout(c)
  <2>1. PICK how \in {"refused", "sendError", "failed", "ackTimeout",
                      "replyTimeout"} :
          /\ call' = [call EXCEPT ![c] = "done"]
          /\ outcome' = [outcome EXCEPT ![c] = how]
    BY <1>4 DEF CallRefused, CallSendThrows, CallFails, CallAckTimeout,
       CallReplyTimeout, Leave, Goto
  <2>2. call[c] # "done"
    BY <1>4 DEF CallRefused, CallSendThrows, CallFails, CallAckTimeout,
       CallReplyTimeout, Leave, Goto
  <2>3. outcome[c] = "none"
    BY <1>0, <2>2 DEF ProgressInv
  <2>4. StatusOfCalls[c] \in {"idle", "active"}
        /\ StatusOfCalls' = [StatusOfCalls EXCEPT ![c] = "error"]
    BY <1>0, <2>1, <2>2, <2>3 DEF StatusOfCalls, Status
  <2>5. Abstract!Refuse(c) \/ Abstract!Fail(c)
    BY <1>2, <2>4 DEF Abstract!Refuse, Abstract!Fail, Abstract!Move
  <2>6. QED
    BY <2>5 DEF Abstract!Next
<1>5. CASE CallReturn(c)
  <2>1. /\ call[c] = "return"
        /\ call' = [call EXCEPT ![c] = "done"]
        /\ outcome' = [outcome EXCEPT ![c] = "reply"]
    BY <1>5 DEF CallReturn, Leave, Goto
  <2>2. outcome[c] = "none" /\ c \in AnsweredCalls
    BY <1>0, <2>1 DEF ProgressInv, VerdictInv, AnsweredCalls
  <2>3. StatusOfCalls[c] = "active"
        /\ StatusOfCalls' = [StatusOfCalls EXCEPT ![c] = "answer"]
    BY <1>0, <2>1, <2>2 DEF StatusOfCalls, Status
  <2>4. Abstract!Return(c)
    BY <1>2, <2>2, <2>3 DEF Abstract!Return, Abstract!Move
  <2>5. QED
    BY <2>4 DEF Abstract!Next
<1>6. QED
  BY <1>3, <1>4, <1>5

\* A request is sent and answered as in RpcCall.
LEMMA PeerImplements ==
  ASSUME SafeInv,
         \/ IoForward
         \/ \E c \in Calls : PeerAck(c) \/ PeerAckLost(c) \/ PeerReply(c)
  PROVE  [Abstract!Next]_(Abstract!vars)
<1>0. peer \in [Calls -> {"none", "requested", "acked", "answered", "garbled"}]
  BY DEF SafeInv, TypeOK, PeerTypeOK
<1>1. StatusOfCalls' = StatusOfCalls
  <2>1. call' = call /\ outcome' = outcome
    BY DEF IoForward, PeerAck, PeerAckLost, PeerReply, PeerSends, callerVars
  <2>2. QED
    BY <2>1 DEF StatusOfCalls, Status
<1>2. CASE IoForward
  <2> DEFINE c == outgoing
  <2>1. /\ c \in Calls /\ peer[c] = "none" /\ call[c] \notin Early
        /\ peer' = [peer EXCEPT ![c] = "requested"]
    BY <1>2, ForwardedRequest DEF SafeInv, IoForward
  <2> HIDE DEF c
  <2>2. c \notin RequestedCalls /\ StatusOfCalls[c] # "idle"
    BY <2>1 DEF RequestedCalls, StatusOfCalls, Status, Early
  <2>3. /\ RequestedCalls' = RequestedCalls \cup {c}
        /\ AnsweredCalls' = AnsweredCalls
    BY <1>0, <2>1 DEF RequestedCalls, AnsweredCalls
  <2>4. Abstract!Request(c)
    BY <1>1, <2>2, <2>3 DEF Abstract!Request
  <2>5. QED
    BY <2>1, <2>4 DEF Abstract!Next
<1>3. ASSUME NEW c \in Calls, PeerReply(c)
      PROVE  [Abstract!Next]_(Abstract!vars)
  <2>1. PICK to \in {"answered", "garbled"} :
          peer[c] = "acked" /\ peer' = [peer EXCEPT ![c] = to]
    BY <1>3 DEF PeerReply, PeerSends
  <2>2. /\ RequestedCalls' = RequestedCalls
        /\ c \in RequestedCalls \ AnsweredCalls
    BY <1>0, <2>1 DEF RequestedCalls, AnsweredCalls
  <2>3. CASE to = "answered"
    <3>1. AnsweredCalls' = AnsweredCalls \cup {c}
      BY <1>0, <2>1, <2>3 DEF AnsweredCalls
    <3>2. Abstract!Answer(c)
      BY <1>1, <2>2, <3>1 DEF Abstract!Answer
    <3>3. QED
      BY <3>2 DEF Abstract!Next
  <2>4. CASE to = "garbled"
    <3>1. AnsweredCalls' = AnsweredCalls
      BY <1>0, <2>1, <2>4 DEF AnsweredCalls
    <3>2. QED
      BY <1>1, <2>2, <3>1 DEF Abstract!vars
  <2>5. QED
    BY <2>3, <2>4
<1>4. ASSUME NEW c \in Calls, PeerAck(c) \/ PeerAckLost(c)
      PROVE  [Abstract!Next]_(Abstract!vars)
  <2>1. peer[c] = "requested" /\ peer' = [peer EXCEPT ![c] = "acked"]
    BY <1>4 DEF PeerAck, PeerAckLost, PeerSends
  <2>2. RequestedCalls' = RequestedCalls /\ AnsweredCalls' = AnsweredCalls
    BY <1>0, <2>1 DEF RequestedCalls, AnsweredCalls
  <2>3. QED
    BY <1>1, <2>2 DEF Abstract!vars
<1>5. QED
  BY <1>2, <1>3, <1>4

LEMMA StepImplements ==
  ASSUME SafeInv, Next
  PROVE  [Abstract!Next]_(Abstract!vars)
<1>0. CallerTypeOK /\ IoTypeOK
  BY DEF SafeInv, TypeOK
<1> USE DEF CallerTypeOK, callerVars, peerVars
<1>1. ASSUME NEW d \in Calls,
             \/ CallCheck(d) \/ CallRegister(d) \/ CallSendTest(d) \/ CallSend(d)
             \/ CallAcked(d) \/ CallWaitsForAck(d) \/ AckDeadline(d)
             \/ CallReplied(d) \/ CallWaitsForReply(d) \/ ReplyDeadline(d)
      PROVE  UNCHANGED Abstract!vars
  <2>1. /\ peer' = peer /\ outcome' = outcome
        /\ \A c \in Calls : \/ call'[c] = call[c]
                            \/ /\ call[c] \notin {"idle", "done"}
                               /\ call'[c] \notin {"idle", "done"}
    BY <1>0, <1>1 DEF CallCheck, CallRegister, CallSendTest, CallSend, CallAcked,
       CallWaitsForAck, AckDeadline, CallReplied, CallWaitsForReply,
       ReplyDeadline, Goto
  <2>2. QED
    BY <2>1, Stutters
<1>2. ASSUME NEW d \in Calls,
             SpuriousWakeup(d) \/ IoFailOne(d) \/ CloseFailOne(d)
      PROVE  UNCHANGED Abstract!vars
  <2>1. /\ peer' = peer /\ outcome' = outcome
        /\ \A c \in Calls : \/ call'[c] = call[c]
                            \/ /\ call[c] \notin {"idle", "done"}
                               /\ call'[c] \notin {"idle", "done"}
    BY <1>0, <1>2 DEF SpuriousWakeup, IoFailOne, CloseFailOne, FailOne, Woken
  <2>2. QED
    BY <2>1, Stutters
<1>3. CASE IoAck \/ IoBadAck \/ IoPayload \/ IoInvalidReply
  <2>1. /\ peer' = peer /\ outcome' = outcome
        /\ \A c \in Calls : \/ call'[c] = call[c]
                            \/ /\ call[c] \notin {"idle", "done"}
                               /\ call'[c] \notin {"idle", "done"}
    BY <1>0, <1>3, RoutedMessage DEF IoAck, IoBadAck, IoPayload,
       IoInvalidReply, Routed, NotifyAck, NotifyReply, Woken
  <2>2. QED
    BY <2>1, Stutters
<1>4. CASE \/ IoPoll \/ IoPollFails \/ IoCtrlFails \/ IoReceiveFails
           \/ IoCloseSentinel \/ IoTake \/ IoSendFails \/ IoReceive
           \/ IoSwap \/ IoFailedAll
  <2>1. peer' = peer /\ outcome' = outcome /\ call' = call
    BY <1>4 DEF IoPoll, IoPollFails, IoCtrlFails, IoReceiveFails,
       IoCloseSentinel, IoTake, IoSendFails, IoReceive, IoSwap, IoFailedAll
  <2>2. QED
    BY <2>1, Stutters
<1>5. CASE \/ CloseFlag \/ CloseClosing \/ CloseSend \/ CloseSendFails
           \/ CloseSockets \/ CloseSwap \/ CloseContext
  <2>1. peer' = peer /\ outcome' = outcome /\ call' = call
    BY <1>5 DEF CloseFlag, CloseClosing, CloseSend, CloseSendFails,
       CloseSockets, CloseSwap, CloseContext
  <2>2. QED
    BY <2>1, Stutters
<1>6. QED
  BY <1>1, <1>2, <1>3, <1>4, <1>5, CallerImplements, PeerImplements, NextCases

\* Calls over ZeroMQ implement the calls RpcRequester promises.
THEOREM RequesterIsRpcCall == Spec => ImplementsRpcCall
<1>1. Init => Abstract!Init
  BY DEF Init, Abstract!Init, StatusOfCalls, Status, RequestedCalls,
     AnsweredCalls
<1>2. ASSUME SafeInv, UNCHANGED vars
      PROVE  UNCHANGED Abstract!vars
  <2>1. peer' = peer /\ outcome' = outcome /\ call' = call
    BY <1>2 DEF vars, callerVars, peerVars
  <2>2. QED
    BY <2>1, Stutters
<1>3. SafeInv /\ [Next]_vars => [Abstract!Next]_(Abstract!vars)
  BY <1>2, StepImplements
<1>4. QED
  BY <1>1, <1>3, InitSafeInv, StepKeepsSafeInv, PTL
  DEF Spec, ImplementsRpcCall, Abstract!Spec

-----------------------------------------------------------------------------
(* What holds for simpler reasons.                                         *)

\* A call that is over is never found in pending_.
THEOREM CleanedUp == Spec => []NoPendingLeft
<1>1. Init => NoPendingLeft
  BY DEF Init, NoPendingLeft
<1>2. ASSUME SafeInv, NoPendingLeft, [Next]_vars
      PROVE  NoPendingLeft'
  <2>0. CallerTypeOK /\ IoTypeOK
    BY <1>2 DEF SafeInv, TypeOK
  <2> USE DEF NoPendingLeft, CallerTypeOK, callerVars,
              pendingVars, ioVars, closeVars
  <2>1. ASSUME NEW d \in Calls,
               \/ CallEnter(d) \/ CallCheck(d) \/ CallRegister(d)
               \/ CallSendTest(d) \/ CallSend(d) \/ CallAcked(d) \/ CallWaitsForAck(d)
               \/ AckDeadline(d) \/ CallReplied(d) \/ CallWaitsForReply(d)
               \/ ReplyDeadline(d)
        PROVE  NoPendingLeft'
    BY <1>2, <2>0, <2>1 DEF CallEnter, CallCheck, CallRegister, CallSendTest, CallSend,
       CallAcked, CallWaitsForAck, AckDeadline, CallReplied,
       CallWaitsForReply, ReplyDeadline, Goto
  <2>2. ASSUME NEW d \in Calls,
               \/ CallRefused(d) \/ CallSendThrows(d) \/ CallFails(d)
               \/ CallAckTimeout(d) \/ CallReplyTimeout(d) \/ CallReturn(d)
        PROVE  NoPendingLeft'
    BY <1>2, <2>0, <2>2 DEF CallRefused, CallSendThrows, CallFails,
       CallAckTimeout, CallReplyTimeout, CallReturn, Leave, Goto
  <2>3. ASSUME NEW d \in Calls,
               SpuriousWakeup(d) \/ IoFailOne(d) \/ CloseFailOne(d)
        PROVE  NoPendingLeft'
    BY <1>2, <2>0, <2>3 DEF SpuriousWakeup, IoFailOne, CloseFailOne, FailOne,
       Woken
  <2>4. CASE IoAck \/ IoBadAck \/ IoPayload \/ IoInvalidReply
    BY <1>2, <2>0, <2>4, RoutedMessage DEF IoAck, IoBadAck, IoPayload,
       IoInvalidReply, Routed, IoAt, NotifyAck, NotifyReply, Woken
  <2>5. ASSUME NEW d \in Calls,
               PeerAck(d) \/ PeerAckLost(d) \/ PeerReply(d)
        PROVE  NoPendingLeft'
    BY <1>2, <2>5 DEF PeerAck, PeerAckLost, PeerReply, PeerSends
  <2>6. CASE \/ IoPoll \/ IoPollFails \/ IoCtrlFails \/ IoReceiveFails
             \/ IoCloseSentinel \/ IoTake \/ IoForward \/ IoSendFails \/ IoReceive
             \/ IoSwap \/ IoFailedAll
    BY <1>2, <2>6 DEF IoPoll, IoPollFails, IoCtrlFails, IoReceiveFails,
       IoCloseSentinel, IoTake, IoForward, IoSendFails, IoReceive, IoSwap,
       IoFailedAll, IoAt
  <2>7. CASE \/ CloseFlag \/ CloseClosing \/ CloseSend \/ CloseSendFails
             \/ CloseSockets \/ CloseSwap \/ CloseContext
    BY <1>2, <2>7 DEF CloseFlag, CloseClosing, CloseSend, CloseSendFails,
       CloseSockets, CloseSwap, CloseContext
  <2>8. CASE UNCHANGED vars
    BY <1>2, <2>8 DEF vars
  <2>9. QED
    BY <1>2, <2>1, <2>2, <2>3, <2>4, <2>5, <2>6, <2>7, <2>8, NextCases
<1>3. QED
  BY <1>1, <1>2, InitSafeInv, StepKeepsSafeInv, PTL DEF Spec

-----------------------------------------------------------------------------
(* Nobody sleeps on a verdict.  An invalid reply notifies only those who   *)
(* wait for a reply, an invalid ack only those who wait for an ack; that   *)
(* this suffices rests on the order of the messages about one call.        *)

Serving == {"poll", "ctrl", "forward", "dealer", "route", "sendFailed"}

Registered == CallerPlaces \ {"idle", "entered", "register", "done"}

\* While the I/O thread routes messages, every registered call is found.
RouteInv ==
  /\ io # "route" => hand = NoMessage
  /\ io \in Serving => \A c \in Calls : call[c] \in Registered => c \in pending
  /\ closer \in {"swap", "fail", "closed"} => io = "stopped"

\* The ack of a call is the first message about it, and comes once.
OrderInv ==
  /\ \A i, j \in 1..Len(inbox) :
       i < j /\ inbox[i].rid = inbox[j].rid => inbox[j].kind \notin AckKinds
  /\ \A i \in 1..Len(inbox) :
       /\ inbox[i].rid = hand.rid => inbox[i].kind \notin AckKinds
       /\ inbox[i].kind \in AckKinds => ~acked[inbox[i].rid]
  /\ hand.kind \in AckKinds => ~acked[hand.rid]

Told(c) == acked[c] \/ failed[c] \/ call[c] = "done"

AckComes(c) ==
  \/ hand.rid = c /\ hand.kind \in AckKinds
  \/ \E i \in 1..Len(inbox) : inbox[i].rid = c /\ inbox[i].kind \in AckKinds

\* What the peer has acknowledged, the caller knows or is going to be told.
ReportInv ==
  \A c \in Calls : peer[c] \in Acknowledged => Told(c) \/ AckComes(c)

LEMMA StepKeepsRoute ==
  ASSUME TypeOK, RouteInv, Next
  PROVE  RouteInv'
<1>0. CallerTypeOK /\ PendingTypeOK /\ IoTypeOK
  BY DEF TypeOK
<1> USE DEF RouteInv, Serving, Registered, CallerPlaces, CallerTypeOK,
            callerVars, pendingVars, ioVars, closeVars
<1>1. ASSUME NEW d \in Calls,
             \/ CallEnter(d) \/ CallCheck(d) \/ CallRegister(d) \/ CallSendTest(d)
             \/ CallSendTest(d) \/ CallSend(d) \/ CallAcked(d)
      PROVE  RouteInv'
  BY <1>0, <1>1 DEF CallEnter, CallCheck, CallRegister, CallSendTest, CallSend,
     CallAcked, Goto
<1>2. ASSUME NEW d \in Calls,
             \/ CallWaitsForAck(d) \/ AckDeadline(d) \/ CallReplied(d)
             \/ CallWaitsForReply(d) \/ ReplyDeadline(d)
      PROVE  RouteInv'
  BY <1>0, <1>2 DEF CallWaitsForAck, AckDeadline, CallReplied,
     CallWaitsForReply, ReplyDeadline, Goto
<1>3. ASSUME NEW d \in Calls,
             \/ CallRefused(d) \/ CallSendThrows(d) \/ CallFails(d)
             \/ CallAckTimeout(d) \/ CallReplyTimeout(d) \/ CallReturn(d)
      PROVE  RouteInv'
  BY <1>0, <1>3 DEF CallRefused, CallSendThrows, CallFails, CallAckTimeout,
     CallReplyTimeout, CallReturn, Leave, Goto
<1>4. ASSUME NEW d \in Calls,
             SpuriousWakeup(d) \/ IoFailOne(d) \/ CloseFailOne(d)
      PROVE  RouteInv'
  BY <1>0, <1>4 DEF SpuriousWakeup, IoFailOne, CloseFailOne, FailOne, Woken
<1>5. CASE IoAck \/ IoBadAck \/ IoPayload \/ IoInvalidReply
  BY <1>0, <1>5, RoutedMessage DEF IoAck, IoBadAck, IoPayload, IoInvalidReply,
     Routed, IoAt, NotifyAck, NotifyReply, Woken
<1>6. ASSUME NEW d \in Calls, PeerAck(d) \/ PeerAckLost(d) \/ PeerReply(d)
      PROVE  RouteInv'
  BY <1>6 DEF PeerAck, PeerAckLost, PeerReply, PeerSends
<1>7. CASE \/ IoPoll \/ IoPollFails \/ IoCtrlFails \/ IoReceiveFails
           \/ IoCloseSentinel \/ IoTake \/ IoForward \/ IoSendFails
  BY <1>7 DEF IoPoll, IoPollFails, IoCtrlFails, IoReceiveFails,
     IoCloseSentinel, IoTake, IoForward, IoSendFails, IoAt
<1>8. CASE IoReceive \/ IoSwap \/ IoFailedAll
  BY <1>8 DEF IoReceive, IoSwap, IoFailedAll, IoAt
<1>9. CASE \/ CloseFlag \/ CloseClosing \/ CloseSend \/ CloseSendFails
           \/ CloseSockets \/ CloseSwap \/ CloseContext
  BY <1>9 DEF CloseFlag, CloseClosing, CloseSend, CloseSendFails,
     CloseSockets, CloseSwap, CloseContext, CloserAt
<1>10. QED
  BY <1>1, <1>2, <1>3, <1>4, <1>5, <1>6, <1>7, <1>8, <1>9, NextCases

\* What a caller was told stays said; only IoAck acknowledges.
LEMMA ToldStays ==
  ASSUME TypeOK, Next
  PROVE  /\ \A c \in Calls : Told(c) => Told(c)'
         /\ acked' = acked \/ IoAck
<1>0. CallerTypeOK /\ PendingTypeOK /\ IoTypeOK
  BY DEF TypeOK
<1> USE DEF Told, CallerTypeOK, PendingTypeOK, callerVars, pendingVars
<1>1. ASSUME NEW d \in Calls,
             \/ CallEnter(d) \/ CallCheck(d) \/ CallRegister(d) \/ CallSendTest(d)
             \/ CallSendTest(d) \/ CallSend(d) \/ CallAcked(d) \/ CallWaitsForAck(d)
             \/ AckDeadline(d) \/ CallReplied(d) \/ CallWaitsForReply(d)
             \/ ReplyDeadline(d)
      PROVE  (\A c \in Calls : Told(c) => Told(c)') /\ acked' = acked
  BY <1>0, <1>1 DEF CallEnter, CallCheck, CallRegister, CallSendTest, CallSend, CallAcked,
     CallWaitsForAck, AckDeadline, CallReplied, CallWaitsForReply,
     ReplyDeadline, Goto
<1>2. ASSUME NEW d \in Calls,
             \/ CallRefused(d) \/ CallSendThrows(d) \/ CallFails(d)
             \/ CallAckTimeout(d) \/ CallReplyTimeout(d) \/ CallReturn(d)
      PROVE  (\A c \in Calls : Told(c) => Told(c)') /\ acked' = acked
  BY <1>0, <1>2 DEF CallRefused, CallSendThrows, CallFails, CallAckTimeout,
     CallReplyTimeout, CallReturn, Leave, Goto
<1>3. ASSUME NEW d \in Calls,
             SpuriousWakeup(d) \/ IoFailOne(d) \/ CloseFailOne(d)
      PROVE  (\A c \in Calls : Told(c) => Told(c)') /\ acked' = acked
  BY <1>0, <1>3 DEF SpuriousWakeup, IoFailOne, CloseFailOne, FailOne, Woken
<1>4. CASE IoAck \/ IoBadAck \/ IoPayload \/ IoInvalidReply
  <2>1. hand.rid \in Calls
    BY <1>0, <1>4, RoutedMessage
  <2>2. \A c \in Calls : call[c] = "done" => call'[c] = "done"
    BY <1>0, <1>4, <2>1 DEF IoAck, IoBadAck, IoPayload, IoInvalidReply,
       NotifyAck, NotifyReply, Woken
  <2>3. \A c \in Calls : /\ acked[c] => acked'[c]
                         /\ failed[c] => failed'[c]
    BY <1>0, <1>4, <2>1 DEF IoAck, IoBadAck, IoPayload, IoInvalidReply
  <2>4. acked' = acked \/ IoAck
    BY <1>4 DEF IoBadAck, IoPayload, IoInvalidReply
  <2>5. QED
    BY <2>2, <2>3, <2>4
<1>5. ASSUME NEW d \in Calls, PeerAck(d) \/ PeerAckLost(d) \/ PeerReply(d)
      PROVE  (\A c \in Calls : Told(c) => Told(c)') /\ acked' = acked
  BY <1>5 DEF PeerAck, PeerAckLost, PeerReply, PeerSends
<1>6. CASE \/ IoPoll \/ IoPollFails \/ IoCtrlFails \/ IoReceiveFails
           \/ IoCloseSentinel \/ IoTake \/ IoForward \/ IoSendFails \/ IoReceive
           \/ IoSwap \/ IoFailedAll
  BY <1>6 DEF IoPoll, IoPollFails, IoCtrlFails, IoReceiveFails,
     IoCloseSentinel, IoTake, IoForward, IoSendFails, IoReceive, IoSwap, IoFailedAll
<1>7. CASE \/ CloseFlag \/ CloseClosing \/ CloseSend \/ CloseSendFails
           \/ CloseSockets \/ CloseSwap \/ CloseContext
  BY <1>7 DEF CloseFlag, CloseClosing, CloseSend, CloseSendFails,
     CloseSockets, CloseSwap, CloseContext
<1>8. QED
  BY <1>1, <1>2, <1>3, <1>4, <1>5, <1>6, <1>7, NextCases

\* What the inbox holds, and what does not count as a message.
LEMMA InboxTypes ==
  ASSUME TypeOK
  PROVE  /\ inbox \in Seq(Message) /\ Len(inbox) \in Nat
         /\ \A i \in 1..Len(inbox) : inbox[i] \in Message /\ inbox[i].rid \in Calls
         /\ NoMessage.rid \notin Calls /\ NoMessage.kind \notin AckKinds
         /\ inbox # <<>> =>
              /\ 1 \in 1..Len(inbox) /\ Head(inbox) = inbox[1]
              /\ \A i \in 1..Len(Tail(inbox)) :
                   i + 1 \in 1..Len(inbox) /\ Tail(inbox)[i] = inbox[i + 1]
<1>1. inbox \in Seq(Message) /\ Len(inbox) \in Nat
  BY DEF TypeOK, PeerTypeOK
<1>2. \A i \in 1..Len(inbox) : inbox[i] \in Message
  BY <1>1
<1>3. \A m \in Message : m.rid \in Calls
  BY DEF Message
<1>4. NoMessage.rid \notin Calls /\ NoMessage.kind \notin AckKinds
  BY DEF NoMessage
<1>5. ASSUME inbox # <<>>
      PROVE  /\ 1 \in 1..Len(inbox) /\ Head(inbox) = inbox[1]
             /\ \A i \in 1..Len(Tail(inbox)) :
                  i + 1 \in 1..Len(inbox) /\ Tail(inbox)[i] = inbox[i + 1]
  BY <1>1, <1>5
<1>6. QED
  BY <1>1, <1>2, <1>3, <1>4, <1>5

\* A message from the peer goes behind all others.
LEMMA PeerAppends ==
  ASSUME TypeOK, NEW c \in Calls, NEW from, NEW to, NEW kind,
         PeerSends(c, from, to, kind)
  PROVE  /\ Len(inbox') = Len(inbox) + 1
         /\ \A i \in 1..Len(inbox) : inbox'[i] = inbox[i]
         /\ inbox'[Len(inbox) + 1].rid = c
         /\ inbox'[Len(inbox) + 1].kind = kind
         /\ hand' = hand /\ acked' = acked /\ peer[c] = from
<1>1. inbox \in Seq(Message)
  BY InboxTypes
<1> DEFINE m == [rid |-> c, kind |-> kind, answer |-> c]
<1>2. inbox' = Append(inbox, m)
  BY DEF PeerSends
<1>3. /\ Len(inbox') = Len(inbox) + 1
      /\ \A i \in 1..Len(inbox) : inbox'[i] = inbox[i]
      /\ inbox'[Len(inbox) + 1] = m
  BY <1>1, <1>2
<1>4. QED
  BY <1>3 DEF PeerSends, ioVars, pendingVars

LEMMA StepKeepsOrder ==
  ASSUME TypeOK, MessageInv, VerdictInv, OrderInv, Next
  PROVE  OrderInv'
<1>0. PendingTypeOK /\ IoTypeOK
  BY DEF TypeOK
<1>1. CASE IoAck
  <2>1. /\ hand.rid \in Calls /\ hand.kind = "ack"
        /\ hand' = NoMessage /\ inbox' = inbox
        /\ acked' = [acked EXCEPT ![hand.rid] = TRUE]
    BY <1>0, <1>1, RoutedMessage DEF IoAck, Routed, peerVars
  <2>2. \A i \in 1..Len(inbox) : inbox[i].kind \in AckKinds =>
          inbox[i].rid # hand.rid /\ ~acked'[inbox[i].rid]
    BY <1>0, <2>1, InboxTypes DEF OrderInv, PendingTypeOK
  <2>3. QED
    BY <2>1, <2>2, InboxTypes DEF OrderInv
<1>2. CASE /\ acked' = acked /\ inbox' = inbox
           /\ hand' = hand \/ hand' = NoMessage
  BY <1>2, InboxTypes DEF OrderInv
<1>3. CASE /\ acked' = acked /\ inbox # <<>> /\ inbox' = Tail(inbox)
           /\ hand' = NoMessage \/ hand' = Head(inbox)
  <2>1. \A i \in 1..Len(inbox') :
          i \in Nat /\ i + 1 \in 1..Len(inbox) /\ inbox'[i] = inbox[i + 1] /\ 1 < i + 1
    BY <1>3, InboxTypes
  <2>2. \A i, j \in 1..Len(inbox') :
          i < j /\ inbox'[i].rid = inbox'[j].rid => inbox'[j].kind \notin AckKinds
    <3> TAKE i, j \in 1..Len(inbox')
    <3>1. i < j => i + 1 < j + 1
      BY <2>1
    <3>2. QED
      BY <2>1, <3>1 DEF OrderInv
  <2>3. \A i \in 1..Len(inbox') :
          /\ inbox'[i].rid = hand'.rid => inbox'[i].kind \notin AckKinds
          /\ inbox'[i].kind \in AckKinds => ~acked'[inbox'[i].rid]
    BY <1>3, <2>1, InboxTypes DEF OrderInv
  <2>4. hand'.kind \in AckKinds => ~acked'[hand'.rid]
    BY <1>3, InboxTypes DEF OrderInv
  <2>5. QED
    BY <2>2, <2>3, <2>4 DEF OrderInv
<1>4. ASSUME NEW c \in Calls, NEW from, NEW to, NEW kind,
             PeerSends(c, from, to, kind),
             kind \in AckKinds => from = "requested"
      PROVE  OrderInv'
  <2> DEFINE last == Len(inbox) + 1
  <2>1. /\ \A i \in 1..Len(inbox') : i \in 1..Len(inbox) \/ i = last
        /\ \A i \in 1..Len(inbox) : inbox'[i] = inbox[i] /\ i < last
        /\ inbox'[last].rid = c /\ inbox'[last].kind = kind
        /\ hand' = hand /\ acked' = acked /\ peer[c] = from
    BY <1>4, PeerAppends, InboxTypes
  <2>2. kind \in AckKinds => /\ \A i \in 1..Len(inbox) : inbox[i].rid # c
                             /\ hand.rid # c
                             /\ ~acked[c]
    <3>1. from = "requested" => peer[c] \notin Acknowledged
      BY <2>1 DEF Acknowledged
    <3>2. QED
      BY <1>4, <3>1, InboxTypes DEF MessageInv, Genuine, VerdictInv
  <2> HIDE DEF last
  <2>3. \A i, j \in 1..Len(inbox') :
          i < j /\ inbox'[i].rid = inbox'[j].rid => inbox'[j].kind \notin AckKinds
    <3> SUFFICES ASSUME NEW i \in 1..Len(inbox'), NEW j \in 1..Len(inbox'),
                        i < j, inbox'[i].rid = inbox'[j].rid
                 PROVE  inbox'[j].kind \notin AckKinds
      OBVIOUS
    <3>1. CASE i \in 1..Len(inbox) /\ j \in 1..Len(inbox)
      BY <2>1, <3>1 DEF OrderInv
    <3>2. CASE i \in 1..Len(inbox) /\ j = last
      BY <2>1, <2>2, <3>2
    <3>3. CASE i = last
      BY <2>1, <3>3, InboxTypes DEF last
    <3>4. QED
      BY <2>1, <3>1, <3>2, <3>3
  <2>4. \A i \in 1..Len(inbox') :
          /\ inbox'[i].rid = hand'.rid => inbox'[i].kind \notin AckKinds
          /\ inbox'[i].kind \in AckKinds => ~acked'[inbox'[i].rid]
    <3> TAKE i \in 1..Len(inbox')
    <3>1. CASE i \in 1..Len(inbox)
      BY <2>1, <3>1 DEF OrderInv
    <3>2. CASE i = last
      BY <2>1, <2>2, <3>2
    <3>3. QED
      BY <2>1, <3>1, <3>2
  <2>5. QED
    BY <2>1, <2>3, <2>4 DEF OrderInv
<1>5. ASSUME NEW c \in Calls, PeerAck(c) \/ PeerReply(c)
      PROVE  OrderInv'
  BY <1>4, <1>5 DEF PeerAck, PeerReply
<1>6. QED
  BY <1>1, <1>2, <1>3, <1>5, ToldStays, InboxMoves DEF PeerAck, PeerReply

\* Who sends, receives and routes messages, when no ack gets lost.
LEMMA MessageCases ==
  ASSUME ~AcksGetLost, Next
  PROVE  \/ inbox' = inbox /\ hand' = hand /\ (peer' = peer \/ IoForward)
         \/ IoReceive \/ IoAck \/ IoBadAck \/ IoPayload \/ IoInvalidReply
         \/ \E c \in Calls : PeerAck(c) \/ PeerReply(c)
<1> USE DEF ioVars, peerVars
<1>1. ASSUME NEW d \in Calls,
             \/ CallEnter(d) \/ CallCheck(d) \/ CallRegister(d)
             \/ CallSendTest(d) \/ CallSend(d)
             \/ CallAcked(d) \/ CallWaitsForAck(d) \/ AckDeadline(d)
             \/ CallReplied(d) \/ CallWaitsForReply(d) \/ ReplyDeadline(d)
             \/ SpuriousWakeup(d)
      PROVE  inbox' = inbox /\ hand' = hand /\ peer' = peer
  BY <1>1 DEF CallEnter, CallCheck, CallRegister, CallSendTest, CallSend, CallAcked,
     CallWaitsForAck, AckDeadline, CallReplied, CallWaitsForReply,
     ReplyDeadline, SpuriousWakeup
<1>2. ASSUME NEW d \in Calls,
             \/ CallRefused(d) \/ CallSendThrows(d) \/ CallFails(d)
             \/ CallAckTimeout(d) \/ CallReplyTimeout(d) \/ CallReturn(d)
             \/ IoFailOne(d) \/ CloseFailOne(d)
      PROVE  inbox' = inbox /\ hand' = hand /\ peer' = peer
  BY <1>2 DEF CallRefused, CallSendThrows, CallFails, CallAckTimeout,
     CallReplyTimeout, CallReturn, Leave, IoFailOne, CloseFailOne, FailOne
<1>3. CASE \/ IoPoll \/ IoPollFails \/ IoCtrlFails \/ IoReceiveFails
           \/ IoCloseSentinel \/ IoTake \/ IoSendFails \/ IoSwap \/ IoFailedAll
  BY <1>3 DEF IoPoll, IoPollFails, IoCtrlFails, IoReceiveFails,
     IoCloseSentinel, IoTake, IoSendFails, IoSwap, IoFailedAll
<1>4. CASE IoForward
  BY <1>4 DEF IoForward
<1>5. CASE \/ CloseFlag \/ CloseClosing \/ CloseSend \/ CloseSendFails
           \/ CloseSockets \/ CloseSwap \/ CloseContext
  BY <1>5 DEF CloseFlag, CloseClosing, CloseSend, CloseSendFails,
     CloseSockets, CloseSwap, CloseContext
<1>6. ASSUME NEW d \in Calls PROVE ~PeerAckLost(d)
  BY DEF PeerAckLost
<1>7. QED
  BY <1>1, <1>2, <1>3, <1>4, <1>5, <1>6, NextCases

LEMMA StepKeepsReports ==
  ASSUME ~AcksGetLost, TypeOK, RequestInv, RouteInv, ReportInv, Next
  PROVE  ReportInv'
<1>0. CallerTypeOK /\ PendingTypeOK /\ IoTypeOK /\ PeerTypeOK
  BY DEF TypeOK
<1> SUFFICES ASSUME NEW c \in Calls, peer'[c] \in Acknowledged
             PROVE  Told(c)' \/ AckComes(c)'
  BY DEF ReportInv
<1>1. Told(c) => Told(c)'
  BY ToldStays
<1>2. CASE inbox' = inbox /\ hand' = hand /\ (peer' = peer \/ IoForward)
  <2>1. peer[c] \in Acknowledged
    BY <1>0, <1>2 DEF IoForward, PeerTypeOK, Acknowledged
  <2>2. QED
    BY <1>1, <1>2, <2>1 DEF ReportInv, AckComes
<1>3. CASE IoReceive
  <2>1. /\ io = "dealer" /\ hand = NoMessage /\ peer' = peer
        /\ inbox # <<>> /\ inbox' = Tail(inbox)
        /\ hand' = IF Head(inbox).rid \in pending THEN Head(inbox) ELSE NoMessage
    BY <1>3 DEF IoReceive, IoAt, RouteInv, TypeOK, ReadyOK
  <2>2. CASE Told(c)
    BY <1>1, <2>2
  <2>3. CASE ~Told(c)
    <3>1. PICK i \in 1..Len(inbox) : inbox[i].rid = c /\ inbox[i].kind \in AckKinds
      BY <2>1, <2>3, InboxTypes DEF ReportInv, AckComes
    <3>2. CASE i = 1
      <4>1. c \in pending
        BY <1>0, <2>1, <2>3 DEF RouteInv, Serving, Registered, RequestInv, Told,
           Early, CallerTypeOK, Acknowledged
      <4>2. QED
        BY <2>1, <3>1, <3>2, <4>1, InboxTypes DEF AckComes
    <3>3. CASE i # 1
      <4>1. i - 1 \in 1..Len(inbox') /\ inbox'[i - 1] = inbox[i]
        BY <2>1, <3>3, InboxTypes
      <4>2. QED
        BY <3>1, <4>1 DEF AckComes
    <3>4. QED
      BY <3>2, <3>3
  <2>4. QED
    BY <2>2, <2>3
<1>4. CASE IoAck \/ IoBadAck \/ IoPayload \/ IoInvalidReply
  <2>1. /\ hand.rid \in Calls /\ inbox' = inbox /\ peer' = peer
        /\ hand' = NoMessage
    BY <1>0, <1>4, RoutedMessage DEF IoAck, IoBadAck, IoPayload,
       IoInvalidReply, Routed, peerVars
  <2>2. hand.rid = c /\ hand.kind \in AckKinds => Told(c)'
    BY <1>0, <1>4, <2>1 DEF IoAck, IoBadAck, IoPayload, IoInvalidReply, Routed,
       Told, PendingTypeOK
  <2>3. QED
    BY <1>1, <2>1, <2>2 DEF ReportInv, AckComes
<1>5. ASSUME NEW d \in Calls, NEW from, NEW to, NEW kind,
             PeerSends(d, from, to, kind),
             kind \in AckKinds \/ from \in Acknowledged
      PROVE  Told(c)' \/ AckComes(c)'
  <2>1. /\ Len(inbox') = Len(inbox) + 1
        /\ \A i \in 1..Len(inbox) : inbox'[i] = inbox[i]
        /\ inbox'[Len(inbox) + 1].rid = d
        /\ inbox'[Len(inbox) + 1].kind = kind
        /\ hand' = hand /\ peer[d] = from
    BY <1>5, PeerAppends
  <2>2. CASE peer[c] \in Acknowledged
    BY <1>1, <2>1, <2>2, InboxTypes DEF ReportInv, AckComes
  <2>3. CASE peer[c] \notin Acknowledged
    <3>1. c = d
      BY <1>0, <1>5, <2>3 DEF PeerSends, PeerTypeOK
    <3>2. kind \in AckKinds /\ Len(inbox) + 1 \in 1..Len(inbox')
      BY <1>5, <2>1, <2>3, <3>1, InboxTypes
    <3>3. QED
      BY <2>1, <3>1, <3>2 DEF AckComes
  <2>4. QED
    BY <2>2, <2>3
<1>6. ASSUME NEW d \in Calls, PeerAck(d) \/ PeerReply(d)
      PROVE  Told(c)' \/ AckComes(c)'
  BY <1>5, <1>6 DEF PeerAck, PeerReply, Acknowledged
<1>7. QED
  BY <1>2, <1>3, <1>4, <1>6, MessageCases

LEMMA StepKeepsAwake ==
  ASSUME TypeOK, MessageInv, ProgressInv, OrderInv, ReportInv,
         NoSleepOnVerdict, Next
  PROVE  NoSleepOnVerdict'
<1>0. CallerTypeOK /\ PendingTypeOK /\ IoTypeOK
  BY DEF TypeOK
<1> USE DEF NoSleepOnVerdict, CallerTypeOK, PendingTypeOK, callerVars, pendingVars
<1>1. ASSUME NEW d \in Calls,
             \/ CallEnter(d) \/ CallCheck(d) \/ CallRegister(d) \/ CallSendTest(d)
             \/ CallSendTest(d) \/ CallSend(d) \/ CallAcked(d) \/ CallWaitsForAck(d)
             \/ AckDeadline(d) \/ CallReplied(d) \/ CallWaitsForReply(d)
             \/ ReplyDeadline(d)
      PROVE  NoSleepOnVerdict'
  BY <1>0, <1>1 DEF CallEnter, CallCheck, CallRegister, CallSendTest, CallSend, CallAcked,
     CallWaitsForAck, AckDeadline, CallReplied, CallWaitsForReply,
     ReplyDeadline, Goto
<1>2. ASSUME NEW d \in Calls,
             \/ CallRefused(d) \/ CallSendThrows(d) \/ CallFails(d)
             \/ CallAckTimeout(d) \/ CallReplyTimeout(d) \/ CallReturn(d)
      PROVE  NoSleepOnVerdict'
  BY <1>0, <1>2 DEF CallRefused, CallSendThrows, CallFails, CallAckTimeout,
     CallReplyTimeout, CallReturn, Leave, Goto
<1>3. ASSUME NEW d \in Calls,
             SpuriousWakeup(d) \/ IoFailOne(d) \/ CloseFailOne(d)
      PROVE  NoSleepOnVerdict'
  BY <1>0, <1>3 DEF SpuriousWakeup, IoFailOne, CloseFailOne, FailOne, Woken
<1>4. CASE IoAck \/ IoPayload
  BY <1>0, <1>4, RoutedMessage DEF IoAck, IoPayload, NotifyAck, NotifyReply, Woken
<1>5. CASE IoBadAck
  <2>1. hand.rid \in Calls /\ hand.kind = "badAck"
    BY <1>0, <1>5, RoutedMessage DEF IoBadAck, Routed
  <2>2. hand \in Message
    BY <1>0, <2>1 DEF IoTypeOK, NoMessage
  <2>3. hand.kind \in AckKinds \cup ReplyKinds
    BY <2>2 DEF Message
  <2>4. call[hand.rid] # "replyWait"
    BY <2>1, <2>3 DEF OrderInv, ProgressInv
  <2>5. QED
    BY <1>0, <1>5, <2>1, <2>4 DEF IoBadAck, NotifyAck, Woken
<1>6. CASE IoInvalidReply
  <2>1. /\ hand.rid \in Calls /\ hand.kind = "invalid" /\ hand # NoMessage
    BY <1>0, <1>6, RoutedMessage DEF IoInvalidReply, Routed, NoMessage
  <2>2. peer[hand.rid] \in Acknowledged
    BY <2>1 DEF MessageInv, Genuine
  <2>3. Told(hand.rid)
    BY <2>1, <2>2 DEF ReportInv, AckComes, OrderInv
  <2>4. call[hand.rid] # "ackWait"
    BY <2>1, <2>3 DEF Told
  <2>5. QED
    BY <1>0, <1>6, <2>1, <2>4 DEF IoInvalidReply, NotifyReply, Woken
<1>7. ASSUME NEW d \in Calls, PeerAck(d) \/ PeerAckLost(d) \/ PeerReply(d)
      PROVE  NoSleepOnVerdict'
  BY <1>7 DEF PeerAck, PeerAckLost, PeerReply, PeerSends
<1>8. CASE \/ IoPoll \/ IoPollFails \/ IoCtrlFails \/ IoReceiveFails
           \/ IoCloseSentinel \/ IoTake \/ IoForward \/ IoSendFails \/ IoReceive
           \/ IoSwap \/ IoFailedAll
  BY <1>8 DEF IoPoll, IoPollFails, IoCtrlFails, IoReceiveFails,
     IoCloseSentinel, IoTake, IoForward, IoSendFails, IoReceive, IoSwap, IoFailedAll
<1>9. CASE \/ CloseFlag \/ CloseClosing \/ CloseSend \/ CloseSendFails
           \/ CloseSockets \/ CloseSwap \/ CloseContext
  BY <1>9 DEF CloseFlag, CloseClosing, CloseSend, CloseSendFails,
     CloseSockets, CloseSwap, CloseContext
<1>10. QED
  BY <1>1, <1>2, <1>3, <1>4, <1>5, <1>6, <1>7, <1>8, <1>9, NextCases

AwakeInv == SafeInv /\ RouteInv /\ OrderInv /\ ReportInv /\ NoSleepOnVerdict

LEMMA InitAwakeInv == Init => AwakeInv
<1> SUFFICES ASSUME Init
             PROVE  AwakeInv
  OBVIOUS
<1>1. 1..Len(inbox) = {} /\ hand.kind \notin AckKinds
  BY DEF Init, NoMessage
<1>2. OrderInv
  BY <1>1 DEF OrderInv
<1>3. RouteInv /\ ReportInv /\ NoSleepOnVerdict
  BY DEF Init, RouteInv, Registered, ReportInv, Acknowledged, NoSleepOnVerdict
<1>4. QED
  BY <1>2, <1>3, InitSafeInv DEF AwakeInv

LEMMA StepKeepsAwakeInv ==
  ASSUME ~AcksGetLost, AwakeInv, [Next]_vars
  PROVE  AwakeInv'
<1>1. SafeInv'
  BY StepKeepsSafeInv DEF AwakeInv
<1>2. CASE UNCHANGED vars
  BY <1>1, <1>2 DEF AwakeInv, RouteInv, OrderInv, ReportInv, Told, AckComes,
     NoSleepOnVerdict, vars, callerVars, pendingVars, ioVars, closeVars, peerVars
<1>3. CASE Next
  <2>1. RouteInv' /\ ReportInv'
    BY <1>3, StepKeepsRoute, StepKeepsReports DEF AwakeInv, SafeInv
  <2>2. OrderInv' /\ NoSleepOnVerdict'
    BY <1>3, StepKeepsOrder, StepKeepsAwake DEF AwakeInv, SafeInv
  <2>3. QED
    BY <1>1, <2>1, <2>2 DEF AwakeInv
<1>4. QED
  BY <1>2, <1>3

\* When acks do not get lost, no call sleeps on an acknowledgement, a reply or
\* an error that is there, although an invalid one wakes only half of those
\* who may wait for it.
THEOREM NobodySleepsOnVerdict ==
  ASSUME ~AcksGetLost
  PROVE  Spec => []NoSleepOnVerdict
<1>1. AwakeInv /\ [Next]_vars => AwakeInv'
  BY StepKeepsAwakeInv
<1>2. AwakeInv => NoSleepOnVerdict
  BY DEF AwakeInv
<1>3. QED
  BY <1>1, <1>2, InitAwakeInv, PTL DEF Spec
=============================================================================
