----------------------------- MODULE ServerNode -----------------------------
(***************************************************************************)
(* magpie::ServerNode over a ZmqRpcResponder.  The node's thread sends the *)
(* replies that are ready, receives one request, acknowledges it and puts  *)
(* it into jobs_; a pool of workers runs the handler and puts replies into *)
(* replies_.  The lifecycle is BaseNode's, whose hooks are refined here    *)
(* into their steps: setup() spawns the pool, interrupt() closes the       *)
(* responder in the thread that calls terminate() and stops the pool, and  *)
(* cleanup() stops the pool, joins it and closes the responder.            *)
(*                                                                         *)
(* jobMtx_ is held by a worker from its test of the predicate to its wait  *)
(* (place "block"); the other sections under jobMtx_ and replyMtx_ are one *)
(* step each.  A reply and its client context are named by their request.  *)
(***************************************************************************)
EXTENDS BaseNode, Sequences, FiniteSets

CONSTANTS
  Workers,     \* the threads of the pool, maxWorkers_ of them
  Requests,    \* requests that clients may send
  IO,          \* the node's thread
  NoRequest

ASSUME PoolAssumption == Workers # {} /\ IO \notin Terminators \cup Workers
ASSUME RequestAssumption == NoRequest \notin Requests

VARIABLES
  closed,      \* RpcResponder::closed_
  socket,      \* the ROUTER socket is open
  hook,        \* where the node's thread is inside process() or cleanup(),
               \* and each terminate() inside interrupt()
  hand,        \* the request a thread works on
  stopping,    \* stopping_
  worker,      \* where each worker is inside workerLoop_()
  jobs,        \* jobs_
  replies,     \* replies_
  inbox,       \* requests that wait in the socket
  sent,        \* requests a client has sent
  tally,       \* history: how often a request was acknowledged, handled, answered
  dropped      \* history: handled requests that get no answer

Service == INSTANCE RpcService

lifeVars == vars   \* of BaseNode
poolVars == <<stopping, worker, jobs>>
netVars == <<inbox, sent, tally, dropped>>
closeVars == <<closed, socket>>
serverVars == <<closeVars, hook, hand, poolVars, replies, netVars>>
allVars == <<lifeVars, serverVars>>

ServerInit ==
  /\ Init
  /\ closed = FALSE /\ socket = TRUE
  /\ hook = [c \in Terminators \cup {IO} |-> "idle"]
  /\ hand = [t \in Workers \cup {IO} |-> NoRequest]
  /\ stopping = FALSE
  /\ worker = [w \in Workers |-> "none"]
  /\ jobs = <<>> /\ replies = <<>>
  /\ inbox = {} /\ sent = {}
  /\ Service!Init
  /\ dropped = {}

\* jobMtx_
LockFree == \A w \in Workers : worker[w] # "block"

\* notify_all() on jobCv_
AllNotified ==
  worker' = [w \in Workers |-> IF worker[w] = "asleep" THEN "test" ELSE worker[w]]

\* notify_one() on jobCv_
OneNotified ==
  IF \A w \in Workers : worker[w] # "asleep"
    THEN worker' = worker
    ELSE \E w \in Workers :
           worker[w] = "asleep" /\ worker' = [worker EXCEPT ![w] = "test"]

HookAt(c, from, to) ==
  /\ hook[c] = from
  /\ hook' = [hook EXCEPT ![c] = to]

(***************************************************************************)
(* setup(), in the thread that calls start()                               *)
(***************************************************************************)

SetupStop(s) ==
  /\ starter[s] = "setup"
  /\ \A w \in Workers : worker[w] = "none"
  /\ stopping' = FALSE
  /\ worker' = [w \in Workers |-> "due"]
  /\ UNCHANGED <<lifeVars, closeVars, hook, hand, jobs, replies, netVars>>

SetupSpawn(s, w) ==
  /\ starter[s] = "setup"
  /\ worker[w] = "due"
  /\ worker' = [worker EXCEPT ![w] = "test"]
  /\ UNCHANGED <<lifeVars, closeVars, hook, hand, stopping, jobs, replies, netVars>>

SetupEnd(s) ==
  /\ \A w \in Workers : worker[w] \notin {"none", "due"}
  /\ Setup(s)
  /\ UNCHANGED serverVars

\* A missing responder or handler, or no workers: thrown before any of it.
SetupRefused(s) ==
  /\ \A w \in Workers : worker[w] = "none"
  /\ SetupFails(s)
  /\ UNCHANGED serverVars

(***************************************************************************)
(* process(), in the node's thread                                         *)
(***************************************************************************)

InProcess == node = "process"

DrainPop ==
  /\ InProcess /\ replies # <<>>
  /\ HookAt(IO, "idle", "send")
  /\ hand' = [hand EXCEPT ![IO] = Head(replies)]
  /\ replies' = Tail(replies)
  /\ UNCHANGED <<lifeVars, closeVars, poolVars, netVars>>

SendReply ==
  /\ socket
  /\ HookAt(IO, "send", "idle")
  /\ tally' = [tally EXCEPT ![hand[IO]].answers = @ + 1]
  /\ hand' = [hand EXCEPT ![IO] = NoRequest]
  /\ UNCHANGED <<lifeVars, closeVars, poolVars, replies, inbox, sent, dropped>>

\* The socket is gone or refuses: caught and logged.
SendFails ==
  /\ HookAt(IO, "send", "idle")
  /\ dropped' = dropped \cup {hand[IO]}
  /\ hand' = [hand EXCEPT ![IO] = NoRequest]
  /\ UNCHANGED <<lifeVars, closeVars, poolVars, replies, inbox, sent, tally>>

DrainEnd ==
  /\ InProcess /\ replies = <<>>
  /\ HookAt(IO, "idle", "receive")
  /\ UNCHANGED <<lifeVars, closeVars, hand, poolVars, replies, netVars>>

\* receive() returns a request it has acknowledged.
Receive(r) ==
  /\ socket /\ r \in inbox
  /\ HookAt(IO, "receive", "dispatch")
  /\ inbox' = inbox \ {r}
  /\ tally' = [tally EXCEPT ![r].acks = @ + 1]
  /\ hand' = [hand EXCEPT ![IO] = r]
  /\ UNCHANGED <<lifeVars, closeVars, poolVars, replies, sent, dropped>>

\* A request is invalid or cannot be acknowledged: receive() throws.
ReceiveRejects(r) ==
  /\ socket /\ r \in inbox
  /\ HookAt(IO, "receive", "idle")
  /\ inbox' = inbox \ {r}
  /\ ProcessEnd
  /\ UNCHANGED <<closeVars, hand, poolVars, replies, sent, tally, dropped>>

\* Nothing came within the timeout, or the socket is closed.
ReceiveNothing ==
  /\ HookAt(IO, "receive", "idle")
  /\ ProcessEnd
  /\ UNCHANGED <<closeVars, hand, poolVars, replies, netVars>>

\* Mutant of Dispatch: the queue is replaced.
DispatchClearing ==
  /\ LockFree
  /\ HookAt(IO, "dispatch", "notify")
  /\ jobs' = <<hand[IO]>>
  /\ hand' = [hand EXCEPT ![IO] = NoRequest]
  /\ UNCHANGED <<lifeVars, closeVars, stopping, worker, replies, netVars>>

Dispatch ==
  /\ LockFree
  /\ HookAt(IO, "dispatch", "notify")
  /\ jobs' = Append(jobs, hand[IO])
  /\ hand' = [hand EXCEPT ![IO] = NoRequest]
  /\ UNCHANGED <<lifeVars, closeVars, stopping, worker, replies, netVars>>

\* Mutant of DispatchNotify: nobody is notified.
DispatchSilent ==
  /\ HookAt(IO, "notify", "idle")
  /\ ProcessEnd
  /\ UNCHANGED <<closeVars, hand, poolVars, replies, netVars>>

DispatchNotify ==
  /\ HookAt(IO, "notify", "idle")
  /\ OneNotified
  /\ ProcessEnd
  /\ UNCHANGED <<closeVars, hand, stopping, jobs, replies, netVars>>

(***************************************************************************)
(* workerLoop_()                                                           *)
(***************************************************************************)

WorkerAt(w, from, to) ==
  /\ worker[w] = from
  /\ worker' = [worker EXCEPT ![w] = to]
  /\ UNCHANGED <<lifeVars, closeVars, hook, stopping, inbox, sent>>

\* Mutant of WorkerTake: the job stays in the queue while it is handled.
WorkerPeek(w) ==
  /\ LockFree /\ jobs # <<>>
  /\ WorkerAt(w, "test", "handle")
  /\ hand' = [hand EXCEPT ![w] = Head(jobs)]
  /\ UNCHANGED <<jobs, replies, tally, dropped>>

WorkerTake(w) ==
  /\ LockFree /\ jobs # <<>>
  /\ WorkerAt(w, "test", "handle")
  /\ hand' = [hand EXCEPT ![w] = Head(jobs)]
  /\ jobs' = Tail(jobs)
  /\ UNCHANGED <<replies, tally, dropped>>

WorkerLeave(w) ==
  /\ LockFree /\ stopping /\ jobs = <<>>
  /\ WorkerAt(w, "test", "gone")
  /\ UNCHANGED <<hand, jobs, replies, tally, dropped>>

WorkerWillWait(w) ==
  /\ LockFree /\ ~stopping /\ jobs = <<>>
  /\ WorkerAt(w, "test", "block")
  /\ UNCHANGED <<hand, jobs, replies, tally, dropped>>

WorkerBlock(w) ==
  /\ WorkerAt(w, "block", "asleep")
  /\ UNCHANGED <<hand, jobs, replies, tally, dropped>>

WorkerWakesUp(w) ==
  /\ WorkerAt(w, "asleep", "test")
  /\ UNCHANGED <<hand, jobs, replies, tally, dropped>>

HandlerReturns(w) ==
  /\ WorkerAt(w, "handle", "reply")
  /\ tally' = [tally EXCEPT ![hand[w]].runs = @ + 1]
  /\ UNCHANGED <<hand, jobs, replies, dropped>>

\* The handler throws, or the schema answers null: no reply.
HandlerDrops(w) ==
  /\ WorkerAt(w, "handle", "test")
  /\ tally' = [tally EXCEPT ![hand[w]].runs = @ + 1]
  /\ dropped' = dropped \cup {hand[w]}
  /\ hand' = [hand EXCEPT ![w] = NoRequest]
  /\ UNCHANGED <<jobs, replies>>

WorkerReply(w) ==
  /\ WorkerAt(w, "reply", "test")
  /\ replies' = Append(replies, hand[w])
  /\ hand' = [hand EXCEPT ![w] = NoRequest]
  /\ UNCHANGED <<jobs, tally, dropped>>

(***************************************************************************)
(* interrupt() and cleanup(): the same steps in another order.             *)
(*   interrupt(): close, stop, wake; cleanup(): stop, wake, join, close.   *)
(***************************************************************************)

InterruptBegin(k) ==
  /\ terminator[k] = "interrupt"
  /\ HookAt(k, "idle", "close")
  /\ UNCHANGED <<lifeVars, closeVars, hand, poolVars, replies, netVars>>

CleanupBegin ==
  /\ node = "cleanup"
  /\ HookAt(IO, "idle", "stop")
  /\ UNCHANGED <<lifeVars, closeVars, hand, poolVars, replies, netVars>>

AfterClose(c) == IF c = IO THEN "over" ELSE "stop"
AfterWake(c) == IF c = IO THEN "join" ELSE "over"

\* RpcResponder::close() tests and sets a plain bool.
CloseTest(c) ==
  /\ HookAt(c, "close", IF closed THEN AfterClose(c) ELSE "mark")
  /\ UNCHANGED <<lifeVars, closeVars, hand, poolVars, replies, netVars>>

CloseMark(c) ==
  /\ HookAt(c, "mark", "closing")
  /\ closed' = TRUE
  /\ UNCHANGED <<lifeVars, socket, hand, poolVars, replies, netVars>>

CloseTransport(c) ==
  /\ HookAt(c, "closing", AfterClose(c))
  /\ socket' = FALSE
  /\ UNCHANGED <<lifeVars, closed, hand, poolVars, replies, netVars>>

\* Mutant of Stop: cleanup() leaves it to interrupt().
StopByInterrupt(c) ==
  /\ LockFree
  /\ HookAt(c, "stop", "wake")
  /\ stopping' = (stopping \/ c # IO)
  /\ UNCHANGED <<lifeVars, closeVars, hand, worker, jobs, replies, netVars>>

Stop(c) ==
  /\ LockFree
  /\ HookAt(c, "stop", "wake")
  /\ stopping' = TRUE
  /\ UNCHANGED <<lifeVars, closeVars, hand, worker, jobs, replies, netVars>>

Wake(c) ==
  /\ HookAt(c, "wake", AfterWake(c))
  /\ AllNotified
  /\ UNCHANGED <<lifeVars, closeVars, hand, stopping, jobs, replies, netVars>>

InterruptEnd(k) ==
  /\ HookAt(k, "over", "idle")
  /\ Interrupt(k)
  /\ UNCHANGED <<closeVars, hand, poolVars, replies, netVars>>

CleanupJoin ==
  /\ \A w \in Workers : worker[w] = "gone"
  /\ HookAt(IO, "join", "close")
  /\ UNCHANGED <<lifeVars, closeVars, hand, poolVars, replies, netVars>>

CleanupEnd ==
  /\ HookAt(IO, "over", "idle")
  /\ Cleanup
  /\ UNCHANGED <<closeVars, hand, poolVars, replies, netVars>>

(***************************************************************************)
(* Specification                                                           *)
(***************************************************************************)

ClientSends(r) ==
  /\ r \notin sent
  /\ sent' = sent \cup {r}
  /\ inbox' = inbox \cup {r}
  /\ UNCHANGED <<lifeVars, closeVars, hook, hand, poolVars, replies, tally, dropped>>

ServerStart(s) ==
  \/ SetupStop(s) \/ SetupEnd(s) \/ SetupRefused(s)
  \/ \E w \in Workers : SetupSpawn(s, w)
  \/ Spawn(s) /\ UNCHANGED serverVars

CloseStep(c) == CloseTest(c) \/ CloseMark(c) \/ CloseTransport(c) \/ Stop(c) \/ Wake(c)

ServerTerminate(k) ==
  \/ TerminateStep(k) /\ UNCHANGED serverVars
  \/ InterruptBegin(k) \/ CloseStep(k) \/ InterruptEnd(k)

ProcessStep ==
  \/ DrainPop \/ SendReply \/ SendFails \/ DrainEnd
  \/ \E r \in Requests : Receive(r) \/ ReceiveRejects(r)
  \/ ReceiveNothing \/ Dispatch \/ DispatchNotify

IoStep ==
  \/ (GateStep \/ Exit) /\ UNCHANGED serverVars
  \/ ProcessStep
  \/ CleanupBegin \/ CloseStep(IO) \/ CleanupJoin \/ CleanupEnd

WorkerStep(w) ==
  \/ WorkerTake(w) \/ WorkerLeave(w) \/ WorkerWillWait(w) \/ WorkerBlock(w)
  \/ HandlerReturns(w) \/ HandlerDrops(w) \/ WorkerReply(w)

\* Calls of the lifecycle that are made, and its spurious wakeup.
UserCalls ==
  /\ \/ \E s \in Starters : Start(s)
     \/ Pause
     \/ \E r \in Resumers : Resume(r) \/ ResumeNotify(r)
     \/ \E k \in Terminators : Terminate(k)
     \/ SpuriousWakeup
  /\ UNCHANGED serverVars

ServerNext ==
  \/ UserCalls
  \/ \E s \in Starters : ServerStart(s)
  \/ \E k \in Terminators : ServerTerminate(k)
  \/ IoStep
  \/ \E w \in Workers : WorkerStep(w) \/ WorkerWakesUp(w)
  \/ \E r \in Requests : ClientSends(r)

ServerSpec == ServerInit /\ [][ServerNext]_allVars

\* Threads run and handlers return.  The two mutexes are free again and
\* again: strong fairness for those who lock them.
ServerFairness ==
  /\ \A s \in Starters : WF_allVars(ServerStart(s))
  /\ \A r \in Resumers : WF_allVars(ResumeNotify(r) /\ UNCHANGED serverVars)
  /\ \A k \in Terminators : SF_allVars(ServerTerminate(k))
  /\ SF_allVars(IoStep)
  /\ \A w \in Workers : SF_allVars(WorkerStep(w))

FairServerSpec == ServerSpec /\ ServerFairness

(***************************************************************************)
(* Properties                                                              *)
(***************************************************************************)

Copies(queue, r) == Cardinality({i \in DOMAIN queue : queue[i] = r})

\* An acknowledged request is in exactly one place, a thread's hand or one
\* of the two queues, until it is answered or dropped.
AckedIsHeld ==
  \A r \in Requests :
    Cardinality({t \in Workers \cup {IO} : hand[t] = r})
      + Copies(jobs, r) + Copies(replies, r)
    = IF tally[r].acks = tally[r].answers \/ r \in dropped THEN 0 ELSE 1

\* A request is acknowledged, handled and answered at most once, in this
\* order.
ImplementsRpcService == Service!Spec

\* An acknowledged request is answered or dropped by its handler, unless the
\* node is paused or terminated.
AckedIsServed ==
  \A r \in Requests :
    tally[r].acks = 1 ~>
      tally[r].answers = 1 \/ r \in dropped \/ terminating \/ paused

=============================================================================
