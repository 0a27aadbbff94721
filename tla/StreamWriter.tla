---------------------------- MODULE StreamWriter ----------------------------
(***************************************************************************)
(* The queue mode of magpie::StreamWriter (queueSize > 0): any number of   *)
(* threads call write(), a background thread drains a bounded queue into   *)
(* the transport, and any number of threads call close(), which lets the   *)
(* background thread drain the queue before it joins it.                   *)
(*                                                                         *)
(* Frames are the numbers 1, 2, ... in the order they enter the queue.     *)
(***************************************************************************)
EXTENDS BoundedQueue

CONSTANTS
  Writers,        \* threads that call write()
  Closers,        \* threads that call close() (the destructor is one)
  MaxQueueSize,   \* maxQueueSize_
  MaxFrames       \* bound: frames written in a behaviour

ASSUME QueueAssumption == MaxQueueSize \in Nat \ {0}
ASSUME FramesAssumption == MaxFrames \in Nat

VARIABLES
  closed,          \* closed_
  closeRequested,  \* closeRequested_
  queue,           \* queue_
  mutex,           \* "thread" while threadLoop() holds mutex_ across its wait
  writer,          \* where each thread is inside write()
  thread,          \* where the background thread is inside threadLoop()
  closer,          \* where each thread is inside close()
  transportOpen,   \* transportClose() has not run
  accepted,        \* history: frames that entered the queue
  last,            \* history: the last frame popped by the thread
  due              \* history: frames accepted when closeRequested_ was set

closeVars == <<closed, closeRequested, closer, transportOpen, due>>
vars == <<closeVars, queue, mutex, writer, thread, accepted, last>>

Init ==
  /\ closed = FALSE
  /\ closeRequested = FALSE
  /\ queue = <<>>
  /\ mutex = "free"
  /\ writer = [w \in Writers |-> "idle"]
  /\ thread = "test"
  /\ closer = [k \in Closers |-> "idle"]
  /\ transportOpen = TRUE
  /\ accepted = 0
  /\ last = 0
  /\ due = 0

WriterAt(w, from, to) ==
  /\ writer[w] = from
  /\ writer' = [writer EXCEPT ![w] = to]

ThreadAt(from, to) ==
  /\ thread = from
  /\ thread' = to

CloserAt(k, from, to) ==
  /\ closer[k] = from
  /\ closer' = [closer EXCEPT ![k] = to]

(***************************************************************************)
(* write()                                                                 *)
(***************************************************************************)

\* The unlocked check of closed_; after close() a write drops its frame.
WriteEnter(w) ==
  /\ ~closed
  /\ WriterAt(w, "idle", "clone")
  /\ UNCHANGED <<closeVars, queue, mutex, thread, accepted, last>>

\* clone() threw or returned null.
WriteCloneFails(w) ==
  /\ WriterAt(w, "clone", "idle")
  /\ UNCHANGED <<closeVars, queue, mutex, thread, accepted, last>>

WriteEnqueue(w) ==
  /\ accepted < MaxFrames
  /\ mutex = "free"
  /\ WriterAt(w, "clone", "notify")
  /\ accepted' = accepted + 1
  /\ queue' = Pushed(queue, accepted + 1, MaxQueueSize)
  /\ UNCHANGED <<closeVars, mutex, thread, last>>

\* notify_one(): only the background thread ever waits on cv_.
WriteNotify(w) ==
  /\ WriterAt(w, "notify", "idle")
  /\ thread' = IF thread = "waiting" THEN "test" ELSE thread
  /\ UNCHANGED <<closeVars, queue, mutex, accepted, last>>

(***************************************************************************)
(* threadLoop()                                                            *)
(***************************************************************************)

\* Mutants of ThreadPop: the newest frame first; queue_.size() > 1.
ThreadPopNewest ==
  /\ mutex = "free"
  /\ queue # <<>>
  /\ thread \in {"test", "expired"}
  /\ thread' = "transportWrite"
  /\ last' = queue[Len(queue)]
  /\ queue' = SubSeq(queue, 1, Len(queue) - 1)
  /\ UNCHANGED <<closeVars, mutex, writer, accepted>>

ThreadPopUnlessLast ==
  /\ mutex = "free"
  /\ Len(queue) > 1
  /\ thread \in {"test", "expired"}
  /\ thread' = "transportWrite"
  /\ last' = Head(queue)
  /\ queue' = Tail(queue)
  /\ UNCHANGED <<closeVars, mutex, writer, accepted>>

ThreadPop ==
  /\ mutex = "free"
  /\ queue # <<>>
  /\ thread \in {"test", "expired"}
  /\ thread' = "transportWrite"
  /\ last' = Head(queue)
  /\ queue' = Tail(queue)
  /\ UNCHANGED <<closeVars, mutex, writer, accepted>>

\* Mutant of ThreadExit: closeRequested_ is looked at before the queue.
ThreadExitUndrained ==
  /\ mutex = "free"
  /\ closeRequested
  /\ thread \in {"test", "expired"}
  /\ thread' = "exited"
  /\ UNCHANGED <<closeVars, queue, mutex, writer, accepted, last>>

ThreadExit ==
  /\ mutex = "free"
  /\ queue = <<>> /\ closeRequested
  /\ thread \in {"test", "expired"}
  /\ thread' = "exited"
  /\ UNCHANGED <<closeVars, queue, mutex, writer, accepted, last>>

\* The wait predicate is false; mutex_ stays held until the thread blocks.
ThreadWillWait ==
  /\ mutex = "free"
  /\ queue = <<>> /\ ~closeRequested
  /\ ThreadAt("test", "block")
  /\ mutex' = "thread"
  /\ UNCHANGED <<closeVars, queue, writer, accepted, last>>

ThreadBlock ==
  /\ ThreadAt("block", "waiting")
  /\ mutex' = "free"
  /\ UNCHANGED <<closeVars, queue, writer, accepted, last>>

\* Mutant of ThreadTimeout: wait() instead of wait_for().
ThreadNeverTimesOut == FALSE

\* The 500 ms of wait_for() are over.
ThreadTimeout ==
  /\ ThreadAt("waiting", "expired")
  /\ UNCHANGED <<closeVars, queue, mutex, writer, accepted, last>>

\* Timed out with nothing to do: the loop starts a new wait.
ThreadContinue ==
  /\ mutex = "free"
  /\ queue = <<>> /\ ~closeRequested
  /\ ThreadAt("expired", "test")
  /\ UNCHANGED <<closeVars, queue, mutex, writer, accepted, last>>

\* transportWrite() returned or threw; either way the thread goes on.
ThreadWritten ==
  /\ ThreadAt("transportWrite", "test")
  /\ UNCHANGED <<closeVars, queue, mutex, writer, accepted, last>>

(***************************************************************************)
(* close()                                                                 *)
(***************************************************************************)

\* closed_.exchange(true): only the first caller goes on.
CloseExchange(k) ==
  /\ closer[k] = "idle"
  /\ closer' = [closer EXCEPT ![k] = IF closed THEN "done" ELSE "request"]
  /\ closed' = TRUE
  /\ UNCHANGED <<closeRequested, transportOpen, due, queue, mutex, writer,
                 thread, accepted, last>>

CloseRequest(k) ==
  /\ CloserAt(k, "request", "notifyAll")
  /\ closeRequested' = TRUE
  /\ due' = accepted
  /\ UNCHANGED <<closed, transportOpen, queue, mutex, writer, thread,
                 accepted, last>>

\* notify_all(), called without mutex_: a thread about to block misses it.
CloseNotify(k) ==
  /\ CloserAt(k, "notifyAll", "join")
  /\ thread' = IF thread = "waiting" THEN "test" ELSE thread
  /\ UNCHANGED <<closed, closeRequested, transportOpen, due, queue, mutex,
                 writer, accepted, last>>

CloseJoin(k) ==
  /\ thread = "exited"
  /\ CloserAt(k, "join", "transportClose")
  /\ UNCHANGED <<closed, closeRequested, transportOpen, due, queue, mutex,
                 writer, thread, accepted, last>>

\* What transportClose() throws is logged and swallowed.
CloseTransport(k) ==
  /\ CloserAt(k, "transportClose", "done")
  /\ transportOpen' \in {FALSE, transportOpen}
  /\ UNCHANGED <<closed, closeRequested, due, queue, mutex, writer, thread,
                 accepted, last>>

(***************************************************************************)
(* Specification                                                           *)
(***************************************************************************)

WriteStep(w) ==
  \/ WriteCloneFails(w)
  \/ WriteEnqueue(w)
  \/ WriteNotify(w)

ThreadStep ==
  \/ ThreadPop
  \/ ThreadExit
  \/ ThreadWillWait
  \/ ThreadBlock
  \/ ThreadTimeout
  \/ ThreadContinue
  \/ ThreadWritten

CloseStep(k) ==
  \/ CloseRequest(k)
  \/ CloseNotify(k)
  \/ CloseJoin(k)
  \/ CloseTransport(k)

Next ==
  \/ \E w \in Writers : WriteEnter(w) \/ WriteStep(w)
  \/ ThreadStep
  \/ \E k \in Closers : CloseExchange(k) \/ CloseStep(k)

Spec == Init /\ [][Next]_vars

\* Threads that can run do run, a call that was made goes on, the wait of
\* 500 ms expires, and mutex_ is granted in the end.  Nobody is obliged to
\* call write() or close().
Fairness ==
  /\ \A w \in Writers : SF_vars(WriteStep(w))
  /\ SF_vars(ThreadStep)
  /\ \A k \in Closers : WF_vars(CloseStep(k))

FairSpec == Spec /\ Fairness

(***************************************************************************)
(* Properties                                                              *)
(***************************************************************************)

\* The values every variable takes; the queue never exceeds its bound.
TypeOK ==
  /\ closed \in BOOLEAN /\ closeRequested \in BOOLEAN
  /\ transportOpen \in BOOLEAN
  /\ queue \in Seq(Nat) /\ Len(queue) <= MaxQueueSize
  /\ mutex \in {"free", "thread"}
  /\ writer \in [Writers -> {"idle", "clone", "notify"}]
  /\ thread \in {"test", "block", "waiting", "expired", "transportWrite",
                 "exited"}
  /\ closer \in [Closers -> {"idle", "request", "notifyAll", "join",
                             "transportClose", "done"}]
  /\ accepted \in Nat /\ last \in Nat /\ due \in Nat

\* The queue holds the newest accepted frames, without a gap and in order,
\* and none of them has been handed to the transport: overflow discards the
\* oldest frame only and no frame is written twice.
QueueIsNewestSuffix ==
  /\ Newest(queue, accepted)
  /\ last <= accepted - Len(queue)

\* transportClose() never overlaps a transportWrite(): the background
\* thread, the only one that writes, is gone by then.
NoWriteOnClosedTransport ==
  \A k \in Closers :
    (closer[k] = "transportClose" \/ ~transportOpen) => thread = "exited"

\* close() flushes: once the background thread is gone, no frame accepted
\* before the close was requested is left in the queue.
CloseFlushes ==
  thread = "exited" => \A i \in 1 .. Len(queue) : queue[i] > due

\* close() returns, although its notify_all() may be missed.
CloseReturns ==
  \A k \in Closers : closer[k] # "idle" ~> closer[k] = "done"

\* As long as the background thread runs, a queued frame leaves the queue.
QueueDrains ==
  \A f \in 1 .. MaxFrames :
    (\E i \in 1 .. Len(queue) : queue[i] = f)
      ~> (thread = "exited" \/ \A i \in 1 .. Len(queue) : queue[i] # f)

\* The frames are those of a lossy FIFO of capacity MaxQueueSize.
Fifo == INSTANCE LossyFifo WITH Capacity <- MaxQueueSize

ImplementsLossyFifo == Fifo!Spec
=============================================================================
