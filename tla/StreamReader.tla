---------------------------- MODULE StreamReader ----------------------------
(***************************************************************************)
(* The queue mode of magpie::StreamReader (queueSize > 0): a background    *)
(* thread polls the transport and fills a bounded queue, any number of     *)
(* threads call read(), and any number of threads call close().            *)
(*                                                                         *)
(* The two condition-variable facts that matter are kept: a reader that    *)
(* found the queue empty still holds mutex_ until it blocks, so the fill   *)
(* thread cannot slip in between; and close() takes no mutex, so it can.   *)
(* Frames are the numbers 1, 2, ... in the order the transport returns     *)
(* them.                                                                   *)
(***************************************************************************)
EXTENDS BoundedQueue, FiniteSets

CONSTANTS
  Readers,        \* threads that call read()
  Patient,        \* the readers that pass timeoutSec < 0 (wait forever)
  Closers,        \* threads that call close() (the destructor is one)
  MaxQueueSize,   \* maxQueueSize_
  MaxFrames,      \* bound: frames the transport returns in a behaviour
  NoReader        \* mutex_ is not held by a reader about to block

ASSUME ReadersAssumption == Patient \subseteq Readers
ASSUME QueueAssumption == MaxQueueSize \in Nat \ {0}
ASSUME FramesAssumption == MaxFrames \in Nat
ASSUME NoReaderAssumption == NoReader \notin Readers

VARIABLES
  closed,          \* closed_
  closeRequested,  \* closeRequested_
  queue,           \* queue_
  mutex,           \* the reader that holds mutex_ across its wait, if any
  reader,          \* where each thread is inside read()
  thread,          \* where the background thread is inside threadLoop()
  closer,          \* where each thread is inside close()
  transportOpen,   \* transportClose() has not run
  arrived,         \* frames the transport has returned
  accepted,        \* history: frames pushed on the queue
  last             \* history: the last frame a read() returned

readVars  == <<reader, mutex, last>>
fillVars  == <<thread, arrived, accepted>>
closeVars == <<closed, closeRequested, closer, transportOpen>>
vars      == <<readVars, fillVars, closeVars, queue>>

Init ==
  /\ closed = FALSE
  /\ closeRequested = FALSE
  /\ queue = <<>>
  /\ mutex = NoReader
  /\ reader = [r \in Readers |-> "idle"]
  /\ thread = "loop"
  /\ closer = [k \in Closers |-> "idle"]
  /\ transportOpen = TRUE
  /\ arrived = 0
  /\ accepted = 0
  /\ last = 0

ReaderAt(r, from, to) ==
  /\ reader[r] = from
  /\ reader' = [reader EXCEPT ![r] = to]

CloserAt(k, from, to) ==
  /\ closer[k] = from
  /\ closer' = [closer EXCEPT ![k] = to]

ThreadAt(from, to) ==
  /\ thread = from
  /\ thread' = to

(***************************************************************************)
(* read()                                                                  *)
(***************************************************************************)

\* The check on entry, made without the mutex; a closed reader refuses.
ReadEnter(r) ==
  /\ ~closed
  /\ ReaderAt(r, "idle", "lock")
  /\ UNCHANGED <<mutex, last, fillVars, closeVars, queue>>

\* The reader runs its loop body with mutex_: on the first pass ("lock"),
\* after a wake-up ("lock") and after its deadline passed ("expired").
InLoop(r) ==
  /\ reader[r] \in {"lock", "expired"}
  /\ mutex = NoReader

\* Mutant of ReadTake: the newest frame first.
ReadTakeNewest(r) ==
  /\ InLoop(r)
  /\ queue # <<>>
  /\ last' = queue[Len(queue)]
  /\ queue' = SubSeq(queue, 1, Len(queue) - 1)
  /\ reader' = [reader EXCEPT ![r] = "idle"]
  /\ UNCHANGED <<mutex, fillVars, closeVars>>

ReadTake(r) ==
  /\ InLoop(r)
  /\ queue # <<>>
  /\ last' = Head(queue)
  /\ queue' = Tail(queue)
  /\ reader' = [reader EXCEPT ![r] = "idle"]
  /\ UNCHANGED <<mutex, fillVars, closeVars>>

ReadGiveUp(r) ==
  /\ InLoop(r)
  /\ queue = <<>>
  /\ closed \/ closeRequested \/ reader[r] = "expired"
  /\ reader' = [reader EXCEPT ![r] = "idle"]
  /\ UNCHANGED <<mutex, last, fillVars, closeVars, queue>>

\* The wait predicate is false; mutex_ stays held until the reader blocks.
ReadWillWait(r) ==
  /\ InLoop(r)
  /\ queue = <<>>
  /\ ~closed /\ ~closeRequested
  /\ ReaderAt(r, "lock", "block")
  /\ mutex' = r
  /\ UNCHANGED <<last, fillVars, closeVars, queue>>

ReadBlock(r) ==
  /\ ReaderAt(r, "block", "waiting")
  /\ mutex' = NoReader
  /\ UNCHANGED <<last, fillVars, closeVars, queue>>

ReadTimeout(r) ==
  /\ r \notin Patient
  /\ ReaderAt(r, "waiting", "expired")
  /\ UNCHANGED <<mutex, last, fillVars, closeVars, queue>>

SpuriousWakeup(r) ==
  /\ ReaderAt(r, "waiting", "lock")
  /\ UNCHANGED <<mutex, last, fillVars, closeVars, queue>>

(***************************************************************************)
(* threadLoop()                                                            *)
(***************************************************************************)

ThreadContinue ==
  /\ ~closeRequested
  /\ ThreadAt("loop", "transportRead")
  /\ UNCHANGED <<readVars, closeVars, queue, arrived, accepted>>

ThreadExit ==
  /\ closeRequested
  /\ ThreadAt("loop", "exited")
  /\ UNCHANGED <<readVars, closeVars, queue, arrived, accepted>>

TransportFrame ==
  /\ arrived < MaxFrames
  /\ ThreadAt("transportRead", "push")
  /\ arrived' = arrived + 1
  /\ UNCHANGED <<readVars, closeVars, queue, accepted>>

\* The poll timed out, threw, or returned nothing: the loop goes on.
TransportNothing ==
  /\ ThreadAt("transportRead", "loop")
  /\ UNCHANGED <<readVars, closeVars, queue, arrived, accepted>>

\* Mutant of ThreadPush: no notification.
ThreadPushSilent ==
  /\ mutex = NoReader
  /\ ThreadAt("push", "loop")
  /\ queue' = Pushed(queue, arrived, MaxQueueSize)
  /\ accepted' = accepted + 1
  /\ UNCHANGED <<readVars, closeVars, arrived>>

ThreadPush ==
  /\ mutex = NoReader
  /\ ThreadAt("push", "notify")
  /\ queue' = Pushed(queue, arrived, MaxQueueSize)
  /\ accepted' = accepted + 1
  /\ UNCHANGED <<readVars, closeVars, arrived>>

Waiting == {r \in Readers : reader[r] = "waiting"}

\* notify_one(): wakes one of the waiting readers, if there is one.
ThreadNotify ==
  /\ ThreadAt("notify", "loop")
  /\ IF Waiting = {}
       THEN UNCHANGED reader
       ELSE \E r \in Waiting : reader' = [reader EXCEPT ![r] = "lock"]
  /\ UNCHANGED <<mutex, last, closeVars, queue, arrived, accepted>>

(***************************************************************************)
(* close()                                                                 *)
(***************************************************************************)

\* Mutant of CloseExchange: what the exchange returns is not looked at.
CloseStore(k) ==
  /\ CloserAt(k, "idle", "request")
  /\ closed' = TRUE
  /\ UNCHANGED <<readVars, fillVars, queue, closeRequested, transportOpen>>

\* closed_.exchange(true): only the first caller goes on.
CloseExchange(k) ==
  /\ closer[k] = "idle"
  /\ closer' = [closer EXCEPT ![k] = IF closed THEN "done" ELSE "request"]
  /\ closed' = TRUE
  /\ UNCHANGED <<readVars, fillVars, queue, closeRequested, transportOpen>>

CloseRequest(k) ==
  /\ CloserAt(k, "request", "notifyAll")
  /\ closeRequested' = TRUE
  /\ UNCHANGED <<readVars, fillVars, queue, closed, transportOpen>>

\* Mutant of CloseNotify: one reader is notified, not all.
CloseNotifyOne(k) ==
  /\ CloserAt(k, "notifyAll", "join")
  /\ IF Waiting = {}
       THEN UNCHANGED reader
       ELSE \E r \in Waiting : reader' = [reader EXCEPT ![r] = "lock"]
  /\ UNCHANGED <<mutex, last, fillVars, queue, closed, closeRequested,
                 transportOpen>>

\* notify_all(), called without mutex_: only readers already waiting wake.
CloseNotify(k) ==
  /\ CloserAt(k, "notifyAll", "join")
  /\ reader' = [r \in Readers |-> IF r \in Waiting THEN "lock" ELSE reader[r]]
  /\ UNCHANGED <<mutex, last, fillVars, queue, closed, closeRequested,
                 transportOpen>>

CloseJoin(k) ==
  /\ thread = "exited"
  /\ CloserAt(k, "join", "transportClose")
  /\ UNCHANGED <<readVars, fillVars, queue, closed, closeRequested,
                 transportOpen>>

\* What transportClose() throws is logged and swallowed.
CloseTransport(k) ==
  /\ CloserAt(k, "transportClose", "done")
  /\ transportOpen' \in {FALSE, transportOpen}
  /\ UNCHANGED <<readVars, fillVars, queue, closed, closeRequested>>

(***************************************************************************)
(* Specification                                                           *)
(***************************************************************************)

ReadStep(r) ==
  \/ ReadTake(r)
  \/ ReadGiveUp(r)
  \/ ReadWillWait(r)
  \/ ReadBlock(r)

ThreadStep ==
  \/ ThreadContinue
  \/ ThreadExit
  \/ TransportFrame
  \/ TransportNothing
  \/ ThreadPush
  \/ ThreadNotify

CloseStep(k) ==
  \/ CloseRequest(k)
  \/ CloseNotify(k)
  \/ CloseJoin(k)
  \/ CloseTransport(k)

Next ==
  \/ \E r \in Readers :
       ReadEnter(r) \/ ReadStep(r) \/ ReadTimeout(r) \/ SpuriousWakeup(r)
  \/ ThreadStep
  \/ \E k \in Closers : CloseExchange(k) \/ CloseStep(k)

Spec == Init /\ [][Next]_vars

\* The scheduler runs every thread that can run; nobody is obliged to call
\* read() or close(), and no wake-up comes for nothing.  A mutex that is free
\* again and again is granted to a thread that wants it in the end, hence
\* the strong fairness of the steps that lock it; the deadline of a timed
\* read is absolute, so it passes however often the reader is woken before.
Fairness ==
  /\ \A r \in Readers : SF_vars(ReadStep(r)) /\ SF_vars(ReadTimeout(r))
  /\ SF_vars(ThreadStep)
  /\ \A k \in Closers : WF_vars(CloseStep(k))

FairSpec == Spec /\ Fairness

(***************************************************************************)
(* Properties                                                              *)
(***************************************************************************)

\* The values every variable takes; the queue never exceeds its bound.
TypeOK ==
  /\ closed \in BOOLEAN /\ closeRequested \in BOOLEAN
  /\ transportOpen \in BOOLEAN
  /\ queue \in Seq(Nat) /\ Len(queue) <= MaxQueueSize
  /\ mutex \in Readers \cup {NoReader}
  /\ reader \in [Readers -> {"idle", "lock", "block", "waiting", "expired"}]
  /\ thread \in {"loop", "transportRead", "push", "notify", "exited"}
  /\ closer \in [Closers -> {"idle", "request", "notifyAll", "join",
                             "transportClose", "done"}]
  /\ arrived \in Nat /\ accepted \in Nat /\ last \in Nat

\* The queue holds the newest accepted frames, without a gap and in order,
\* and nothing in it has been returned by a read(): overflow discards the
\* oldest frame only and no frame is returned twice.
QueueIsNewestSuffix ==
  /\ Newest(queue, accepted)
  /\ last <= accepted - Len(queue)

\* Several close() calls may race, or follow one another: one of them notifies,
\* joins the thread and closes the transport, and once it has, none ever does
\* so again, not even a call that began before.
OneCloserProceeds ==
  /\ \A j, k \in Closers :
       closer[j] \notin {"idle", "done"} /\ closer[k] \notin {"idle", "done"} => j = k
  /\ ~transportOpen => \A k \in Closers : closer[k] \in {"idle", "done"}

\* A read() with a finite timeout returns, however often others take the frame
\* it is woken for; a patient one returns when it sleeps by the time close()
\* notifies; and every close() returns, the one that joins the thread too.
CallsReturn ==
  /\ \A r \in Readers :
       (reader[r] = "waiting" /\ \E k \in Closers : closer[k] = "notifyAll")
         ~> reader[r] = "idle"
  /\ \A r \in Readers \ Patient : reader[r] # "idle" ~> reader[r] = "idle"
  /\ \A k \in Closers : closer[k] # "idle" ~> closer[k] = "done"

\* A reader is not left asleep beside a frame it could have.
SleeperIsServed ==
  \A r \in Readers :
    (reader[r] = "waiting" /\ queue # <<>>)
      ~> (reader[r] # "waiting" \/ queue = <<>>)

\* The frames are those of a lossy FIFO of capacity MaxQueueSize.
Fifo == INSTANCE LossyFifo WITH Capacity <- MaxQueueSize

ImplementsLossyFifo == Fifo!Spec
=============================================================================
