------------------------- MODULE StreamWriterProofs -------------------------
(***************************************************************************)
(* Theorems about StreamWriter, for every number of writers and closers,   *)
(* every queue size and every number of frames.                            *)
(***************************************************************************)
EXTENDS StreamWriter, TLAPS

USE QueueAssumption, FramesAssumption

\* The steps of Next, one disjunct per action, as the proofs go through them.
LEMMA NextCases ==
  ASSUME Next
  PROVE  \/ \E w \in Writers :
              \/ WriteEnter(w) \/ WriteCloneFails(w) \/ WriteEnqueue(w)
              \/ WriteNotify(w)
         \/ ThreadPop \/ ThreadExit \/ ThreadWillWait \/ ThreadBlock
         \/ ThreadTimeout \/ ThreadContinue \/ ThreadWritten
         \/ \E k \in Closers :
              \/ CloseExchange(k) \/ CloseRequest(k) \/ CloseNotify(k)
              \/ CloseJoin(k) \/ CloseTransport(k)
  BY DEF Next, WriteStep, ThreadStep, CloseStep

-----------------------------------------------------------------------------
(* The queue.                                                              *)

\* Pushing the next frame keeps the queue bounded and a run of the newest
\* frames, and never brings back a frame that had left it.
LEMMA PushKeepsNewest ==
  ASSUME NEW q \in Seq(Nat), NEW a \in Nat,
         NEW bound \in Nat \ {0}, Len(q) <= bound, Newest(q, a)
  PROVE  /\ Pushed(q, a + 1, bound) \in Seq(Nat)
         /\ Len(Pushed(q, a + 1, bound)) <= bound
         /\ Newest(Pushed(q, a + 1, bound), a + 1)
         /\ a - Len(q) <= a + 1 - Len(Pushed(q, a + 1, bound))
<1> DEFINE p == Pushed(q, a + 1, bound)
           n == Len(q)
           m == Len(p)
<1>1. /\ p \in Seq(Nat) /\ n \in Nat /\ m \in {n, n + 1} /\ m <= bound /\ m > 0
      /\ \A i \in 1 .. m : p[i] = IF i = m THEN a + 1 ELSE q[i + (n + 1 - m)]
  <2>1. CASE Len(q) >= bound
    <3>1. Tail(q) \in Seq(Nat) /\ Len(Tail(q)) = n - 1 /\ n > 0 /\ n = bound
      BY <2>1
    <3>2. QED
      BY <2>1, <3>1 DEF Pushed
  <2>2. CASE ~(Len(q) >= bound)
    BY <2>2 DEF Pushed
  <2>3. QED
    BY <2>1, <2>2
<1>2. ASSUME NEW i \in 1 .. m PROVE p[i] = (a + 1) - m + i
  <2>1. i < m => i + (n + 1 - m) \in 1 .. n /\ q[i + (n + 1 - m)] = a - n + (i + (n + 1 - m))
    <3> HIDE DEF p
    <3>1. QED
      BY <1>1 DEF Newest
  <2> HIDE DEF p
  <2>2. QED
    BY <1>1, <2>1
<1>3. QED
  BY <1>1, <1>2 DEF Newest

\* Taking the head of such a queue leaves such a queue.
LEMMA TakeKeepsNewest ==
  ASSUME NEW q \in Seq(Nat), NEW a \in Nat, q # <<>>, Newest(q, a)
  PROVE  /\ Tail(q) \in Seq(Nat) /\ Len(Tail(q)) = Len(q) - 1
         /\ Newest(Tail(q), a)
         /\ Head(q) = a - Len(Tail(q))
<1>1. /\ Tail(q) \in Seq(Nat) /\ Len(Tail(q)) = Len(q) - 1 /\ Len(q) \in Nat \ {0}
      /\ Head(q) = q[1]
      /\ \A i \in 1 .. Len(Tail(q)) : Tail(q)[i] = q[i + 1] /\ i + 1 \in 1 .. Len(q)
  OBVIOUS
<1>2. QED
  BY <1>1 DEF Newest

QueueInv == TypeOK /\ QueueIsNewestSuffix

\* The frames below this one have left the queue for good.
Oldest == accepted - Len(queue)

LEMMA EnqueueKeepsQueueInv ==
  ASSUME NEW w \in Writers, QueueInv, WriteEnqueue(w)
  PROVE  QueueInv' /\ Oldest <= Oldest'
<1> USE DEF QueueInv, WriteEnqueue, WriterAt, closeVars
<1>1. queue \in Seq(Nat) /\ Len(queue) <= MaxQueueSize /\ Newest(queue, accepted)
      /\ accepted \in Nat /\ last \in Nat /\ last <= accepted - Len(queue)
      /\ queue' = Pushed(queue, accepted + 1, MaxQueueSize)
  BY DEF TypeOK, QueueIsNewestSuffix
<1>2. /\ queue' \in Seq(Nat) /\ Len(queue') <= MaxQueueSize
      /\ Newest(queue', accepted + 1)
      /\ accepted - Len(queue) <= accepted + 1 - Len(queue')
  BY <1>1, PushKeepsNewest
<1>3. last' <= accepted' - Len(queue') /\ accepted' = accepted + 1 /\ last' = last
  <2>1. Len(queue) \in Int /\ Len(queue') \in Int
    BY <1>1, <1>2
  <2>2. QED
    BY <1>1, <1>2, <2>1
<1>4. QueueIsNewestSuffix'
  BY <1>2, <1>3 DEF QueueIsNewestSuffix, Newest
<1>5. TypeOK'
  BY <1>1, <1>2, <1>3 DEF TypeOK
<1>6. Oldest <= Oldest'
  <2> HIDE DEF QueueInv, WriteEnqueue
  <2>1. Len(queue) \in Int /\ Len(queue') \in Int
    BY <1>1, <1>2
  <2>2. accepted' - Len(queue') = accepted + 1 - Len(queue')
    BY <1>1, <1>3, <2>1
  <2>3. QED
    BY <1>1, <1>2, <2>1, <2>2 DEF Oldest
<1>7. QED
  BY <1>4, <1>5, <1>6 DEF QueueInv

LEMMA PopKeepsQueueInv ==
  ASSUME QueueInv, ThreadPop
  PROVE  /\ QueueInv'
         /\ last' \in (last + 1) .. accepted
         /\ last' > accepted - MaxQueueSize
<1> USE DEF QueueInv, ThreadPop, closeVars
<1>1. queue \in Seq(Nat) /\ Len(queue) <= MaxQueueSize /\ Newest(queue, accepted)
      /\ accepted \in Nat /\ last \in Nat /\ last <= accepted - Len(queue)
      /\ queue # <<>> /\ queue' = Tail(queue) /\ last' = Head(queue)
  BY DEF TypeOK, QueueIsNewestSuffix
<1>2. /\ queue' \in Seq(Nat) /\ Len(queue') = Len(queue) - 1
      /\ Newest(queue', accepted) /\ last' = accepted - Len(queue')
  BY <1>1, TakeKeepsNewest
<1>3. Len(queue) \in Nat \ {0} /\ Len(queue') \in Nat
  BY <1>1, <1>2
<1>4. /\ Len(queue') <= MaxQueueSize /\ last' \in Nat
      /\ last' \in (last + 1) .. accepted
      /\ last' > accepted - MaxQueueSize
  <2> DEFINE n == Len(queue)
             m == Len(queue')
  <2>1. /\ n \in Nat \ {0} /\ m = n - 1 /\ last' = accepted - m
        /\ accepted \in Nat /\ last \in Nat /\ last <= accepted - n
        /\ n <= MaxQueueSize
    BY <1>1, <1>2, <1>3
  <2> HIDE DEF n, m
  <2>2. /\ m <= MaxQueueSize /\ last' \in Nat
        /\ last' \in (last + 1) .. accepted
        /\ last' > accepted - MaxQueueSize
    BY <2>1
  <2>3. QED
    BY <2>2 DEF m
<1>5. QueueIsNewestSuffix'
  BY <1>2, <1>3, <1>4 DEF QueueIsNewestSuffix, Newest
<1>6. TypeOK'
  BY <1>2, <1>4 DEF TypeOK
<1>7. QED
  BY <1>4, <1>5, <1>6

LEMMA StepKeepsQueueInv == QueueInv /\ [Next]_vars => QueueInv'
<1> SUFFICES ASSUME QueueInv, [Next]_vars
             PROVE  QueueInv'
  OBVIOUS
<1> USE DEF QueueInv, TypeOK, QueueIsNewestSuffix, Newest, closeVars,
            WriterAt, ThreadAt, CloserAt
<1>1. ASSUME NEW w \in Writers, WriteEnter(w) PROVE QueueInv'
  BY <1>1 DEF WriteEnter
<1>2. ASSUME NEW w \in Writers, WriteCloneFails(w) PROVE QueueInv'
  BY <1>2 DEF WriteCloneFails
<1>3. ASSUME NEW w \in Writers, WriteEnqueue(w) PROVE QueueInv'
  BY <1>3, EnqueueKeepsQueueInv
<1>4. ASSUME NEW w \in Writers, WriteNotify(w) PROVE QueueInv'
  BY <1>4 DEF WriteNotify
<1>5. CASE ThreadPop
  BY <1>5, PopKeepsQueueInv
<1>6. CASE ThreadExit
  BY <1>6 DEF ThreadExit
<1>7. CASE ThreadWillWait
  BY <1>7 DEF ThreadWillWait
<1>8. CASE ThreadBlock
  BY <1>8 DEF ThreadBlock
<1>9. CASE ThreadTimeout
  BY <1>9 DEF ThreadTimeout
<1>10. CASE ThreadContinue
  BY <1>10 DEF ThreadContinue
<1>11. CASE ThreadWritten
  BY <1>11 DEF ThreadWritten
<1>12. ASSUME NEW k \in Closers, CloseExchange(k) PROVE QueueInv'
  BY <1>12 DEF CloseExchange
<1>13. ASSUME NEW k \in Closers, CloseRequest(k) PROVE QueueInv'
  BY <1>13 DEF CloseRequest
<1>14. ASSUME NEW k \in Closers, CloseNotify(k) PROVE QueueInv'
  BY <1>14 DEF CloseNotify
<1>15. ASSUME NEW k \in Closers, CloseJoin(k) PROVE QueueInv'
  BY <1>15 DEF CloseJoin
<1>16. ASSUME NEW k \in Closers, CloseTransport(k) PROVE QueueInv'
  BY <1>16 DEF CloseTransport
<1>17. CASE UNCHANGED vars
  BY <1>17 DEF vars
<1>18. QED
  BY <1>1, <1>2, <1>3, <1>4, <1>5, <1>6, <1>7, <1>8, <1>9, <1>10, <1>11,
     <1>12, <1>13, <1>14, <1>15, <1>16, <1>17, NextCases

LEMMA InitQueueInv == Init => QueueInv
<1> SUFFICES ASSUME Init
             PROVE  QueueInv
  OBVIOUS
<1>1. queue \in Seq(Nat) /\ Len(queue) = 0
  BY DEF Init
<1>2. TypeOK
  <2>1. writer \in [Writers -> {"idle"}] /\ closer \in [Closers -> {"idle"}]
    BY DEF Init
  <2>2. Len(queue) <= MaxQueueSize
    BY <1>1
  <2>3. QED
    BY <1>1, <2>1, <2>2 DEF Init, TypeOK
<1>3. QueueIsNewestSuffix
  BY <1>1 DEF Init, QueueIsNewestSuffix, Newest
<1>4. QED
  BY <1>2, <1>3 DEF QueueInv

\* Every variable keeps its type and the queue its bound.
THEOREM TypeCorrect == Spec => []TypeOK
<1>1. QueueInv => TypeOK
  BY DEF QueueInv
<1>2. QED
  BY <1>1, InitQueueInv, StepKeepsQueueInv, PTL DEF Spec

\* The queue holds the newest frames, in order, none of them written yet.
THEOREM QueueCorrect == Spec => []QueueIsNewestSuffix
<1>1. QueueInv => QueueIsNewestSuffix
  BY DEF QueueInv
<1>2. QED
  BY <1>1, InitQueueInv, StepKeepsQueueInv, PTL DEF Spec

\* A step of the writer is a step of the lossy FIFO, or none of its concern.
LEMMA StepRefines == QueueInv /\ [Next]_vars => [Fifo!Next]_Fifo!vars
<1> SUFFICES ASSUME QueueInv, [Next]_vars
             PROVE  [Fifo!Next]_Fifo!vars
  OBVIOUS
<1> USE DEF Fifo!vars, closeVars
<1>1. CASE ThreadPop
  BY <1>1, PopKeepsQueueInv DEF ThreadPop, Fifo!Next, Fifo!Deliver
<1>2. ASSUME NEW w \in Writers, WriteEnqueue(w) PROVE Fifo!Accept
  BY <1>2 DEF WriteEnqueue, Fifo!Accept
<1>3. ASSUME NEW w \in Writers,
             WriteEnter(w) \/ WriteCloneFails(w) \/ WriteNotify(w)
      PROVE  UNCHANGED Fifo!vars
  BY <1>3 DEF WriteEnter, WriteCloneFails, WriteNotify
<1>4. CASE \/ ThreadExit \/ ThreadWillWait \/ ThreadBlock \/ ThreadTimeout
           \/ ThreadContinue \/ ThreadWritten
  BY <1>4 DEF ThreadExit, ThreadWillWait, ThreadBlock, ThreadTimeout,
              ThreadContinue, ThreadWritten
<1>5. ASSUME NEW k \in Closers,
             \/ CloseExchange(k) \/ CloseRequest(k) \/ CloseNotify(k)
             \/ CloseJoin(k) \/ CloseTransport(k)
      PROVE  UNCHANGED Fifo!vars
  BY <1>5 DEF CloseExchange, CloseRequest, CloseNotify, CloseJoin,
              CloseTransport
<1>6. CASE UNCHANGED vars
  BY <1>6 DEF vars
<1>7. QED
  BY <1>1, <1>2, <1>3, <1>4, <1>5, <1>6, NextCases DEF Fifo!Next

\* StreamWriter implements the lossy FIFO: frames reach the transport in
\* order, at most once, each among the MaxQueueSize newest when it leaves.
THEOREM WriterIsLossyFifo == Spec => ImplementsLossyFifo
<1>1. Init => Fifo!Init
  BY DEF Init, Fifo!Init
<1>2. QED
  BY <1>1, InitQueueInv, StepKeepsQueueInv, StepRefines, PTL
     DEF Spec, ImplementsLossyFifo, Fifo!Spec
-----------------------------------------------------------------------------
(* close().                                                                *)

\* The first conjuncts say that at most one close() goes on, and that
\* closeRequested_ and due are set once, by that one.  Then: the thread exits
\* only after the request, and everything that was due has left the queue.
CloseInv ==
  /\ \A k \in Closers : closer[k] \notin {"idle", "done"} => closed
  /\ \A j, k \in Closers :
       closer[j] \notin {"idle", "done"} /\ closer[k] \notin {"idle", "done"}
         => j = k
  /\ closeRequested => closed
  /\ \A k \in Closers : closer[k] = "request" => ~closeRequested
  /\ NoWriteOnClosedTransport
  /\ thread = "exited" => closeRequested /\ due <= Oldest
  /\ due <= accepted

LEMMA StepKeepsCloseInv ==
  QueueInv /\ QueueInv' /\ CloseInv /\ [Next]_vars => CloseInv'
<1> SUFFICES ASSUME QueueInv, QueueInv', CloseInv, [Next]_vars
             PROVE  CloseInv'
  OBVIOUS
<1>0. /\ accepted \in Nat /\ due \in Nat /\ queue \in Seq(Nat)
      /\ queue' \in Seq(Nat) /\ Oldest \in Int /\ Oldest' \in Int
      /\ closer \in [Closers -> {"idle", "request", "notifyAll", "join",
                                 "transportClose", "done"}]
  BY DEF QueueInv, TypeOK, Oldest
<1> USE DEF CloseInv, NoWriteOnClosedTransport, closeVars, WriterAt, ThreadAt,
            CloserAt
<1>1. ASSUME NEW w \in Writers, WriteEnqueue(w) PROVE CloseInv'
  <2>1. Oldest <= Oldest'
    BY <1>1, EnqueueKeepsQueueInv
  <2>2. QED
    BY <1>0, <1>1, <2>1 DEF WriteEnqueue
<1>2. ASSUME NEW w \in Writers,
             WriteEnter(w) \/ WriteCloneFails(w) \/ WriteNotify(w)
      PROVE  CloseInv'
  BY <1>0, <1>2 DEF WriteEnter, WriteCloneFails, WriteNotify, Oldest
<1>3. CASE ThreadExit
  <2>1. Oldest' = accepted
    BY <1>0, <1>3 DEF ThreadExit, Oldest
  <2>2. QED
    BY <1>0, <1>3, <2>1 DEF ThreadExit
<1>4. CASE \/ ThreadPop \/ ThreadWillWait \/ ThreadBlock \/ ThreadTimeout
           \/ ThreadContinue \/ ThreadWritten
  BY <1>0, <1>4 DEF ThreadPop, ThreadWillWait, ThreadBlock, ThreadTimeout,
                    ThreadContinue, ThreadWritten, Oldest
<1>5. ASSUME NEW k \in Closers, CloseExchange(k) PROVE CloseInv'
  BY <1>0, <1>5 DEF CloseExchange, Oldest
<1>6. ASSUME NEW k \in Closers, CloseRequest(k) PROVE CloseInv'
  BY <1>0, <1>6 DEF CloseRequest, Oldest
<1>7. ASSUME NEW k \in Closers, CloseNotify(k) PROVE CloseInv'
  BY <1>0, <1>7 DEF CloseNotify, Oldest
<1>8. ASSUME NEW k \in Closers, CloseJoin(k) PROVE CloseInv'
  BY <1>0, <1>8 DEF CloseJoin, Oldest
<1>9. ASSUME NEW k \in Closers, CloseTransport(k) PROVE CloseInv'
  BY <1>0, <1>9 DEF CloseTransport, Oldest
<1>10. CASE UNCHANGED vars
  BY <1>10 DEF vars, Oldest
<1>11. QED
  BY <1>1, <1>2, <1>3, <1>4, <1>5, <1>6, <1>7, <1>8, <1>9, <1>10, NextCases

\* What the background thread owed has left the queue: the frames in it are
\* newer than all that were due.
LEMMA FlushedAtExit == QueueInv /\ CloseInv => CloseFlushes
<1> SUFFICES ASSUME QueueInv, CloseInv, thread = "exited",
                    NEW i \in 1 .. Len(queue)
             PROVE  queue[i] > due
  BY DEF CloseFlushes
<1>1. queue[i] = Oldest + i /\ due <= Oldest
  BY DEF QueueInv, QueueIsNewestSuffix, Newest, CloseInv, Oldest
<1>2. Oldest \in Int /\ due \in Nat /\ i \in Nat \ {0}
  BY DEF QueueInv, TypeOK, Oldest
<1>3. QED
  BY <1>1, <1>2

\* close() flushes: whatever was accepted before it asked the background
\* thread to stop has left the queue when that thread is gone, and only then
\* is the transport closed.
THEOREM CloseFlushesQueue ==
  Spec => [](CloseFlushes /\ NoWriteOnClosedTransport)
<1>1. Init => CloseInv
  BY DEF Init, CloseInv, NoWriteOnClosedTransport
<1>2. CloseInv => NoWriteOnClosedTransport
  BY DEF CloseInv
<1>3. QED
  BY <1>1, <1>2, InitQueueInv, StepKeepsQueueInv, StepKeepsCloseInv,
     FlushedAtExit, PTL DEF Spec
=============================================================================
