------------------------- MODULE StreamReaderProofs -------------------------
(***************************************************************************)
(* Theorems about StreamReader, for every number of readers and closers,   *)
(* every queue size and every number of frames.                            *)
(***************************************************************************)
EXTENDS StreamReader, TLAPS

USE QueueAssumption, FramesAssumption, NoReaderAssumption

\* The steps of Next, one disjunct per action, as the proofs go through them.
LEMMA NextCases ==
  ASSUME Next
  PROVE  \/ \E r \in Readers :
              \/ ReadEnter(r) \/ ReadTake(r) \/ ReadGiveUp(r)
              \/ ReadWillWait(r) \/ ReadBlock(r) \/ ReadTimeout(r)
              \/ SpuriousWakeup(r)
         \/ ThreadContinue \/ ThreadExit \/ TransportFrame
         \/ TransportNothing \/ ThreadPush \/ ThreadNotify
         \/ \E k \in Closers :
              \/ CloseExchange(k) \/ CloseRequest(k) \/ CloseNotify(k)
              \/ CloseJoin(k) \/ CloseTransport(k)
  BY DEF Next, ReadStep, ThreadStep, CloseStep

-----------------------------------------------------------------------------
(* The queue.                                                              *)

\* Pushing the next frame keeps the queue bounded and a run of the newest
\* frames, and never brings back a frame that had left it.
LEMMA PushKeepsNewest ==
  ASSUME NEW q \in Seq(Nat), NEW a \in Nat,
         NEW bound \in Nat \ {0}, Len(q) <= bound, Newest(q, a)
  PROVE  /\ Pushed(q, a + 1, bound) \in Seq(Nat)
         /\ Len(Pushed(q, a + 1, bound)) <= bound
         /\ Newest(Pushed(q, a + 1, bound), a + 1)
         /\ a - Len(q) <= a + 1 - Len(Pushed(q, a + 1, bound))
<1> DEFINE p == Pushed(q, a + 1, bound)
           n == Len(q)
           m == Len(p)
<1>1. /\ p \in Seq(Nat) /\ n \in Nat /\ m \in {n, n + 1} /\ m <= bound /\ m > 0
      /\ \A i \in 1 .. m : p[i] = IF i = m THEN a + 1 ELSE q[i + (n + 1 - m)]
  <2>1. CASE Len(q) >= bound
    <3>1. Tail(q) \in Seq(Nat) /\ Len(Tail(q)) = n - 1 /\ n > 0 /\ n = bound
      BY <2>1
    <3>2. QED
      BY <2>1, <3>1 DEF Pushed
  <2>2. CASE ~(Len(q) >= bound)
    BY <2>2 DEF Pushed
  <2>3. QED
    BY <2>1, <2>2
<1>2. ASSUME NEW i \in 1 .. m PROVE p[i] = (a + 1) - m + i
  <2>1. i < m => i + (n + 1 - m) \in 1 .. n /\ q[i + (n + 1 - m)] = a - n + (i + (n + 1 - m))
    <3> HIDE DEF p
    <3>1. QED
      BY <1>1 DEF Newest
  <2> HIDE DEF p
  <2>2. QED
    BY <1>1, <2>1
<1>3. QED
  BY <1>1, <1>2 DEF Newest

\* Taking the head of such a queue leaves such a queue.
LEMMA TakeKeepsNewest ==
  ASSUME NEW q \in Seq(Nat), NEW a \in Nat, q # <<>>, Newest(q, a)
  PROVE  /\ Tail(q) \in Seq(Nat) /\ Len(Tail(q)) = Len(q) - 1
         /\ Newest(Tail(q), a)
         /\ Head(q) = a - Len(Tail(q))
<1>1. /\ Tail(q) \in Seq(Nat) /\ Len(Tail(q)) = Len(q) - 1 /\ Len(q) \in Nat \ {0}
      /\ Head(q) = q[1]
      /\ \A i \in 1 .. Len(Tail(q)) : Tail(q)[i] = q[i + 1] /\ i + 1 \in 1 .. Len(q)
  OBVIOUS
<1>2. QED
  BY <1>1 DEF Newest

\* The frame the transport returned last is the one being pushed, or the
\* last one pushed; with it, QueueIsNewestSuffix is inductive.
QueueInv ==
  /\ TypeOK
  /\ QueueIsNewestSuffix
  /\ arrived = IF thread = "push" THEN accepted + 1 ELSE accepted

\* The three steps that touch the queue or the counters.
LEMMA PushKeepsQueueInv == QueueInv /\ ThreadPush => QueueInv'
<1> SUFFICES ASSUME QueueInv, ThreadPush
             PROVE  QueueInv'
  OBVIOUS
<1> USE DEF QueueInv, ThreadPush, ThreadAt, readVars, closeVars
<1>1. arrived = accepted + 1 /\ queue' = Pushed(queue, accepted + 1, MaxQueueSize)
  OBVIOUS
<1>2. queue \in Seq(Nat) /\ Len(queue) <= MaxQueueSize /\ Newest(queue, accepted)
      /\ accepted \in Nat /\ last \in Nat /\ last <= accepted - Len(queue)
  BY DEF TypeOK, QueueIsNewestSuffix
<1>3. /\ queue' \in Seq(Nat) /\ Len(queue') <= MaxQueueSize
      /\ Newest(queue', accepted + 1)
      /\ accepted - Len(queue) <= accepted + 1 - Len(queue')
  BY <1>1, <1>2, PushKeepsNewest
<1>4. last' <= accepted' - Len(queue') /\ accepted' = accepted + 1 /\ last' = last
  <2>1. Len(queue) \in Int /\ Len(queue') \in Int
    BY <1>2, <1>3
  <2>2. QED
    BY <1>2, <1>3, <2>1
<1>5. QueueIsNewestSuffix'
  BY <1>3, <1>4 DEF QueueIsNewestSuffix, Newest
<1>6. TypeOK'
  BY <1>2, <1>3, <1>4 DEF TypeOK
<1>7. QED
  BY <1>1, <1>4, <1>5, <1>6

LEMMA TakeKeepsQueueInv ==
  ASSUME NEW r \in Readers, QueueInv, ReadTake(r)
  PROVE  /\ QueueInv'
         /\ last' \in (last + 1) .. accepted
         /\ last' > accepted - MaxQueueSize
<1> USE DEF QueueInv, ReadTake, InLoop, fillVars, closeVars
<1>1. queue \in Seq(Nat) /\ Len(queue) <= MaxQueueSize /\ Newest(queue, accepted)
      /\ accepted \in Nat /\ last \in Nat /\ last <= accepted - Len(queue)
      /\ queue # <<>> /\ queue' = Tail(queue) /\ last' = Head(queue)
  BY DEF TypeOK, QueueIsNewestSuffix
<1>2. /\ queue' \in Seq(Nat) /\ Len(queue') = Len(queue) - 1
      /\ Newest(queue', accepted) /\ last' = accepted - Len(queue')
  BY <1>1, TakeKeepsNewest
<1>3. Len(queue) \in Nat \ {0} /\ Len(queue') \in Nat
  BY <1>1, <1>2
<1>4. /\ Len(queue') <= MaxQueueSize /\ last' \in Nat
      /\ last' \in (last + 1) .. accepted
      /\ last' > accepted - MaxQueueSize
  <2> DEFINE n == Len(queue)
             m == Len(queue')
  <2>1. /\ n \in Nat \ {0} /\ m = n - 1 /\ last' = accepted - m
        /\ accepted \in Nat /\ last \in Nat /\ last <= accepted - n
        /\ n <= MaxQueueSize
    BY <1>1, <1>2, <1>3
  <2> HIDE DEF n, m
  <2>2. /\ m <= MaxQueueSize /\ last' \in Nat
        /\ last' \in (last + 1) .. accepted
        /\ last' > accepted - MaxQueueSize
    BY <2>1
  <2>3. QED
    BY <2>2 DEF m
<1>5. QueueIsNewestSuffix'
  BY <1>2, <1>3, <1>4 DEF QueueIsNewestSuffix, Newest
<1>6. TypeOK'
  BY <1>2, <1>4 DEF TypeOK
<1>7. QED
  BY <1>4, <1>5, <1>6

\* Every other step leaves the queue and its counters alone.
LEMMA StepKeepsQueueInv == QueueInv /\ [Next]_vars => QueueInv'
<1> SUFFICES ASSUME QueueInv, [Next]_vars
             PROVE  QueueInv'
  OBVIOUS
<1> USE DEF QueueInv, TypeOK, QueueIsNewestSuffix, Newest, readVars,
            fillVars, closeVars, ReaderAt, ThreadAt, CloserAt
<1>1. ASSUME NEW r \in Readers, ReadEnter(r) PROVE QueueInv'
  BY <1>1 DEF ReadEnter
<1>2. ASSUME NEW r \in Readers, ReadTake(r) PROVE QueueInv'
  BY <1>2, TakeKeepsQueueInv
<1>3. ASSUME NEW r \in Readers, ReadGiveUp(r) PROVE QueueInv'
  BY <1>3 DEF ReadGiveUp, InLoop
<1>4. ASSUME NEW r \in Readers, ReadWillWait(r) PROVE QueueInv'
  BY <1>4 DEF ReadWillWait, InLoop
<1>5. ASSUME NEW r \in Readers, ReadBlock(r) PROVE QueueInv'
  BY <1>5 DEF ReadBlock
<1>6. ASSUME NEW r \in Readers, ReadTimeout(r) PROVE QueueInv'
  BY <1>6 DEF ReadTimeout
<1>7. ASSUME NEW r \in Readers, SpuriousWakeup(r) PROVE QueueInv'
  BY <1>7 DEF SpuriousWakeup
<1>8. CASE ThreadContinue
  BY <1>8 DEF ThreadContinue
<1>9. CASE ThreadExit
  BY <1>9 DEF ThreadExit
<1>10. CASE TransportFrame
  BY <1>10 DEF TransportFrame
<1>11. CASE TransportNothing
  BY <1>11 DEF TransportNothing
<1>12. CASE ThreadPush
  BY <1>12, PushKeepsQueueInv
<1>13. CASE ThreadNotify
  BY <1>13 DEF ThreadNotify, Waiting
<1>14. ASSUME NEW k \in Closers, CloseExchange(k) PROVE QueueInv'
  BY <1>14 DEF CloseExchange
<1>15. ASSUME NEW k \in Closers, CloseRequest(k) PROVE QueueInv'
  BY <1>15 DEF CloseRequest
<1>16. ASSUME NEW k \in Closers, CloseNotify(k) PROVE QueueInv'
  BY <1>16 DEF CloseNotify, Waiting
<1>17. ASSUME NEW k \in Closers, CloseJoin(k) PROVE QueueInv'
  BY <1>17 DEF CloseJoin
<1>18. ASSUME NEW k \in Closers, CloseTransport(k) PROVE QueueInv'
  BY <1>18 DEF CloseTransport
<1>19. CASE UNCHANGED vars
  BY <1>19 DEF vars
<1>20. QED
  BY <1>1, <1>2, <1>3, <1>4, <1>5, <1>6, <1>7, <1>8, <1>9, <1>10, <1>11,
     <1>12, <1>13, <1>14, <1>15, <1>16, <1>17, <1>18, <1>19, NextCases

LEMMA InitQueueInv == Init => QueueInv
<1> SUFFICES ASSUME Init
             PROVE  QueueInv
  OBVIOUS
<1>1. queue \in Seq(Nat) /\ Len(queue) = 0
  BY DEF Init
<1>2. TypeOK
  <2>1. reader \in [Readers -> {"idle"}] /\ closer \in [Closers -> {"idle"}]
    BY DEF Init
  <2>2. Len(queue) <= MaxQueueSize
    BY <1>1
  <2>3. QED
    BY <1>1, <2>1, <2>2 DEF Init, TypeOK
<1>3. QueueIsNewestSuffix
  BY <1>1 DEF Init, QueueIsNewestSuffix, Newest
<1>4. QED
  BY <1>2, <1>3 DEF Init, QueueInv

\* Every variable keeps its type and the queue its bound.
THEOREM TypeCorrect == Spec => []TypeOK
<1>1. QueueInv => TypeOK
  BY DEF QueueInv
<1>2. QED
  BY <1>1, InitQueueInv, StepKeepsQueueInv, PTL DEF Spec

\* The queue holds the newest frames, in order, none of them returned yet.
THEOREM QueueCorrect == Spec => []QueueIsNewestSuffix
<1>1. QueueInv => QueueIsNewestSuffix
  BY DEF QueueInv
<1>2. QED
  BY <1>1, InitQueueInv, StepKeepsQueueInv, PTL DEF Spec

\* A step of the reader is a step of the lossy FIFO, or none of its concern.
LEMMA StepRefines == QueueInv /\ [Next]_vars => [Fifo!Next]_Fifo!vars
<1> SUFFICES ASSUME QueueInv, [Next]_vars
             PROVE  [Fifo!Next]_Fifo!vars
  OBVIOUS
<1> USE DEF Fifo!vars, readVars, fillVars, closeVars
<1>1. ASSUME NEW r \in Readers, ReadTake(r) PROVE Fifo!Deliver
  <2>1. last' \in (last + 1) .. accepted /\ last' > accepted - MaxQueueSize
    BY <1>1, TakeKeepsQueueInv
  <2>2. UNCHANGED accepted
    BY <1>1 DEF ReadTake
  <2>3. QED
    BY <2>1, <2>2 DEF Fifo!Deliver
<1>2. CASE ThreadPush
  BY <1>2 DEF ThreadPush, Fifo!Next, Fifo!Accept
<1>3. ASSUME NEW r \in Readers,
             \/ ReadEnter(r) \/ ReadGiveUp(r) \/ ReadWillWait(r)
             \/ ReadBlock(r) \/ ReadTimeout(r) \/ SpuriousWakeup(r)
      PROVE  UNCHANGED Fifo!vars
  BY <1>3 DEF ReadEnter, ReadGiveUp, ReadWillWait, ReadBlock, ReadTimeout,
              SpuriousWakeup
<1>4. CASE \/ ThreadContinue \/ ThreadExit \/ TransportFrame
           \/ TransportNothing \/ ThreadNotify
  BY <1>4 DEF ThreadContinue, ThreadExit, TransportFrame, TransportNothing,
              ThreadNotify
<1>5. ASSUME NEW k \in Closers,
             \/ CloseExchange(k) \/ CloseRequest(k) \/ CloseNotify(k)
             \/ CloseJoin(k) \/ CloseTransport(k)
      PROVE  UNCHANGED Fifo!vars
  BY <1>5 DEF CloseExchange, CloseRequest, CloseNotify, CloseJoin,
              CloseTransport
<1>6. CASE UNCHANGED vars
  BY <1>6 DEF vars
<1>7. QED
  BY <1>1, <1>2, <1>3, <1>4, <1>5, <1>6, NextCases DEF Fifo!Next

\* StreamReader implements the lossy FIFO: frames come out in order, at most
\* once, and each is one of the MaxQueueSize newest when it comes out.
THEOREM ReaderIsLossyFifo == Spec => ImplementsLossyFifo
<1>1. Init => Fifo!Init
  BY DEF Init, Fifo!Init
<1>2. QED
  BY <1>1, InitQueueInv, StepKeepsQueueInv, StepRefines, PTL
     DEF Spec, ImplementsLossyFifo, Fifo!Spec

-----------------------------------------------------------------------------
(* close().                                                                *)

\* What holds of the closers: a closer past the exchange owes closed_ to it,
\* only one is, and the transport is closed after it.
CloseInv ==
  /\ closer \in [Closers -> {"idle", "request", "notifyAll", "join",
                             "transportClose", "done"}]
  /\ \A k \in Closers : closer[k] \notin {"idle", "done"} => closed
  /\ OneCloserProceeds
  /\ transportOpen \/ closed

LEMMA StepKeepsCloseInv == CloseInv /\ [Next]_vars => CloseInv'
<1> SUFFICES ASSUME CloseInv, [Next]_vars
             PROVE  CloseInv'
  OBVIOUS
<1> USE DEF CloseInv, OneCloserProceeds, closeVars,
            fillVars, readVars, ThreadAt, CloserAt
<1>1. ASSUME NEW r \in Readers,
             \/ ReadEnter(r) \/ ReadTake(r) \/ ReadGiveUp(r)
             \/ ReadWillWait(r) \/ ReadBlock(r) \/ ReadTimeout(r)
             \/ SpuriousWakeup(r)
      PROVE  CloseInv'
  BY <1>1 DEF ReadEnter, ReadTake, ReadGiveUp, ReadWillWait, ReadBlock,
              ReadTimeout, SpuriousWakeup
<1>2. CASE \/ ThreadContinue \/ ThreadExit \/ TransportFrame
           \/ TransportNothing \/ ThreadPush \/ ThreadNotify
  BY <1>2 DEF ThreadContinue, ThreadExit, TransportFrame, TransportNothing,
              ThreadPush, ThreadNotify
<1>3. ASSUME NEW k \in Closers, CloseExchange(k) PROVE CloseInv'
  BY <1>3 DEF CloseExchange
<1>4. ASSUME NEW k \in Closers, CloseRequest(k) PROVE CloseInv'
  BY <1>4 DEF CloseRequest
<1>5. ASSUME NEW k \in Closers, CloseNotify(k) PROVE CloseInv'
  BY <1>5 DEF CloseNotify
<1>6. ASSUME NEW k \in Closers, CloseJoin(k) PROVE CloseInv'
  BY <1>6 DEF CloseJoin
<1>7. ASSUME NEW k \in Closers, CloseTransport(k) PROVE CloseInv'
  BY <1>7 DEF CloseTransport
<1>8. CASE UNCHANGED vars
  BY <1>8 DEF vars
<1>9. QED
  BY <1>1, <1>2, <1>3, <1>4, <1>5, <1>6, <1>7, <1>8, NextCases

\* However many close() calls race or follow one another, one of them joins
\* the thread and closes the transport, and none after it.
THEOREM CloseCorrect == Spec => []OneCloserProceeds
<1>1. Init => CloseInv
  BY DEF Init, CloseInv, OneCloserProceeds
<1>2. CloseInv => OneCloserProceeds
  BY DEF CloseInv
<1>3. QED
  BY <1>1, <1>2, StepKeepsCloseInv, PTL DEF Spec
=============================================================================
