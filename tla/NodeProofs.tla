----------------------------- MODULE NodeProofs -----------------------------
(***************************************************************************)
(* Theorems about BaseNode and ServerNode.  ServerNode extends BaseNode:   *)
(* the theorems about the lifecycle are stated of BaseNode's Spec, and     *)
(* hold of the server because each step of ServerNext is a step of Next or *)
(* leaves the variables of the lifecycle alone.                            *)
(*                                                                         *)
(* They hold for any number of threads that call start(), resume() and     *)
(* terminate(), any number of pauses, workers and requests.                *)
(***************************************************************************)
EXTENDS ServerNode, FiniteSetTheorems, TLAPS

USE PatientAssumption, BoundsAssumption

\* The steps of Next, one disjunct per action, as the proofs use them.
LEMMA LifeCases ==
  ASSUME Next
  PROVE  \/ \E s \in Starters : \/ Start(s) \/ Setup(s)
                                \/ SetupFails(s) \/ Spawn(s)
         \/ Pause
         \/ \E r \in Resumers : Resume(r) \/ ResumeNotify(r)
         \/ \E k \in Terminators :
              \/ Terminate(k) \/ TerminateFlag(k)
              \/ TerminateUnpause(k)
              \/ TerminateNotify(k) \/ Interrupt(k)
              \/ TerminateTest(k)
              \/ TerminateReturn(k) \/ TerminateGivesUp(k)
         \/ LoopTest \/ GateTest \/ GateBlock \/ LoopBreak
         \/ ProcessBegin
         \/ ProcessEnd \/ Cleanup \/ Exit \/ SpuriousWakeup
  BY DEF Next, StartStep, TerminateStep, NodeStep,
         GateStep

-----------------------------------------------------------------------------
(* The lifecycle: types and start().                                       *)

\* A thread inside start() owns the start: started_ is set, there is no
\* thread of the node yet, and no other call is inside.
StartInv ==
  /\ TypeOK
  /\ OneStart
  /\ \A s \in Starters : starter[s] \in {"setup", "spawn"} => started

\* Every step of a node keeps the start with whoever owns it.
LEMMA StepKeepsStartInv == StartInv /\ [Next]_vars => StartInv'
<1> SUFFICES ASSUME StartInv, [Next]_vars
             PROVE  StartInv'
  OBVIOUS
<1> USE DEF StartInv, TypeOK, OneStart, NodePlaces,
            flagVars, userVars, pauseVars,
            StarterAt, TerminatorAt, ResumerAt, NodeAt,
            Notified
<1>1. ASSUME NEW s \in Starters, Start(s) PROVE StartInv'
  BY <1>1 DEF Start
<1>2. ASSUME NEW s \in Starters, Setup(s) PROVE StartInv'
  BY <1>2 DEF Setup
<1>3. ASSUME NEW s \in Starters, SetupFails(s) PROVE StartInv'
  BY <1>3 DEF SetupFails
<1>4. ASSUME NEW s \in Starters, Spawn(s) PROVE StartInv'
  BY <1>4 DEF Spawn
<1>5. CASE Pause
  BY <1>5 DEF Pause
<1>6. ASSUME NEW r \in Resumers, Resume(r) \/ ResumeNotify(r)
      PROVE  StartInv'
  <2>1. resumer' \in [Resumers -> {"idle", "notify"}] /\ sincePause' \in Nat
    BY <1>6 DEF Resume, ResumeNotify
  <2>2. node' \in NodePlaces /\ (node' = "none" <=> node = "none")
    BY <1>6 DEF Resume, ResumeNotify
  <2>3. UNCHANGED <<started, terminating, terminated, exited, starter,
                    terminator, pauses>> /\ paused' \in BOOLEAN
    BY <1>6 DEF Resume, ResumeNotify
  <2>4. QED
    BY <2>1, <2>2, <2>3
<1>7. ASSUME NEW k \in Terminators,
             \/ Terminate(k) \/ TerminateFlag(k)
             \/ TerminateUnpause(k)
             \/ TerminateNotify(k)
      PROVE  StartInv'
  BY <1>7 DEF Terminate, TerminateFlag, TerminateUnpause,
              TerminateNotify
<1>8. ASSUME NEW k \in Terminators,
             \/ Interrupt(k) \/ TerminateTest(k)
             \/ TerminateReturn(k)
             \/ TerminateGivesUp(k)
      PROVE  StartInv'
  BY <1>8 DEF Interrupt, TerminateTest, TerminateReturn,
              TerminateGivesUp
<1>9. CASE \/ LoopTest \/ GateTest \/ GateBlock
           \/ LoopBreak \/ SpuriousWakeup
  BY <1>9 DEF LoopTest, GateTest, GateBlock, LoopBreak,
              SpuriousWakeup
<1>10. CASE ProcessBegin
  <2>1. sincePause' \in Nat
    BY <1>10 DEF ProcessBegin
  <2>2. QED
    BY <1>10, <2>1 DEF ProcessBegin
<1>11. CASE ProcessEnd \/ Cleanup \/ Exit
  BY <1>11 DEF ProcessEnd, Cleanup, Exit
<1>12. CASE UNCHANGED vars
  BY <1>12 DEF vars
<1>13. QED
  BY <1>1, <1>2, <1>3, <1>4, <1>5, <1>6, <1>7, <1>8, <1>9, <1>10, <1>11,
     <1>12, LifeCases

\* Nobody is starting a node that has just been made.
LEMMA InitStartInv == Init => StartInv
<1> SUFFICES ASSUME Init
             PROVE  StartInv
  OBVIOUS
<1> USE DEF Init
<1>1. \A s \in Starters : starter[s] = "idle"
  OBVIOUS
<1>2. pauses \in 0 .. MaxPauses /\ sincePause \in Nat
  OBVIOUS
<1>3. TypeOK
  BY <1>2 DEF TypeOK, NodePlaces
<1>4. QED
  BY <1>1, <1>3 DEF StartInv, OneStart

\* The variables keep their types, and only a started node has a thread.
THEOREM TypeCorrect == Spec => []TypeOK
<1>1. StartInv => TypeOK
  BY DEF StartInv
<1>2. QED
  BY <1>1, InitStartInv, StepKeepsStartInv, PTL DEF Spec

\* However many start() calls race, one of them runs setup() and spawns the
\* node's only thread.
THEOREM StartCorrect == Spec => []OneStart
<1>1. StartInv => OneStart
  BY DEF StartInv
<1>2. QED
  BY <1>1, InitStartInv, StepKeepsStartInv, PTL DEF Spec

-----------------------------------------------------------------------------
(* The lifecycle: terminate() and pause().                                 *)

\* The node leaves its loop, and counts as exited, only after terminating_
\* was set; a terminate() past its first step has set it.
ExitInv ==
  /\ \A k \in Terminators :
       terminator[k] \in {"unpause", "notify", "interrupt", "test", "wait"}
         => terminating
  /\ node \in {"cleanup", "exit", "gone"} => terminating
  /\ exited => terminating /\ node # "process"

\* A node that is about to call process() found itself not paused, or has
\* been paused since: then no process() has begun since that pause.
PauseInv ==
  /\ sincePause <= 1
  /\ node = "recheck" /\ paused /\ ~terminating => sincePause = 0

\* Every step keeps the order of the exit: terminate first, then leave the loop.
LEMMA StepKeepsExitInv ==
  StartInv /\ ExitInv /\ [Next]_vars => ExitInv'
<1> SUFFICES ASSUME StartInv, ExitInv, [Next]_vars
             PROVE  ExitInv'
  OBVIOUS
<1> USE DEF ExitInv, flagVars, userVars, pauseVars,
            StarterAt, TerminatorAt,
            ResumerAt, NodeAt, Notified
<1>0. /\ terminator \in [Terminators -> {"idle", "flag", "unpause", "notify",
                                         "interrupt", "test", "wait", "done"}]
      /\ terminating \in BOOLEAN /\ exited \in BOOLEAN
      /\ node # "none" => started
      /\ \A s \in Starters : starter[s] \in {"setup", "spawn"} => node = "none"
  BY DEF StartInv, TypeOK, OneStart
<1>1. ASSUME NEW s \in Starters,
             \/ Start(s) \/ Setup(s) \/ SetupFails(s)
             \/ Spawn(s)
      PROVE  ExitInv'
  BY <1>1, <1>0 DEF Start, Setup, SetupFails, Spawn
<1>2. CASE Pause
  BY <1>2 DEF Pause
<1>3. ASSUME NEW r \in Resumers, Resume(r) \/ ResumeNotify(r)
      PROVE  ExitInv'
  BY <1>3 DEF Resume, ResumeNotify
<1>4. ASSUME NEW k \in Terminators,
             \/ Terminate(k) \/ TerminateFlag(k)
             \/ TerminateUnpause(k)
             \/ TerminateNotify(k)
      PROVE  ExitInv'
  BY <1>4, <1>0 DEF Terminate, TerminateFlag, TerminateUnpause,
                    TerminateNotify
<1>5. ASSUME NEW k \in Terminators, TerminateTest(k) PROVE ExitInv'
  <2>1. terminating /\ terminating' = terminating /\ node' = node
    BY <1>5, <1>0 DEF TerminateTest
  <2>2. ~exited /\ exited' => node = "none"
    BY <1>5, <1>0 DEF TerminateTest
  <2>3. QED
    BY <2>1, <2>2, <1>0
<1>6. ASSUME NEW k \in Terminators,
             \/ Interrupt(k) \/ TerminateReturn(k)
             \/ TerminateGivesUp(k)
      PROVE  ExitInv'
  BY <1>6, <1>0 DEF Interrupt, TerminateReturn, TerminateGivesUp
<1>7. CASE \/ LoopTest \/ GateTest \/ GateBlock
           \/ LoopBreak \/ SpuriousWakeup
  BY <1>7 DEF LoopTest, GateTest, GateBlock, LoopBreak,
              SpuriousWakeup
<1>8. CASE ProcessBegin \/ ProcessEnd \/ Cleanup \/ Exit
  BY <1>8 DEF ProcessBegin, ProcessEnd, Cleanup, Exit
<1>9. CASE UNCHANGED vars
  BY <1>9 DEF vars
<1>10. QED
  BY <1>1, <1>2, <1>3, <1>4, <1>5, <1>6, <1>7, <1>8, <1>9, LifeCases

\* Every step keeps count of the process() calls since the last pause.
LEMMA StepKeepsPauseInv ==
  StartInv /\ ExitInv /\ PauseInv /\ [Next]_vars => PauseInv'
<1> SUFFICES ASSUME StartInv, ExitInv, PauseInv, [Next]_vars
             PROVE  PauseInv'
  OBVIOUS
<1> USE DEF PauseInv, flagVars, userVars, pauseVars,
            StarterAt, TerminatorAt,
            ResumerAt, NodeAt, Notified
<1>0. sincePause \in Nat /\ paused \in BOOLEAN /\ terminating \in BOOLEAN
  BY DEF StartInv, TypeOK
<1>1. ASSUME NEW s \in Starters,
             \/ Start(s) \/ Setup(s) \/ SetupFails(s)
             \/ Spawn(s)
      PROVE  PauseInv'
  BY <1>1 DEF Start, Setup, SetupFails, Spawn
<1>2. CASE Pause
  BY <1>2 DEF Pause
<1>3. ASSUME NEW r \in Resumers, Resume(r) \/ ResumeNotify(r)
      PROVE  PauseInv'
  BY <1>3 DEF Resume, ResumeNotify
<1>4. ASSUME NEW k \in Terminators,
             \/ Terminate(k) \/ TerminateFlag(k)
             \/ TerminateUnpause(k)
             \/ TerminateNotify(k)
      PROVE  PauseInv'
  BY <1>4 DEF Terminate, TerminateFlag, TerminateUnpause,
              TerminateNotify
<1>5. ASSUME NEW k \in Terminators,
             \/ Interrupt(k) \/ TerminateTest(k)
             \/ TerminateReturn(k)
             \/ TerminateGivesUp(k)
      PROVE  PauseInv'
  BY <1>5 DEF Interrupt, TerminateTest, TerminateReturn,
              TerminateGivesUp
<1>6. CASE \/ LoopTest \/ GateTest \/ GateBlock
           \/ LoopBreak \/ SpuriousWakeup
  BY <1>6, <1>0 DEF LoopTest, GateTest, GateBlock,
                    LoopBreak, SpuriousWakeup
<1>7. CASE ProcessBegin
  BY <1>7, <1>0 DEF ProcessBegin
<1>8. CASE ProcessEnd \/ Cleanup \/ Exit
  BY <1>8 DEF ProcessEnd, Cleanup, Exit
<1>9. CASE UNCHANGED vars
  BY <1>9 DEF vars
<1>10. QED
  BY <1>1, <1>2, <1>3, <1>4, <1>5, <1>6, <1>7, <1>8, <1>9, LifeCases

\* A node that counts as exited runs no process(), whichever of start() and
\* terminate() came first.
THEOREM ExitCorrect == Spec => []NothingRunsAfterExit
<1>1. Init => ExitInv
  BY DEF Init, ExitInv
<1>2. ExitInv => NothingRunsAfterExit
  BY DEF ExitInv, NothingRunsAfterExit
<1>3. QED
  BY <1>1, <1>2, InitStartInv, StepKeepsStartInv, StepKeepsExitInv, PTL
     DEF Spec

\* At most one process() begins between a pause() and the resume() that
\* follows, however they race with the loop.
THEOREM PauseCorrect == Spec => []PauseStopsProcessing
<1>1. Init => ExitInv /\ PauseInv
  BY DEF Init, ExitInv, PauseInv
<1>2. PauseInv => PauseStopsProcessing
  BY DEF PauseInv, PauseStopsProcessing
<1>3. QED
  BY <1>1, <1>2, InitStartInv, StepKeepsStartInv, StepKeepsExitInv,
     StepKeepsPauseInv, PTL DEF Spec

-----------------------------------------------------------------------------
(* The server's lifecycle is that of a BaseNode.                           *)

\* Every step of the server is a step of the lifecycle or leaves it alone.
LEMMA StepIsNodeStep == [ServerNext]_allVars => [Next]_vars
<1> SUFFICES ASSUME [ServerNext]_allVars
             PROVE  Next \/ UNCHANGED lifeVars
  BY DEF lifeVars, vars, flagVars, userVars, pauseVars
<1>1. CASE UserCalls
  BY <1>1 DEF UserCalls, Next
<1>2. ASSUME NEW s \in Starters, ServerStart(s)
      PROVE  Next \/ UNCHANGED lifeVars
  BY <1>2 DEF ServerStart, SetupStop, SetupEnd, SetupRefused, SetupSpawn,
              Next, StartStep
<1>3. ASSUME NEW k \in Terminators \cup {IO}, CloseStep(k)
      PROVE  UNCHANGED lifeVars
  BY <1>3 DEF CloseStep, CloseTest, CloseMark, CloseTransport, Stop, Wake
<1>4. ASSUME NEW k \in Terminators, ServerTerminate(k)
      PROVE  Next \/ UNCHANGED lifeVars
  BY <1>3, <1>4 DEF ServerTerminate, InterruptBegin, InterruptEnd, Next
<1>5. CASE IoStep
  <2>1. CASE ProcessStep
    BY <2>1 DEF ProcessStep, DrainPop, SendReply, SendFails, DrainEnd, Receive,
                ReceiveRejects, ReceiveNothing, Dispatch, DispatchNotify,
                Next, NodeStep
  <2>2. CASE (GateStep \/ Exit) /\ UNCHANGED serverVars
    BY <2>2 DEF Next, NodeStep
  <2>3. CASE CleanupBegin \/ CleanupJoin \/ CleanupEnd
    BY <2>3 DEF CleanupBegin, CleanupJoin, CleanupEnd, Next, NodeStep
  <2>4. QED
    BY <1>3, <1>5, <2>1, <2>2, <2>3 DEF IoStep
<1>6. ASSUME NEW w \in Workers, WorkerStep(w) \/ WorkerWakesUp(w)
      PROVE  UNCHANGED lifeVars
  BY <1>6 DEF WorkerStep, WorkerTake, WorkerLeave, WorkerWillWait, WorkerBlock,
              HandlerReturns, HandlerDrops, WorkerReply, WorkerWakesUp,
              WorkerAt
<1>7. ASSUME NEW r \in Requests, ClientSends(r)
      PROVE  UNCHANGED lifeVars
  BY <1>7 DEF ClientSends
<1>8. CASE UNCHANGED allVars
  BY <1>8 DEF allVars
<1>9. QED
  BY <1>1, <1>2, <1>4, <1>5, <1>6, <1>7, <1>8 DEF ServerNext

\* A ServerNode over its responder and its pool starts, pauses, terminates and
\* exits as a BaseNode does: setup(), process(), interrupt() and cleanup() do
\* not disturb the lifecycle they are called from.
THEOREM ServerIsNode == ServerSpec => Spec
<1>1. ServerInit => Init
  BY DEF ServerInit
<1>2. QED
  BY <1>1, StepIsNodeStep, PTL DEF ServerSpec, Spec

\* So one pool is spawned and one thread runs the server, at most one process()
\* begins after a pause(), and none runs once the server counts as exited.
THEOREM ServerLifecycle ==
  ServerSpec => [](/\ TypeOK /\ OneStart
             /\ PauseStopsProcessing /\ NothingRunsAfterExit)
<1>1. QED
  BY ServerIsNode, TypeCorrect, StartCorrect, PauseCorrect, ExitCorrect, PTL

-----------------------------------------------------------------------------
(* The server: types.                                                      *)

USE PoolAssumption, RequestAssumption

Holders == Workers \cup {IO}

HookPlaces ==
  {"idle", "send", "receive", "dispatch", "notify", "close", "mark", "closing",
   "stop", "wake", "join", "over"}

WorkerPlaces ==
  {"none", "due", "test", "block", "asleep", "handle", "reply", "gone"}

Stage(a, n, s) == [acks |-> a, runs |-> n, answers |-> s]

\* The values the server's variables take.
ServerTypes ==
  /\ closed \in BOOLEAN /\ socket \in BOOLEAN /\ stopping \in BOOLEAN
  /\ hook \in [Terminators \cup {IO} -> HookPlaces]
  /\ hand \in [Holders -> Requests \cup {NoRequest}]
  /\ worker \in [Workers -> WorkerPlaces]
  /\ jobs \in Seq(Requests) /\ replies \in Seq(Requests)
  /\ inbox \in SUBSET Requests /\ sent \in SUBSET Requests
  /\ dropped \in SUBSET Requests
  /\ tally \in [Requests -> {Stage(0, 0, 0), Stage(1, 0, 0), Stage(1, 1, 0), Stage(1, 1, 1)}]

Acked(r) == tally[r] = Stage(1, 0, 0) /\ r \notin dropped
Handled(r) == tally[r] = Stage(1, 1, 0) /\ r \notin dropped

Held(q, r) == \E i \in 1 .. Len(q) : q[i] = r

Distinct(q) == \A i, j \in 1 .. Len(q) : q[i] = q[j] => i = j

\* Who holds a request, and how far that request has come.
StageInv ==
  /\ inbox \subseteq sent
  /\ \A r \in Requests :
       /\ r \in inbox \/ r \notin sent => tally[r] = Stage(0, 0, 0) /\ r \notin dropped
       /\ Held(jobs, r) => Acked(r)
       /\ Held(replies, r) => Handled(r)
  /\ hook[IO] = "send" => hand[IO] \in Requests /\ Handled(hand[IO])
  /\ hook[IO] = "dispatch" => hand[IO] \in Requests /\ Acked(hand[IO])
  /\ hook[IO] \notin {"send", "dispatch"} => hand[IO] = NoRequest
  /\ \A w \in Workers :
       /\ worker[w] = "handle" => hand[w] \in Requests /\ Acked(hand[w])
       /\ worker[w] = "reply" => hand[w] \in Requests /\ Handled(hand[w])
       /\ worker[w] \notin {"handle", "reply"} => hand[w] = NoRequest

\* No request is in two places; that none is in both queues is due to its stage.
OnePlaceInv ==
  /\ Distinct(jobs) /\ Distinct(replies)
  /\ \A t \in Holders : hand[t] \in Requests =>
       /\ ~Held(jobs, hand[t]) /\ ~Held(replies, hand[t])
       /\ \A u \in Holders : hand[u] = hand[t] => u = t

\* What is acknowledged and neither answered nor dropped is in some place.
PlacedInv ==
  \A r \in Requests : Acked(r) \/ Handled(r) =>
    Held(jobs, r) \/ Held(replies, r) \/ \E t \in Holders : hand[t] = r

ServerInv == ServerTypes /\ StageInv /\ OnePlaceInv /\ PlacedInv

\* The steps that move no request leave everybody who holds one where he is.
Quiet ==
  /\ UNCHANGED <<hand, jobs, replies, inbox, sent, tally, dropped>>
  /\ hook' \in [Terminators \cup {IO} -> HookPlaces]
  /\ worker' \in [Workers -> WorkerPlaces]
  /\ \A p \in {"send", "dispatch"} : hook'[IO] = p <=> hook[IO] = p
  /\ \A w \in Workers : \A p \in {"handle", "reply"} :
       worker'[w] = p <=> worker[w] = p

\* A move of a hook that neither sends nor dispatches leaves the I/O thread's hands
\* as they are.
LEMMA HookSteps ==
  ASSUME ServerTypes, NEW c \in Terminators \cup {IO}, NEW from \in HookPlaces,
         NEW to \in HookPlaces, HookAt(c, from, to),
         {from, to} \cap {"send", "dispatch"} = {}
  PROVE  /\ hook' \in [Terminators \cup {IO} -> HookPlaces]
         /\ \A p \in {"send", "dispatch"} : hook'[IO] = p <=> hook[IO] = p
  BY DEF HookAt, ServerTypes

\* A step leaves every request where it is, or is one of those that move one.
LEMMA ServerCases ==
  ASSUME ServerTypes, [ServerNext]_allVars
  PROVE  \/ Quiet
         \/ DrainPop \/ SendReply \/ SendFails \/ Dispatch
         \/ \E r \in Requests : Receive(r) \/ ReceiveRejects(r) \/ ClientSends(r)
         \/ \E w \in Workers : \/ WorkerTake(w) \/ HandlerReturns(w)
                               \/ HandlerDrops(w) \/ WorkerReply(w)
<1> USE DEF netVars, poolVars, closeVars, serverVars
<1>1. CASE UserCalls
  BY <1>1 DEF UserCalls, Quiet, ServerTypes
<1>2. ASSUME NEW s \in Starters, ServerStart(s) PROVE Quiet
  <2>1. CASE SetupStop(s)
    BY <2>1 DEF SetupStop, Quiet, ServerTypes, WorkerPlaces
  <2>2. ASSUME NEW w \in Workers, SetupSpawn(s, w) PROVE Quiet
    BY <2>2 DEF SetupSpawn, Quiet, ServerTypes, WorkerPlaces
  <2>3. CASE SetupEnd(s) \/ SetupRefused(s) \/ (Spawn(s) /\ UNCHANGED serverVars)
    BY <2>3 DEF SetupEnd, SetupRefused, Quiet, ServerTypes
  <2>4. QED
    BY <1>2, <2>1, <2>2, <2>3 DEF ServerStart
<1>3. ASSUME NEW c \in Terminators \cup {IO}, CloseStep(c) PROVE Quiet
  <2> USE HookSteps DEF HookPlaces, AfterClose, AfterWake
  <2>1. CASE CloseTest(c) \/ CloseMark(c) \/ CloseTransport(c) \/ Stop(c)
    BY <2>1 DEF CloseTest, CloseMark, CloseTransport, Stop, Quiet, ServerTypes
  <2>2. CASE Wake(c)
    <3>1. /\ hook' \in [Terminators \cup {IO} -> HookPlaces]
          /\ \A p \in {"send", "dispatch"} : hook'[IO] = p <=> hook[IO] = p
      BY <2>2 DEF Wake
    <3>2. QED
      BY <2>2, <3>1 DEF Wake, AllNotified, Quiet, ServerTypes, WorkerPlaces
  <2>3. QED
    BY <1>3, <2>1, <2>2 DEF CloseStep
<1>4. ASSUME NEW k \in Terminators, ServerTerminate(k) PROVE Quiet
  <2> USE HookSteps DEF HookPlaces
  <2>1. CASE InterruptBegin(k) \/ InterruptEnd(k)
    BY <2>1 DEF InterruptBegin, InterruptEnd, Quiet, ServerTypes
  <2>2. CASE TerminateStep(k) /\ UNCHANGED serverVars
    BY <2>2 DEF Quiet, ServerTypes
  <2>3. QED
    BY <1>3, <1>4, <2>1, <2>2 DEF ServerTerminate
<1>5. CASE CleanupBegin \/ CleanupJoin \/ CleanupEnd \/ DrainEnd \/ ReceiveNothing
  BY <1>5, HookSteps
     DEF HookPlaces, CleanupBegin, CleanupJoin, CleanupEnd, DrainEnd,
         ReceiveNothing, Quiet, ServerTypes
<1>6. CASE DispatchNotify
  <2>1. /\ hook' \in [Terminators \cup {IO} -> HookPlaces]
        /\ \A p \in {"send", "dispatch"} : hook'[IO] = p <=> hook[IO] = p
    BY <1>6, HookSteps DEF DispatchNotify, HookPlaces
  <2>2. QED
    BY <1>6, <2>1 DEF DispatchNotify, OneNotified, Quiet, ServerTypes, WorkerPlaces
<1>7. ASSUME NEW w \in Workers,
             \/ WorkerLeave(w) \/ WorkerWillWait(w) \/ WorkerBlock(w)
             \/ WorkerWakesUp(w)
      PROVE  Quiet
  BY <1>7 DEF WorkerLeave, WorkerWillWait, WorkerBlock, WorkerWakesUp, WorkerAt,
              Quiet, ServerTypes, WorkerPlaces
<1>8. CASE UNCHANGED allVars
  BY <1>8 DEF allVars, Quiet, ServerTypes
<1>9. CASE (GateStep \/ Exit) /\ UNCHANGED serverVars
  BY <1>9 DEF Quiet, ServerTypes
<1>10. QED
  BY <1>1, <1>2, <1>3, <1>4, <1>5, <1>6, <1>7, <1>8, <1>9
     DEF ServerNext, IoStep, ProcessStep, WorkerStep

-----------------------------------------------------------------------------
(* The server: where a request is.                                         *)

\* A queue without its head holds the other elements.
LEMMA TailHolds ==
  ASSUME NEW S, NEW q \in Seq(S), q # <<>>, Distinct(q)
  PROVE  /\ Head(q) \in S /\ Tail(q) \in Seq(S)
         /\ Held(q, Head(q)) /\ Distinct(Tail(q))
         /\ \A r : Held(Tail(q), r) <=> Held(q, r) /\ r # Head(q)
<1>1. /\ Len(q) \in Nat \ {0} /\ Tail(q) \in Seq(S) /\ Len(Tail(q)) = Len(q) - 1
      /\ Head(q) = q[1] /\ q[1] \in S
      /\ \A i \in 1 .. (Len(q) - 1) : Tail(q)[i] = q[i + 1]
  OBVIOUS
<1>2. Held(q, Head(q))
  BY <1>1 DEF Held
<1>3. Distinct(Tail(q))
  <2> SUFFICES ASSUME NEW i \in 1 .. (Len(q) - 1), NEW j \in 1 .. (Len(q) - 1),
                      q[i + 1] = q[j + 1]
               PROVE  i = j
    BY <1>1 DEF Distinct
  <2>1. i + 1 \in 1 .. Len(q) /\ j + 1 \in 1 .. Len(q)
    BY <1>1
  <2>2. QED
    BY <2>1 DEF Distinct
<1>4. ASSUME NEW r, Held(Tail(q), r)
      PROVE  Held(q, r) /\ r # Head(q)
  <2>1. PICK i \in 1 .. (Len(q) - 1) : q[i + 1] = r
    BY <1>1, <1>4 DEF Held
  <2>2. i + 1 \in 1 .. Len(q) /\ 1 \in 1 .. Len(q) /\ i + 1 # 1
    BY <1>1
  <2>3. QED
    BY <1>1, <2>1, <2>2 DEF Held, Distinct
<1>5. ASSUME NEW r, Held(q, r), r # Head(q)
      PROVE  Held(Tail(q), r)
  <2>1. PICK i \in 1 .. Len(q) : q[i] = r
    BY <1>5 DEF Held
  <2>2. i # 1 /\ i - 1 \in 1 .. (Len(q) - 1) /\ (i - 1) + 1 = i
    BY <1>1, <1>5, <2>1
  <2>3. QED
    BY <1>1, <2>1, <2>2 DEF Held
<1>6. QED
  BY <1>1, <1>2, <1>3, <1>4, <1>5

\* A queue to which a new element is added holds that one as well.
LEMMA AppendHolds ==
  ASSUME NEW S, NEW q \in Seq(S), NEW x \in S, Distinct(q), ~Held(q, x)
  PROVE  /\ Append(q, x) \in Seq(S) /\ Distinct(Append(q, x))
         /\ \A r : Held(Append(q, x), r) <=> Held(q, r) \/ r = x
<1>1. /\ Len(q) \in Nat /\ Append(q, x) \in Seq(S) /\ Len(Append(q, x)) = Len(q) + 1
      /\ Append(q, x)[Len(q) + 1] = x
      /\ \A i \in 1 .. Len(q) : Append(q, x)[i] = q[i]
  OBVIOUS
<1>2. QED
  BY <1>1 DEF Held, Distinct

\* The flags of closing and of the pool stay flags.
LEMMA StepKeepsFlags ==
  ASSUME ServerTypes, [ServerNext]_allVars
  PROVE  closed' \in BOOLEAN /\ socket' \in BOOLEAN /\ stopping' \in BOOLEAN
<1> USE DEF ServerTypes, netVars, poolVars, closeVars, serverVars, HookAt, WorkerAt
<1>1. CASE UserCalls
  BY <1>1 DEF UserCalls
<1>2. ASSUME NEW s \in Starters, ServerStart(s) PROVE UNCHANGED closeVars /\ stopping' \in BOOLEAN
  BY <1>2 DEF ServerStart, SetupStop, SetupSpawn, SetupEnd, SetupRefused
<1>3. ASSUME NEW c \in Terminators \cup {IO}, CloseStep(c)
      PROVE  closed' \in BOOLEAN /\ socket' \in BOOLEAN /\ stopping' \in BOOLEAN
  BY <1>3 DEF CloseStep, CloseTest, CloseMark, CloseTransport, Stop, Wake
<1>4. ASSUME NEW k \in Terminators, ServerTerminate(k)
      PROVE  closed' \in BOOLEAN /\ socket' \in BOOLEAN /\ stopping' \in BOOLEAN
  BY <1>3, <1>4 DEF ServerTerminate, InterruptBegin, InterruptEnd
<1>5. CASE IoStep
  <2>1. CASE ProcessStep
    BY <2>1 DEF ProcessStep, DrainPop, SendReply, SendFails, DrainEnd, Receive,
                ReceiveRejects, ReceiveNothing, Dispatch, DispatchNotify
  <2>2. CASE CleanupBegin \/ CleanupJoin \/ CleanupEnd
    BY <2>2 DEF CleanupBegin, CleanupJoin, CleanupEnd
  <2>3. QED
    BY <1>3, <1>5, <2>1, <2>2 DEF IoStep
<1>6. ASSUME NEW w \in Workers, WorkerStep(w) \/ WorkerWakesUp(w)
      PROVE  UNCHANGED <<closeVars, stopping>>
  BY <1>6 DEF WorkerStep, WorkerTake, WorkerLeave, WorkerWillWait, WorkerBlock,
              HandlerReturns, HandlerDrops, WorkerReply, WorkerWakesUp
<1>7. ASSUME NEW r \in Requests, ClientSends(r)
      PROVE  UNCHANGED <<closeVars, stopping>>
  BY <1>7 DEF ClientSends
<1>8. CASE UNCHANGED allVars
  BY <1>8 DEF allVars
<1>9. QED
  BY <1>1, <1>2, <1>4, <1>5, <1>6, <1>7, <1>8 DEF ServerNext

\* A request that is not acknowledged, or not handled, or not answered, is told
\* apart from one that is.
LEMMA StagesDiffer ==
  /\ Stage(0, 0, 0) \notin {Stage(1, 0, 0), Stage(1, 1, 0), Stage(1, 1, 1)}
  /\ Stage(1, 0, 0) \notin {Stage(1, 1, 0), Stage(1, 1, 1)}
  /\ Stage(1, 1, 0) # Stage(1, 1, 1)
  BY DEF Stage

\* Every step keeps each request in the one place its stage says.
LEMMA StepKeepsServerInv == ServerInv /\ [ServerNext]_allVars => ServerInv'
<1> SUFFICES ASSUME ServerInv, [ServerNext]_allVars
             PROVE  ServerInv'
  OBVIOUS
<1> USE DEF ServerInv, ServerTypes, Holders, HookAt, WorkerAt, HookPlaces, WorkerPlaces,
            Acked, Handled, lifeVars, closeVars, poolVars, netVars
<1> USE StagesDiffer
<1>1. CASE Quiet
  <2>1. ServerTypes'
    <3>1. closed' \in BOOLEAN /\ socket' \in BOOLEAN /\ stopping' \in BOOLEAN
      BY StepKeepsFlags
    <3>2. QED
      BY <1>1, <3>1 DEF Quiet
  <2>2. StageInv'
    BY <1>1 DEF Quiet, StageInv
  <2>3. OnePlaceInv' /\ PlacedInv'
    BY <1>1 DEF Quiet, OnePlaceInv, PlacedInv
  <2>4. QED
    BY <2>1, <2>2, <2>3
<1>2. CASE DrainPop
  BY <1>2, TailHolds DEF DrainPop, StageInv, OnePlaceInv, PlacedInv
<1>3. CASE SendReply
  <2>1. hand[IO] \in Requests /\ Handled(hand[IO])
    BY <1>3 DEF SendReply, StageInv
  <2>2. tally' = [tally EXCEPT ![hand[IO]] = Stage(1, 1, 1)]
    <3>1. [tally[hand[IO]] EXCEPT !.answers = @ + 1] = Stage(1, 1, 1)
      BY <2>1 DEF Stage
    <3>2. QED
      BY <1>3, <3>1 DEF SendReply
  <2>3. ServerTypes'
    BY <1>3, <2>2 DEF SendReply
  <2>4. StageInv'
    BY <1>3, <2>1, <2>2 DEF SendReply, StageInv, OnePlaceInv
  <2>5. OnePlaceInv'
    BY <1>3, <2>1, <2>2 DEF SendReply, StageInv, OnePlaceInv
  <2>6. PlacedInv'
    BY <1>3, <2>1, <2>2 DEF SendReply, StageInv, PlacedInv
  <2>7. QED
    BY <2>3, <2>4, <2>5, <2>6
<1>4. CASE SendFails
  BY <1>4 DEF SendFails, StageInv, OnePlaceInv, PlacedInv
<1>5. CASE Dispatch
  BY <1>5, AppendHolds DEF Dispatch, StageInv, OnePlaceInv, PlacedInv
<1>6. ASSUME NEW r \in Requests, Receive(r) PROVE ServerInv'
  <2>1. tally[r] = Stage(0, 0, 0) /\ r \notin dropped
    BY <1>6 DEF Receive, StageInv
  <2>2. tally' = [tally EXCEPT ![r] = Stage(1, 0, 0)]
    <3>1. [tally[r] EXCEPT !.acks = @ + 1] = Stage(1, 0, 0)
      BY <2>1 DEF Stage
    <3>2. QED
      BY <1>6, <3>1 DEF Receive
  <2>3. ServerTypes'
    BY <1>6, <2>2 DEF Receive
  <2>4. StageInv'
    <3>1. /\ inbox' = inbox \ {r} /\ UNCHANGED <<jobs, replies, worker, sent, dropped>>
          /\ hook' = [hook EXCEPT ![IO] = "dispatch"] /\ hook[IO] = "receive"
          /\ hand' = [hand EXCEPT ![IO] = r] /\ r \in inbox
      BY <1>6 DEF Receive
    <3>2. \A q \in Requests : (q = r => Acked(q)') /\ (q # r => tally'[q] = tally[q])
      BY <2>1, <2>2, <3>1
    <3>3. ~Held(jobs, r) /\ ~Held(replies, r) /\ \A t \in Holders : hand[t] # r
      BY <2>1 DEF StageInv
    <3>4. \A q \in Requests :
            /\ (q \in inbox \/ q \notin sent => tally[q] = Stage(0, 0, 0) /\ q \notin dropped)'
            /\ (Held(jobs, q) => Acked(q))'
            /\ (Held(replies, q) => Handled(q))'
      <4>1. \A q \in Requests : /\ Held(jobs, q)' <=> Held(jobs, q)
                               /\ Held(replies, q)' <=> Held(replies, q)
        BY <3>1 DEF Held
      <4>2. ASSUME NEW q \in Requests, q # r
            PROVE  /\ (q \in inbox \/ q \notin sent
                          => tally[q] = Stage(0, 0, 0) /\ q \notin dropped)'
                   /\ (Held(jobs, q) => Acked(q))'
                   /\ (Held(replies, q) => Handled(q))'
        BY <3>1, <3>2, <4>1, <4>2 DEF StageInv
      <4>3. r \in sent
        BY <2>1, <3>1 DEF StageInv
      <4>4. QED
        BY <3>1, <3>2, <3>3, <4>1, <4>2, <4>3
    <3>5. \A w \in Workers : hand'[w] = hand[w]
      BY <3>1
    <3>6. QED
      <4>1. \A w \in Workers :
              /\ (worker[w] = "handle" => hand[w] \in Requests /\ Acked(hand[w]))'
              /\ (worker[w] = "reply" => hand[w] \in Requests /\ Handled(hand[w]))'
              /\ (worker[w] \notin {"handle", "reply"} => hand[w] = NoRequest)'
        BY <3>1, <3>2, <3>3, <3>5 DEF StageInv
      <4>2. hook'[IO] = "dispatch" /\ hand'[IO] = r /\ Acked(r)'
        BY <3>1, <3>2
      <4>3. QED
        BY <3>1, <3>4, <4>1, <4>2 DEF StageInv
  <2>5. OnePlaceInv'
    BY <1>6, <2>1, <2>2 DEF Receive, StageInv, OnePlaceInv
  <2>6. PlacedInv'
    BY <1>6, <2>1, <2>2 DEF Receive, StageInv, PlacedInv
  <2>7. QED
    BY <2>3, <2>4, <2>5, <2>6
<1>7. ASSUME NEW r \in Requests, ReceiveRejects(r) PROVE ServerInv'
  BY <1>7 DEF ReceiveRejects, StageInv, OnePlaceInv, PlacedInv
<1>8. ASSUME NEW r \in Requests, ClientSends(r) PROVE ServerInv'
  BY <1>8 DEF ClientSends, StageInv, OnePlaceInv, PlacedInv
<1>9. ASSUME NEW w \in Workers, WorkerTake(w) PROVE ServerInv'
  BY <1>9, TailHolds DEF WorkerTake, StageInv, OnePlaceInv, PlacedInv
<1>10. ASSUME NEW w \in Workers, HandlerReturns(w) PROVE ServerInv'
  <2>1. hand[w] \in Requests /\ Acked(hand[w]) /\ w \in Holders
    BY <1>10 DEF HandlerReturns, StageInv
  <2>2. tally' = [tally EXCEPT ![hand[w]] = Stage(1, 1, 0)]
    <3>1. [tally[hand[w]] EXCEPT !.runs = @ + 1] = Stage(1, 1, 0)
      BY <2>1 DEF Stage
    <3>2. QED
      BY <1>10, <3>1 DEF HandlerReturns
  <2>3. ServerTypes'
    BY <1>10, <2>1, <2>2 DEF HandlerReturns
  <2>4. StageInv'
    BY <1>10, <2>1, <2>2 DEF HandlerReturns, StageInv, OnePlaceInv
  <2>5. OnePlaceInv'
    BY <1>10, <2>1, <2>2 DEF HandlerReturns, StageInv, OnePlaceInv
  <2>6. PlacedInv'
    BY <1>10, <2>1, <2>2 DEF HandlerReturns, StageInv, PlacedInv
  <2>7. QED
    BY <2>3, <2>4, <2>5, <2>6
<1>11. ASSUME NEW w \in Workers, HandlerDrops(w) PROVE ServerInv'
  <2>1. hand[w] \in Requests /\ Acked(hand[w]) /\ w \in Holders
    BY <1>11 DEF HandlerDrops, StageInv
  <2>2. tally' = [tally EXCEPT ![hand[w]] = Stage(1, 1, 0)]
    <3>1. [tally[hand[w]] EXCEPT !.runs = @ + 1] = Stage(1, 1, 0)
      BY <2>1 DEF Stage
    <3>2. QED
      BY <1>11, <3>1 DEF HandlerDrops
  <2>3. ServerTypes'
    BY <1>11, <2>1, <2>2 DEF HandlerDrops
  <2>4. StageInv'
    BY <1>11, <2>1, <2>2 DEF HandlerDrops, StageInv, OnePlaceInv
  <2>5. OnePlaceInv'
    BY <1>11, <2>1, <2>2 DEF HandlerDrops, StageInv, OnePlaceInv
  <2>6. PlacedInv'
    BY <1>11, <2>1, <2>2 DEF HandlerDrops, StageInv, PlacedInv
  <2>7. QED
    BY <2>3, <2>4, <2>5, <2>6
<1>12. ASSUME NEW w \in Workers, WorkerReply(w) PROVE ServerInv'
  BY <1>12, AppendHolds DEF WorkerReply, StageInv, OnePlaceInv, PlacedInv
<1>13. QED
  BY <1>1, <1>2, <1>3, <1>4, <1>5, <1>6, <1>7, <1>8, <1>9, <1>10, <1>11, <1>12,
     ServerCases

\* A node that has just been made holds no request.
LEMMA InitServerInv == ServerInit => ServerInv
<1> SUFFICES ASSUME ServerInit
             PROVE  ServerInv
  OBVIOUS
<1> USE DEF ServerInit, Service!Init
<1>1. \A r \in Requests : tally[r] = Stage(0, 0, 0)
  BY DEF Stage
<1>2. /\ jobs \in Seq(Requests) /\ replies \in Seq(Requests)
      /\ \A r : ~Held(jobs, r) /\ ~Held(replies, r)
      /\ Distinct(jobs) /\ Distinct(replies)
  BY DEF Held, Distinct
<1>3. ServerTypes
  BY <1>1, <1>2 DEF ServerTypes, HookPlaces, WorkerPlaces, Holders, Stage
<1>4. hook[IO] = "idle" /\ \A t \in Holders : hand[t] = NoRequest
  BY DEF Holders
<1>5. StageInv
  BY <1>1, <1>2, <1>4 DEF StageInv, Holders
<1>6. OnePlaceInv
  BY <1>2, <1>4 DEF OnePlaceInv
<1>7. PlacedInv
  BY <1>1, StagesDiffer DEF PlacedInv, Acked, Handled
<1>8. QED
  BY <1>3, <1>5, <1>6, <1>7 DEF ServerInv

\* The variables of the server, its pool and its queues keep their types.
THEOREM ServerTypeCorrect == ServerSpec => []ServerTypes
<1>1. ServerInv => ServerTypes
  BY DEF ServerInv
<1>2. QED
  BY <1>1, InitServerInv, StepKeepsServerInv, PTL DEF ServerSpec

\* In a queue without repetitions, what is there is there once.
LEMMA CopiesIfDistinct ==
  ASSUME NEW q \in Seq(Requests), Distinct(q), NEW r \in Requests
  PROVE  Copies(q, r) = IF Held(q, r) THEN 1 ELSE 0
<1> DEFINE places == {i \in DOMAIN q : q[i] = r}
<1>1. DOMAIN q = 1 .. Len(q)
  OBVIOUS
<1>2. CASE Held(q, r)
  <2>1. PICK i \in 1 .. Len(q) : q[i] = r
    BY <1>2 DEF Held
  <2>2. places = {i}
    BY <1>1, <2>1 DEF Distinct
  <2>3. QED
    BY <1>2, <2>2, FS_Singleton DEF Copies
<1>3. CASE ~Held(q, r)
  <2>1. places = {}
    BY <1>1, <1>3 DEF Held
  <2>2. QED
    BY <1>3, <2>1, FS_EmptySet DEF Copies
<1>4. QED
  BY <1>2, <1>3

\* A request in one place, which is its stage's, is counted once.
LEMMA InvImpliesHeld == ServerInv => AckedIsHeld
<1> SUFFICES ASSUME ServerInv, NEW r \in Requests
             PROVE  Cardinality({t \in Workers \cup {IO} : hand[t] = r})
                      + Copies(jobs, r) + Copies(replies, r)
                    = IF tally[r].acks = tally[r].answers \/ r \in dropped THEN 0 ELSE 1
  BY DEF AckedIsHeld
<1> DEFINE hands == {t \in Workers \cup {IO} : hand[t] = r}
<1>1. /\ Copies(jobs, r) = IF Held(jobs, r) THEN 1 ELSE 0
      /\ Copies(replies, r) = IF Held(replies, r) THEN 1 ELSE 0
  BY CopiesIfDistinct DEF ServerInv, ServerTypes, OnePlaceInv
<1>2. Cardinality(hands) = IF hands = {} THEN 0 ELSE 1
  <2>1. CASE hands = {}
    BY <2>1, FS_EmptySet
  <2>2. CASE hands # {}
    <3>1. PICK t \in Workers \cup {IO} : hand[t] = r
      BY <2>2
    <3>2. hands = {t}
      BY <3>1 DEF ServerInv, OnePlaceInv, Holders
    <3>3. QED
      BY <2>2, <3>2, FS_Singleton
  <2>3. QED
    BY <2>1, <2>2
<1>3. /\ ~(Held(jobs, r) /\ Held(replies, r))
      /\ hands # {} => ~Held(jobs, r) /\ ~Held(replies, r)
  BY StagesDiffer DEF ServerInv, StageInv, OnePlaceInv, Holders, Acked, Handled
<1>4. hands # {} \/ Held(jobs, r) \/ Held(replies, r) <=> Acked(r) \/ Handled(r)
  <2>1. ASSUME NEW t \in Workers \cup {IO}, hand[t] = r PROVE Acked(r) \/ Handled(r)
    BY <2>1, RequestAssumption DEF ServerInv, StageInv
  <2>2. QED
    BY <2>1 DEF ServerInv, StageInv, PlacedInv, Holders
<1>5. Acked(r) \/ Handled(r) <=> tally[r].acks # tally[r].answers /\ r \notin dropped
  BY DEF ServerInv, ServerTypes, Acked, Handled, Stage
<1>6. QED
  BY <1>1, <1>2, <1>3, <1>4, <1>5

\* However receiving, the pool and the closing of the responder interleave, a
\* request that was acknowledged is in exactly one hand or queue until it is
\* answered or dropped: none is lost on the way, and none is handled twice.
THEOREM AckedCorrect == ServerSpec => []AckedIsHeld
<1>1. QED
  BY InitServerInv, StepKeepsServerInv, InvImpliesHeld, PTL DEF ServerSpec

\* A step of the server acknowledges, handles or answers one request that was
\* due for it, or none.
LEMMA StepIsServiceStep == ServerInv /\ [ServerNext]_allVars => [Service!Next]_tally
<1> SUFFICES ASSUME ServerInv, [ServerNext]_allVars
             PROVE  Service!Next \/ UNCHANGED tally
  OBVIOUS
<1> USE DEF ServerInv, ServerTypes, Acked, Handled, Stage, HookAt, WorkerAt, netVars
<1>1. CASE Quiet \/ DrainPop \/ SendFails \/ Dispatch
  BY <1>1 DEF Quiet, DrainPop, SendFails, Dispatch
<1>2. CASE SendReply
  <2>1. hand[IO] \in Requests /\ Handled(hand[IO])
    BY <1>2 DEF SendReply, StageInv
  <2>2. Service!Answer(hand[IO])
    BY <1>2, <2>1 DEF SendReply, Service!Answer
  <2>3. QED
    BY <2>1, <2>2 DEF Service!Next
<1>3. ASSUME NEW r \in Requests, Receive(r) PROVE Service!Next
  <2>1. tally[r] = Stage(0, 0, 0)
    BY <1>3 DEF Receive, StageInv
  <2>2. Service!Ack(r)
    BY <1>3, <2>1 DEF Receive, Service!Ack
  <2>3. QED
    BY <2>2 DEF Service!Next
<1>4. ASSUME NEW r \in Requests, ReceiveRejects(r) \/ ClientSends(r)
      PROVE  UNCHANGED tally
  BY <1>4 DEF ReceiveRejects, ClientSends
<1>5. ASSUME NEW w \in Workers, HandlerReturns(w) \/ HandlerDrops(w)
      PROVE  Service!Next
  <2>1. hand[w] \in Requests /\ Acked(hand[w])
    BY <1>5 DEF HandlerReturns, HandlerDrops, StageInv
  <2>2. Service!Run(hand[w])
    BY <1>5, <2>1 DEF HandlerReturns, HandlerDrops, Service!Run
  <2>3. QED
    BY <2>1, <2>2 DEF Service!Next
<1>6. ASSUME NEW w \in Workers, WorkerTake(w) \/ WorkerReply(w)
      PROVE  UNCHANGED tally
  BY <1>6 DEF WorkerTake, WorkerReply
<1>7. QED
  BY <1>1, <1>2, <1>3, <1>4, <1>5, <1>6, ServerCases

\* The server is an RpcService: each request is acknowledged, handled and
\* answered at most once, in this order.
THEOREM ServerIsRpcService == ServerSpec => ImplementsRpcService
<1>1. ServerInit => Service!Init
  BY DEF ServerInit
<1>2. QED
  BY <1>1, InitServerInv, StepKeepsServerInv, StepIsServiceStep, PTL
     DEF ServerSpec, ImplementsRpcService, Service!Spec
=============================================================================
