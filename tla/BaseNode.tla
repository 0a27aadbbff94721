------------------------------ MODULE BaseNode ------------------------------
(***************************************************************************)
(* The lifecycle of magpie::BaseNode: start() runs setup() and spawns one  *)
(* thread, which runs process() until terminate() is called, waits while   *)
(* the node is paused, and runs cleanup() at the end.  Any threads may     *)
(* call start(), pause(), resume() and terminate() at any time.            *)
(*                                                                         *)
(* mtx_ is held by the node's thread from its test of the pause flag to    *)
(* its wait (place "block"); exited_ is set and tested under exitMtx_, so  *)
(* a terminate() that waits for it waits for the flag itself.  setup(),    *)
(* interrupt(), process() and cleanup() are the hooks derived nodes        *)
(* override; here each is one step.                                        *)
(***************************************************************************)
EXTENDS Naturals

CONSTANTS
  Starters,      \* threads that call start()
  Terminators,   \* threads that call terminate() (the destructor is one)
  Patient,       \* the terminators that pass timeoutSec < 0
  Resumers,      \* threads that call resume()
  MaxPauses,     \* bound: pause() calls in a behaviour
  SetupThrows    \* setup() may throw

ASSUME PatientAssumption == Patient \subseteq Terminators
ASSUME BoundsAssumption == MaxPauses \in Nat /\ SetupThrows \in BOOLEAN

VARIABLES
  started,       \* started_
  terminating,   \* terminating_
  terminated,    \* terminated_
  paused,        \* paused_
  exited,        \* exited_
  node,          \* where the node's thread is inside runLoop_(), "none" before
  starter,       \* where each thread is inside start()
  terminator,    \* where each thread is inside terminate()
  resumer,       \* where each thread is inside resume()
  pauses,        \* pause() calls so far
  sincePause     \* history: process() calls begun since pause(), still paused

flagVars == <<started, terminating, terminated, paused, exited>>
userVars == <<starter, terminator, resumer>>
pauseVars == <<pauses, sincePause>>
vars == <<flagVars, node, userVars, pauseVars>>

Init ==
  /\ started = FALSE /\ terminating = FALSE /\ terminated = FALSE
  /\ paused \in BOOLEAN
  /\ exited = FALSE
  /\ node = "none"
  /\ starter = [s \in Starters |-> "idle"]
  /\ terminator = [k \in Terminators |-> "idle"]
  /\ resumer = [r \in Resumers |-> "idle"]
  /\ pauses = 0 /\ sincePause = 0

StarterAt(s, from, to) ==
  /\ starter[s] = from
  /\ starter' = [starter EXCEPT ![s] = to]
  /\ UNCHANGED <<terminator, resumer, pauseVars>>

TerminatorAt(k, from, to) ==
  /\ terminator[k] = from
  /\ terminator' = [terminator EXCEPT ![k] = to]
  /\ UNCHANGED <<starter, resumer, pauseVars>>

NodeAt(from, to) ==
  /\ node = from
  /\ node' = to
  /\ UNCHANGED userVars

(***************************************************************************)
(* start()                                                                 *)
(***************************************************************************)

\* Mutant of Start: started_ is set but its old value is not looked at.
StartStore(s) ==
  /\ StarterAt(s, "idle", "setup")
  /\ started' = TRUE
  /\ UNCHANGED <<terminating, terminated, paused, exited, node>>

\* compare_exchange: only the first call takes effect.
Start(s) ==
  /\ StarterAt(s, "idle", IF started THEN "done" ELSE "setup")
  /\ started' = TRUE
  /\ UNCHANGED <<terminating, terminated, paused, exited, node>>

Setup(s) ==
  /\ StarterAt(s, "setup", "spawn")
  /\ UNCHANGED <<flagVars, node>>

\* The exception leaves start(); started_ stays set and there is no thread.
SetupFails(s) ==
  /\ SetupThrows
  /\ StarterAt(s, "setup", "failed")
  /\ UNCHANGED <<flagVars, node>>

Spawn(s) ==
  /\ StarterAt(s, "spawn", "done")
  /\ node' = "test"
  /\ UNCHANGED flagVars

(***************************************************************************)
(* pause() and resume()                                                    *)
(***************************************************************************)

\* No lock is taken.
Pause ==
  /\ pauses < MaxPauses
  /\ paused' = TRUE
  /\ pauses' = pauses + 1
  /\ sincePause' = 0
  /\ UNCHANGED <<started, terminating, terminated, exited, node, userVars>>

ResumerAt(r, from, to) ==
  /\ resumer[r] = from
  /\ resumer' = [resumer EXCEPT ![r] = to]
  /\ UNCHANGED <<starter, terminator, pauses>>

\* Mutant of Resume: the flag is cleared without mtx_.
ResumeUnlocked(r) ==
  /\ ResumerAt(r, "idle", "notify")
  /\ paused' = FALSE
  /\ sincePause' = 0
  /\ UNCHANGED <<started, terminating, terminated, exited, node>>

Resume(r) ==
  /\ node # "block"
  /\ ResumerAt(r, "idle", "notify")
  /\ paused' = FALSE
  /\ sincePause' = 0
  /\ UNCHANGED <<started, terminating, terminated, exited, node>>

\* notify_all(): the node's thread is the only one that waits on cv_.
Notified == node' = IF node = "asleep" THEN "gate" ELSE node

ResumeNotify(r) ==
  /\ ResumerAt(r, "notify", "idle")
  /\ Notified
  /\ UNCHANGED <<flagVars, sincePause>>

(***************************************************************************)
(* terminate()                                                             *)
(***************************************************************************)

\* compare_exchange: a call that is not the first returns at once.
Terminate(k) ==
  /\ TerminatorAt(k, "idle", IF terminated THEN "done" ELSE "flag")
  /\ terminated' = TRUE
  /\ UNCHANGED <<started, terminating, paused, exited, node>>

TerminateFlag(k) ==
  /\ TerminatorAt(k, "flag", "unpause")
  /\ terminating' = TRUE
  /\ UNCHANGED <<started, terminated, paused, exited, node>>

TerminateUnpause(k) ==
  /\ node # "block"
  /\ TerminatorAt(k, "unpause", "notify")
  /\ paused' = FALSE
  /\ UNCHANGED <<started, terminating, terminated, exited, node>>

\* Mutant of TerminateNotify: the sleeping thread is not notified.
TerminateSilent(k) ==
  /\ TerminatorAt(k, "notify", "interrupt")
  /\ UNCHANGED <<flagVars, node>>

TerminateNotify(k) ==
  /\ TerminatorAt(k, "notify", "interrupt")
  /\ Notified
  /\ UNCHANGED flagVars

Interrupt(k) ==
  /\ TerminatorAt(k, "interrupt", "test")
  /\ UNCHANGED <<flagVars, node>>

\* Mutant of TerminateTest: every node is marked as exited.
TerminateTestMarks(k) ==
  /\ TerminatorAt(k, "test", IF started THEN "wait" ELSE "done")
  /\ exited' = TRUE
  /\ UNCHANGED <<started, terminating, terminated, paused, node>>

\* A node that was never started is marked as exited here.
TerminateTest(k) ==
  /\ TerminatorAt(k, "test", IF started THEN "wait" ELSE "done")
  /\ exited' = (exited \/ ~started)
  /\ UNCHANGED <<started, terminating, terminated, paused, node>>

TerminateReturn(k) ==
  /\ exited
  /\ TerminatorAt(k, "wait", "done")
  /\ UNCHANGED <<flagVars, node>>

TerminateGivesUp(k) ==
  /\ k \notin Patient
  /\ TerminatorAt(k, "wait", "done")
  /\ UNCHANGED <<flagVars, node>>

(***************************************************************************)
(* runLoop_()                                                              *)
(***************************************************************************)

LoopTest ==
  /\ NodeAt("test", IF terminating THEN "cleanup" ELSE "gate")
  /\ UNCHANGED <<flagVars, pauseVars>>

GateTest ==
  /\ NodeAt("gate", IF paused /\ ~terminating THEN "block" ELSE "recheck")
  /\ UNCHANGED <<flagVars, pauseVars>>

GateBlock ==
  /\ NodeAt("block", "asleep")
  /\ UNCHANGED <<flagVars, pauseVars>>

SpuriousWakeup ==
  /\ NodeAt("asleep", "gate")
  /\ UNCHANGED <<flagVars, pauseVars>>

\* The test of terminating_ behind the gate, and the call of process().
LoopBreak ==
  /\ terminating
  /\ NodeAt("recheck", "cleanup")
  /\ UNCHANGED <<flagVars, pauseVars>>

ProcessBegin ==
  /\ ~terminating
  /\ NodeAt("recheck", "process")
  /\ sincePause' = IF paused THEN sincePause + 1 ELSE 0
  /\ UNCHANGED <<flagVars, pauses>>

\* Mutant of ProcessEnd: straight to the next process().
ProcessEndUngated ==
  /\ NodeAt("process", "recheck")
  /\ UNCHANGED <<flagVars, pauseVars>>

ProcessEnd ==
  /\ NodeAt("process", "test")
  /\ UNCHANGED <<flagVars, pauseVars>>

Cleanup ==
  /\ NodeAt("cleanup", "exit")
  /\ UNCHANGED <<flagVars, pauseVars>>

Exit ==
  /\ NodeAt("exit", "gone")
  /\ exited' = TRUE
  /\ UNCHANGED <<started, terminating, terminated, paused, pauseVars>>

(***************************************************************************)
(* Specification                                                           *)
(***************************************************************************)

StartStep(s) == Setup(s) \/ SetupFails(s) \/ Spawn(s)

\* The steps that are the same for every node, and the whole of a node
\* whose hooks do nothing.
TerminateStep(k) ==
  \/ TerminateFlag(k)
  \/ TerminateUnpause(k)
  \/ TerminateNotify(k)
  \/ TerminateTest(k)
  \/ TerminateReturn(k)
  \/ TerminateGivesUp(k)

GateStep == LoopTest \/ GateTest \/ GateBlock \/ LoopBreak \/ ProcessBegin

NodeStep == GateStep \/ ProcessEnd \/ Cleanup \/ Exit

Next ==
  \/ \E s \in Starters : Start(s) \/ StartStep(s)
  \/ Pause
  \/ \E r \in Resumers : Resume(r) \/ ResumeNotify(r)
  \/ \E k \in Terminators : Terminate(k) \/ TerminateStep(k) \/ Interrupt(k)
  \/ NodeStep \/ SpuriousWakeup

Spec == Init /\ [][Next]_vars

\* Calls that were made go on, and so does the node's thread; process()
\* returns.  mtx_ is held for two consecutive steps of the node's thread
\* only, but again and again: strong fairness for those who lock it.
Fairness ==
  /\ \A s \in Starters : WF_vars(StartStep(s))
  /\ \A r \in Resumers : WF_vars(ResumeNotify(r))
  /\ \A k \in Terminators : SF_vars(TerminateStep(k) \/ Interrupt(k))
  /\ WF_vars(NodeStep)

FairSpec == Spec /\ Fairness

(***************************************************************************)
(* Properties                                                              *)
(***************************************************************************)

NodePlaces ==
  {"none", "test", "gate", "block", "asleep", "recheck", "process", "cleanup",
   "exit", "gone"}

\* The values every variable takes; pauses are bounded, and only a started
\* node has a thread.
TypeOK ==
  /\ started \in BOOLEAN /\ terminating \in BOOLEAN /\ terminated \in BOOLEAN
  /\ paused \in BOOLEAN /\ exited \in BOOLEAN
  /\ node \in NodePlaces
  /\ starter \in [Starters -> {"idle", "setup", "spawn", "failed", "done"}]
  /\ terminator \in [Terminators -> {"idle", "flag", "unpause", "notify",
                                     "interrupt", "test", "wait", "done"}]
  /\ resumer \in [Resumers -> {"idle", "notify"}]
  /\ pauses \in 0 .. MaxPauses
  /\ sincePause \in Nat
  /\ node # "none" => started

\* setup() runs once and one thread is spawned, however many start() calls
\* race: a second thread would find worker_ joinable, or share the node.
OneStart ==
  \A s, t \in Starters :
    /\ starter[s] \in {"setup", "spawn"} /\ starter[t] \in {"setup", "spawn"}
         => s = t
    /\ starter[s] \in {"setup", "spawn"} => node = "none"

\* After pause() returns, at most the process() call that was about to
\* begin still begins before the node is resumed.
PauseStopsProcessing == sincePause <= 1

\* No process() is running or will begin once the node counts as exited,
\* even when terminate() ran before start() did.
NothingRunsAfterExit == exited => node # "process"

\* Every terminate() comes back, paused or not, unless setup() has failed.
TerminateReturns ==
  \A k \in Terminators :
    terminator[k] # "idle" ~>
      terminator[k] = "done" \/ \E s \in Starters : starter[s] = "failed"

\* A node whose thread sleeps although it is not paused is woken.
ResumedNodeWakes == (node = "asleep" /\ ~paused) ~> (node # "asleep" \/ paused)

=============================================================================
