---------------------- MODULE GenerationShutdown_proofs ----------------------
(***************************************************************************)
(* The shutdown of a generation for every timeout, reserve, bound and      *)
(* number of stop hooks: every safety property of the module.              *)
(*                                                                         *)
(* None of them is inductive.  ShutdownInv adds which points belong to     *)
(* which path, that the hooks' share ends before the deadline, why the     *)
(* main thread has gone on from the hooks, what has been forced as a       *)
(* whole, and how far a serial path has come.                              *)
(***************************************************************************)
EXTENDS GenerationShutdown, TLAPS

USE UnlimitedAssumption

-----------------------------------------------------------------------------
(* Owners and the timeline.                                                *)

\* A cooperative request and a forced stop touch live owners alone.
LEMMA OwnerOperations ==
    ASSUME TypeOK, NEW S
    PROVE  /\ Asked(S) \in [Owners -> OwnerStates]
           /\ Forced(S) \in [Owners -> OwnerStates]
BY DEF TypeOK, Asked, Forced, Live, OwnerStates

\* The timeline of an admitted timeout.
LEMMA TimelineTypes ==
    ASSUME NEW t \in ShutdownTimeouts, NEW at \in Nat
    PROVE  TimelineFrom(t, at) \in Timelines
BY TimeoutsAssumption, BoundsAssumption
   DEF TimelineFrom, Timelines, Instants, MinOf, MaxOf

\* An accepted timeline has the type of one.
LEMMA AcceptedTypes ==
    ASSUME TypeOK
    PROVE  TimelineAccepted \in Timelines
BY TimelineTypes DEF TimelineAccepted, TypeOK

\* A stage's limit is an instant.
LEMMA LimitTypes ==
    ASSUME TypeOK, NEW s
    PROVE  StageLimit(s) \in Instants
<1>1. timeline.deadline \in Instants /\ now \in Nat
  BY DEF TypeOK, Timelines
<1>2. ComponentTimeout \in Nat
  BY <1>1, BoundsAssumption DEF ComponentTimeout, Instants, MinOf, MaxOf
<1>3. QED
  BY <1>1, <1>2, BoundsAssumption DEF StageLimit, Instants, MinOf

\* A stop hook that runs is one of them: without it the count of completed
\* hooks is not bounded.
HookCounted == pc = "hook_wait" => hooksRun < StopHooks

\* The types hold at the beginning.
LEMMA TypesInit == Init => TypeOK /\ HookCounted
<1> SUFFICES ASSUME Init PROVE TypeOK /\ HookCounted
  OBVIOUS
<1>1. owner \in [Owners -> OwnerStates]
  BY DEF Init, InitialOwners, OwnerStates
<1>2. timeline \in Timelines
  BY TimelineTypes DEF Init, NoTimeline, Timelines, Instants
<1>3. request \in {"none", "once", "repeated"}
  <2>1. CASE path \in {"external", "late"}
    BY <2>1 DEF Init
  <2>2. CASE path = "startup"
    BY <2>2 DEF Init
  <2>3. CASE path \notin {"external", "late", "startup"}
    BY <2>3 DEF Init
  <2>4. QED
    BY <2>1, <2>2, <2>3
<1>4. sync \in BOOLEAN
  BY DEF Init
<1>5. /\ now = 0 /\ polled = FALSE /\ pc \in Points /\ path \in Paths
      /\ timeout \in ShutdownTimeouts /\ hooksRun = 0
      /\ hookFailed = FALSE /\ auxReached = FALSE /\ limit = 0
  BY DEF Init, Points
<1>6. TypeOK
  <2>1. now \in Nat /\ limit \in Instants /\ hooksRun \in 0..StopHooks
    BY <1>5, BoundsAssumption DEF Instants
  <2>2. /\ polled \in BOOLEAN
        /\ hookFailed \in BOOLEAN
        /\ auxReached \in BOOLEAN
    BY <1>5
  <2>3. QED
    BY <1>1, <1>2, <1>3, <1>4, <1>5, <2>1, <2>2 DEF TypeOK
<1>7. HookCounted
  BY DEF Init, HookCounted
<1>8. QED
  BY <1>6, <1>7

\* A step of any actor keeps the types.
LEMMA TypesStep ==
    ASSUME TypeOK, HookCounted, [Next]_vars
    PROVE  TypeOK'
<1>0. /\ now \in Nat
      /\ owner \in [Owners -> OwnerStates]
      /\ timeline \in Timelines
  BY DEF TypeOK
<1>1. CASE BeginParallel \/ BeginSerial
  <2>1. /\ owner' \in {owner, Asked(Auxiliaries)}
        /\ timeline' \in {timeline, TimelineAccepted}
        /\ pc' \in {"force", "aux_wait", "hooks", "accepted"}
        /\ polled' = FALSE
        /\ UNCHANGED <<now, path, timeout, request, sync, hooksRun,
                       hookFailed, auxReached, limit>>
    BY <1>1 DEF BeginParallel, BeginSerial, Step
  <2>2. owner' \in [Owners -> OwnerStates] /\ timeline' \in Timelines
    BY <1>0, <2>1, OwnerOperations, AcceptedTypes
  <2>3. /\ polled' \in BOOLEAN
        /\ pc' \in Points
        /\ UNCHANGED <<now, path, timeout, request, sync, hooksRun,
                       hookFailed, auxReached, limit>>
    BY <2>1 DEF Points
  <2>4. QED
    BY <2>2, <2>3 DEF TypeOK
<1>2. CASE StartHooks \/ NextHook \/ HookExited \/ HookKilled
  <2>1. /\ pc' \in Points
        /\ polled' \in BOOLEAN
        /\ hookFailed' \in BOOLEAN
        /\ UNCHANGED <<now, path, timeout, request, sync, timeline,
                       auxReached, limit>>
    BY <1>2 DEF StartHooks, NextHook, HookExited, HookKilled, Step, TypeOK,
                Points
  <2>2. owner' \in [Owners -> OwnerStates]
    BY <1>0, <1>2 DEF StartHooks, NextHook, HookExited, HookKilled,
                      OwnerStates
  <2>3. /\ hooksRun \in 0..StopHooks
        /\ hooksRun' \in {hooksRun, hooksRun + 1}
        /\ hooksRun' = hooksRun + 1 => hooksRun < StopHooks
    BY <1>2, BoundsAssumption DEF StartHooks, NextHook, HookExited,
         HookKilled, TypeOK, HookCounted
  <2>4. hooksRun' \in 0..StopHooks
    BY <2>3, BoundsAssumption
  <2>5. QED
    BY <2>1, <2>2, <2>4 DEF TypeOK
<1>3. CASE HookCancelled \/ HookOverran
  BY <1>3, OwnerOperations DEF HookCancelled, HookOverran,
         OverrunHookKilled, Step, TypeOK, Points
<1>4. CASE SignalChild
  <2>1. /\ Asked({"child"}) \in [Owners -> OwnerStates]
        /\ Forced(Auxiliaries) \in [Owners -> OwnerStates]
    BY OwnerOperations
  <2>2. owner' \in [Owners -> OwnerStates]
    BY <1>0, <1>4, <2>1 DEF SignalChild
  <2>3. QED
    BY <1>4, <2>2 DEF SignalChild, Step, TypeOK, Points
<1>5. CASE \/ WaitInterrupted \/ WaitDone \/ WaitDeadline \/ WaitAuxBound
           \/ AuxDone \/ AuxBounded \/ ForceAll \/ ForceDone
  BY <1>5, OwnerOperations DEF WaitInterrupted, WaitDone, WaitDeadline,
         WaitAuxBound, AuxDone, AuxBounded, ForceAll, ForceDone,
         ForcedAtDeadline, Step, TypeOK, Points
<1>6. CASE \/ HookSleeps \/ WaitSleeps \/ AuxSleeps \/ ForceSleeps
           \/ StageSleeps
  BY <1>6 DEF HookSleeps, WaitSleeps, AuxSleeps, ForceSleeps, StageSleeps,
         Sleep, TypeOK
<1>7. CASE EnterFirstStage \/ LeaveStage \/ SshStopFails
  <2>1. PICK s \in Stages \cup {"done"} : Enter(s)
    BY <1>7 DEF EnterFirstStage, LeaveStage, SshStopFails, StageAfter, Stages
  <2>2. QED
    BY <2>1, OwnerOperations, LimitTypes DEF Enter, Step, TypeOK, Points
<1>8. CASE ForceStage
  BY <1>8, OwnerOperations DEF ForceStage, Step, TypeOK, Points
<1>9. CASE \E o \in Owners : OwnerEnds(o)
  BY <1>9 DEF OwnerEnds, TypeOK, OwnerStates
<1>10. CASE SignalArrives
  BY <1>10, AcceptedTypes DEF SignalArrives, TypeOK
<1>11. CASE Tick
  <2>1. now' \in Nat
    BY <1>0, <1>11 DEF Tick
  <2>2. polled' \in BOOLEAN
    BY <1>11 DEF Tick
  <2>3. UNCHANGED <<pc, path, timeout, timeline, request, owner, sync,
                    hooksRun, hookFailed, auxReached, limit>>
    BY <1>11 DEF Tick
  <2>4. QED
    BY <2>1, <2>2, <2>3 DEF TypeOK
<1>12. CASE Done \/ UNCHANGED vars
  BY <1>12 DEF Done, vars, TypeOK
<1>13. QED
  BY <1>1, <1>2, <1>3, <1>4, <1>5, <1>6, <1>7, <1>8, <1>9, <1>10, <1>11,
     <1>12 DEF Next, MainThread

\* And a hook is started only while there is one left.
LEMMA HookCountedStep ==
    ASSUME TypeOK, HookCounted, [Next]_vars
    PROVE  HookCounted'
<1>1. CASE \E o \in Owners : OwnerEnds(o)
  BY <1>1 DEF OwnerEnds, HookCounted
<1>2. CASE SignalArrives \/ Tick \/ Done \/ UNCHANGED vars
  BY <1>2 DEF SignalArrives, Tick, Done, vars, HookCounted
<1>3. CASE NextHook
  BY <1>3 DEF NextHook, Step, HooksLeft, HookCounted
<1>4. CASE \/ HookSleeps \/ WaitSleeps \/ AuxSleeps \/ ForceSleeps
           \/ StageSleeps
  BY <1>4 DEF HookSleeps, WaitSleeps, AuxSleeps, ForceSleeps, StageSleeps,
       Sleep, HookCounted
<1>5. CASE EnterFirstStage \/ LeaveStage \/ SshStopFails
  BY <1>5 DEF EnterFirstStage, LeaveStage, SshStopFails, StageAfter, Stages,
       Enter, Step, HookCounted
<1>6. CASE \/ BeginParallel \/ BeginSerial \/ StartHooks \/ HookExited
           \/ HookKilled \/ HookCancelled \/ HookOverran \/ SignalChild
  BY <1>6 DEF BeginParallel, BeginSerial, StartHooks, HookExited, HookKilled,
       HookCancelled, HookOverran, SignalChild, Step, HookCounted
<1>7. CASE \/ WaitInterrupted \/ WaitDone \/ WaitDeadline \/ WaitAuxBound
           \/ AuxDone \/ AuxBounded \/ ForceAll \/ ForceDone \/ ForceStage
  BY <1>7 DEF WaitInterrupted, WaitDone, WaitDeadline, WaitAuxBound, AuxDone,
       AuxBounded, ForceAll, ForceDone, ForceStage, Stages, Step, HookCounted
<1>8. QED
  BY <1>1, <1>2, <1>3, <1>4, <1>5, <1>6, <1>7 DEF Next, MainThread

\* Every variable keeps its type, for every budget, bound and number of hooks.
THEOREM ShutdownTypeCorrect == Spec => []TypeOK
<1>1. TypeOK /\ HookCounted /\ [Next]_vars => TypeOK' /\ HookCounted'
  BY TypesStep, HookCountedStep
<1>2. QED
  BY TypesInit, <1>1, PTL DEF Spec

-----------------------------------------------------------------------------
(* The inductive invariant.                                                *)

\* A path keeps to its own points.
PathPoints ==
    /\ path \in ParallelPaths => pc \notin Stages \cup {"accepted"}
    /\ path \in SerialPaths => pc \in Stages \cup {"begin", "accepted", "done"}

\* A parallel path works on an accepted timeline, whose share for the hooks
\* ends no later than the whole.
TimelineSound ==
    /\ path \in ParallelPaths /\ pc # "begin" => timeline.accepted
    /\ timeline.deadline # Unlimited =>
         timeline.preStop \in Nat /\ timeline.preStop <= timeline.deadline

\* The reasons to go on from the stop hooks to ComfyUI.
HooksOver ==
    \/ hooksRun = StopHooks
    \/ hookFailed
    \/ Passed(timeline.preStop)
    \/ ForceRequested

\* A stop hook runs only where the main thread waits for it, and the reason to
\* go on to ComfyUI stands until ComfyUI has been signalled.
HooksSound ==
    /\ owner["hook"] \in {"running", "asked"} => pc = "hook_wait"
    /\ pc \in {"cleanup", "wait", "force"} => HooksOver
    /\ pc = "force" => ForceRequested
    /\ pc = "aux_wait" => ~Live("child")

\* What has been forced as a whole is forced to the last.
ForcedSound ==
    /\ pc = "force_wait" => \A o \in Owners : Live(o) => owner[o] = "forced"
    /\ auxReached =>
         /\ pc \in {"wait", "force", "force_wait", "done"}
         /\ \A o \in Owners \ {"child"} : Live(o) => owner[o] = "forced"

\* How far a serial path has come.
SerialSound ==
    path \in SerialPaths =>
        /\ ~Live("hook")
        /\ path \in {"natural", "late"} =>
             /\ ~sync
             /\ ~Live("child")
             /\ path = "natural" => ~Live("startHook")
             /\ pc \notin {"auxiliaries", "stop_child", "stop_hook"}
             /\ pc \in {"stop_ssh", "done"} => ~Live("downloads")
        /\ path = "startup" =>
             /\ pc \in {"stop_child", "stop_hook", "done"} =>
                  ~Live("downloads") /\ ~Live("ssh")
             /\ pc \in {"stop_hook", "done"} => ~Live("child")
             /\ pc = "done" => ~Live("startHook")

\* A parallel path that is done has left nothing alive.
ParallelDone == path \in ParallelPaths /\ pc = "done" => AllEnded

\* The inductive invariant of a shutdown.
ShutdownInv ==
    /\ PathPoints
    /\ TimelineSound
    /\ HooksSound
    /\ ForcedSound
    /\ SerialSound
    /\ ParallelDone
    /\ BudgetKept
    /\ AuxiliaryBoundKept

\* It holds when a path begins.
LEMMA ShutdownInit == Init => ShutdownInv
<1> SUFFICES ASSUME Init PROVE ShutdownInv
  OBVIOUS
<1>1. /\ pc = "begin" /\ polled = FALSE /\ auxReached = FALSE
      /\ path \in ParallelPaths \cup SerialPaths
  BY PathsAssumption DEF Init
<1>2. TimelineSound
  BY <1>1, TimeoutsAssumption, BoundsAssumption
     DEF Init, TimelineSound, NoTimeline, TimelineFrom, MaxOf
<1>3. SerialSound
  <2>1. owner \in InitialOwners(path)
    BY DEF Init
  <2>2. owner["hook"] = "absent"
    BY <2>1 DEF InitialOwners
  <2>3. ASSUME path \in {"natural", "late"}
        PROVE  /\ owner["child"] = "ended"
               /\ path = "natural" => owner["startHook"] = "absent"
               /\ ~sync
    BY <2>1, <2>3 DEF InitialOwners, Init, Owners, Hooks, Auxiliaries
  <2>4. QED
    BY <1>1, <2>2, <2>3 DEF SerialSound, Live
<1>4. HooksSound
  BY <1>1 DEF Init, InitialOwners, HooksSound
<1>5. QED
  BY <1>1, <1>2, <1>3, <1>4 DEF ShutdownInv, PathPoints, ForcedSound,
     ParallelDone, BudgetKept, AuxiliaryBoundKept, Stages, ParallelPaths,
     SerialPaths

\* No owner comes to life again, except that a stop hook is started, and what
\* has been forced stays forced until it ends.
OwnersKept ==
    \A o \in Owners :
        Live(o)' => Live(o) /\ (owner[o] = "forced" => owner'[o] = "forced")

\* No step but the start of a stop hook revives an owner.
LEMMA OwnersStep ==
    ASSUME TypeOK, [Next]_vars
    PROVE  OwnersKept \/ (pc = "next_hook" /\ pc' = "hook_wait")
<1>1. owner \in [Owners -> OwnerStates]
  BY DEF TypeOK
<1>2. ASSUME NEW S, owner' = Asked(S)
      PROVE  OwnersKept
  BY <1>2 DEF OwnersKept, Asked, Live
<1>3. ASSUME NEW S, owner' = Forced(S)
      PROVE  OwnersKept
  BY <1>3 DEF OwnersKept, Forced, Live
<1>4. CASE UNCHANGED owner
  BY <1>4 DEF OwnersKept, Live
<1>5. CASE \E o \in Owners : OwnerEnds(o)
  BY <1>1, <1>5 DEF OwnerEnds, OwnersKept, Live
<1>6. CASE SignalArrives \/ Tick \/ Done \/ UNCHANGED vars
  BY <1>4, <1>6 DEF SignalArrives, Tick, Done, vars
<1>7. CASE SignalChild
  BY <1>1, <1>7 DEF SignalChild, OwnersKept, Asked, Forced, Live
<1>8. CASE HookExited \/ HookKilled
  BY <1>1, <1>8 DEF HookExited, HookKilled, OwnersKept, Live
<1>9. CASE NextHook
  BY <1>4, <1>9 DEF NextHook, Step
<1>10. CASE BeginParallel \/ BeginSerial \/ StartHooks
  BY <1>2, <1>4, <1>10 DEF BeginParallel, BeginSerial, StartHooks
<1>11. CASE HookCancelled \/ HookOverran \/ WaitDeadline \/ WaitAuxBound
            \/ AuxBounded \/ ForceAll \/ ForceStage
  BY <1>3, <1>11 DEF HookCancelled, HookOverran, OverrunHookKilled,
       WaitDeadline, ForcedAtDeadline, WaitAuxBound, AuxBounded, ForceAll,
       ForceStage
<1>12. CASE WaitInterrupted \/ WaitDone \/ AuxDone \/ ForceDone
  BY <1>4, <1>12 DEF WaitInterrupted, WaitDone, AuxDone, ForceDone
<1>13. CASE \/ HookSleeps \/ WaitSleeps \/ AuxSleeps \/ ForceSleeps
            \/ StageSleeps
  BY <1>4, <1>13 DEF HookSleeps, WaitSleeps, AuxSleeps, ForceSleeps,
       StageSleeps, Sleep
<1>14. CASE EnterFirstStage \/ LeaveStage \/ SshStopFails
  BY <1>2, <1>4, <1>14 DEF EnterFirstStage, LeaveStage, SshStopFails, Enter
<1>15. QED
  BY <1>5, <1>6, <1>7, <1>8, <1>9, <1>10, <1>11, <1>12, <1>13, <1>14
     DEF Next, MainThread

\* Each path's points.
LEMMA PathPointsStep ==
    ASSUME TypeOK, PathPoints, [Next]_vars
    PROVE  PathPoints'
<1>1. path \in ParallelPaths \cup SerialPaths
  BY PathsAssumption DEF TypeOK
<1>2. path' = path
  BY DEF Next, MainThread, OwnerEnds, SignalArrives, Tick, Done, vars,
         BeginParallel, StartHooks, NextHook, HookCancelled, HookExited,
         HookOverran, HookSleeps, HookKilled, SignalChild, WaitInterrupted,
         WaitDone, WaitDeadline, WaitAuxBound, WaitSleeps, AuxDone,
         AuxBounded, AuxSleeps, ForceAll, ForceDone, ForceSleeps,
         BeginSerial, EnterFirstStage, LeaveStage, SshStopFails, ForceStage,
         StageSleeps, Step, Sleep, Enter
<1> USE DEF PathPoints, Stages, ParallelPaths, SerialPaths
<1>3. CASE UNCHANGED pc
  BY <1>2, <1>3
<1>4. CASE \/ \E o \in Owners : OwnerEnds(o)
           \/ SignalArrives \/ Tick \/ Done \/ UNCHANGED vars
           \/ HookSleeps \/ WaitSleeps \/ AuxSleeps \/ ForceSleeps
           \/ StageSleeps \/ ForceStage
  BY <1>3, <1>4 DEF OwnerEnds, SignalArrives, Tick, Done, vars, HookSleeps,
       WaitSleeps, AuxSleeps, ForceSleeps, StageSleeps, ForceStage, Sleep,
       Step
<1>5. CASE BeginParallel \/ StartHooks \/ NextHook \/ HookCancelled
           \/ HookExited \/ HookOverran \/ HookKilled \/ SignalChild
  BY <1>1, <1>2, <1>5 DEF BeginParallel, StartHooks, NextHook,
       HookCancelled, HookExited, HookOverran, HookKilled, SignalChild, Step
<1>6. CASE WaitInterrupted \/ WaitDone \/ WaitDeadline \/ WaitAuxBound
           \/ AuxDone \/ AuxBounded \/ ForceAll \/ ForceDone
  BY <1>1, <1>2, <1>6 DEF WaitInterrupted, WaitDone, Waiting, WaitDeadline,
       WaitAuxBound, AuxDone, AuxBounded, ForceAll, ForceDone, Step
<1>7. CASE BeginSerial \/ EnterFirstStage \/ LeaveStage \/ SshStopFails
  BY <1>1, <1>2, <1>7 DEF BeginSerial, EnterFirstStage, LeaveStage,
       SshStopFails, StageAfter, Enter, Step
<1>8. QED
  BY <1>4, <1>5, <1>6, <1>7 DEF Next, MainThread

\* The timeline is only ever accepted; a parallel path does so when it begins.
LEMMA TimelineChange ==
    ASSUME [Next]_vars
    PROVE  /\ timeline' \in {timeline, TimelineAccepted}
           /\ path' = path
           /\ path \in ParallelPaths /\ pc = "begin" /\ pc' # "begin" =>
                timeline' = TimelineAccepted
<1>1. CASE BeginParallel
  BY <1>1 DEF BeginParallel, Step
<1>2. CASE BeginSerial
  BY <1>2 DEF BeginSerial, Step, SerialPaths, ParallelPaths
<1>3. CASE SignalArrives
  BY <1>3 DEF SignalArrives
<1>4. CASE \/ \E o \in Owners : OwnerEnds(o)
           \/ Tick \/ Done \/ UNCHANGED vars
           \/ HookSleeps \/ WaitSleeps \/ AuxSleeps \/ ForceSleeps
           \/ StageSleeps
  BY <1>4 DEF OwnerEnds, Tick, Done, vars, HookSleeps, WaitSleeps,
       AuxSleeps, ForceSleeps, StageSleeps, Sleep
<1>5. CASE StartHooks \/ NextHook \/ HookCancelled \/ HookExited
           \/ HookOverran \/ HookKilled \/ SignalChild
  BY <1>5 DEF StartHooks, NextHook, HookCancelled, HookExited, HookOverran,
       HookKilled, SignalChild, Step
<1>6. CASE WaitInterrupted \/ WaitDone \/ WaitDeadline \/ WaitAuxBound
           \/ AuxDone \/ AuxBounded \/ ForceAll \/ ForceDone
  BY <1>6 DEF WaitInterrupted, WaitDone, Waiting, WaitDeadline,
       WaitAuxBound, AuxDone, AuxBounded, ForceAll, ForceDone, Step
<1>7. CASE EnterFirstStage \/ LeaveStage \/ SshStopFails \/ ForceStage
  BY <1>7 DEF EnterFirstStage, LeaveStage, SshStopFails, ForceStage, Enter,
       Step, Stages
<1>8. QED
  BY <1>1, <1>2, <1>3, <1>4, <1>5, <1>6, <1>7 DEF Next, MainThread

\* One timeline: what has been accepted is neither extended nor restarted,
\* whatever signal arrives later (_ShutdownTimeline.accept).
THEOREM TimelineIsKept == Spec => TimelineKept
<1>1. [Next]_vars /\ timeline.accepted => timeline' = timeline
  BY TimelineChange DEF TimelineAccepted
<1>2. QED
  BY <1>1, PTL DEF Spec, TimelineKept

\* An accepted timeline gives the hooks no more than the whole.
LEMMA AcceptedSound ==
    ASSUME TypeOK
    PROVE  LET t == TimelineFrom(timeout, now)
           IN  /\ t.accepted
               /\ t.deadline # Unlimited =>
                    t.preStop \in Nat /\ t.preStop <= t.deadline
<1>1. timeout \in Nat \cup {Unlimited} /\ now \in Nat
  BY TimeoutsAssumption DEF TypeOK
<1>2. QED
  BY <1>1, BoundsAssumption DEF TimelineFrom, MaxOf

\* Every step keeps the timeline sound.
LEMMA TimelineSoundStep ==
    ASSUME TypeOK, TimelineSound, [Next]_vars
    PROVE  TimelineSound'
<1>1. timeline' \in {timeline, TimelineFrom(timeout, now)}
  BY TimelineChange DEF TimelineAccepted
<1>2. timeline.accepted => timeline' = timeline
  BY TimelineChange DEF TimelineAccepted
<1>3. /\ path' = path
      /\ path \in ParallelPaths /\ pc = "begin" /\ pc' # "begin" =>
           timeline'.accepted
  BY TimelineChange, AcceptedSound DEF TimelineAccepted
<1>4. ASSUME path' \in ParallelPaths, pc' # "begin"
      PROVE  timeline'.accepted
  BY <1>2, <1>3, <1>4 DEF TimelineSound
<1>5. ASSUME timeline'.deadline # Unlimited
      PROVE  timeline'.preStop \in Nat
               /\ timeline'.preStop <= timeline'.deadline
  BY <1>1, <1>5, AcceptedSound DEF TimelineSound
<1>6. QED
  BY <1>4, <1>5 DEF TimelineSound

\* A passed deadline has passed the hooks' share as well.
LEMMA ShareEndsFirst ==
    ASSUME TypeOK, TimelineSound, DeadlinePassed
    PROVE  Passed(timeline.preStop)
<1>1. /\ timeline.deadline # Unlimited
      /\ timeline.deadline \in Nat /\ now \in Nat
      /\ now >= timeline.deadline
  BY DEF TypeOK, Timelines, Instants, DeadlinePassed, Passed
<1>2. QED
  BY <1>1 DEF TimelineSound, Passed

\* Hooks, the child and the reasons to force.
LEMMA HooksSoundStep ==
    ASSUME TypeOK, PathPoints, TimelineSound, HooksSound, [Next]_vars
    PROVE  HooksSound'
<1>0. /\ owner \in [Owners -> OwnerStates]
      /\ hooksRun \in 0..StopHooks
      /\ now \in Nat
      /\ path \in ParallelPaths \cup SerialPaths
      /\ {"hook", "child"} \subseteq Owners
  BY PathsAssumption DEF TypeOK, Owners, Hooks
<1> USE DEF HooksSound, HooksOver
<1>1. CASE \E o \in Owners : OwnerEnds(o)
  BY <1>0, <1>1 DEF OwnerEnds, Live, Passed, ForceRequested
<1>2. CASE SignalArrives
  <2>1. UNCHANGED <<pc, owner, now, hooksRun, hookFailed>>
    BY <1>2 DEF SignalArrives
  <2>2. pc \in {"cleanup", "wait", "force"} => timeline' = timeline
    <3>1. pc \in {"cleanup", "wait", "force"} => path \in ParallelPaths
      BY <1>0 DEF PathPoints, Stages
    <3>2. QED
      BY <3>1, TimelineChange DEF TimelineSound, TimelineAccepted
  <2>3. ForceRequested => ForceRequested'
    BY <1>2 DEF SignalArrives, ForceRequested
  <2>4. QED
    BY <2>1, <2>2, <2>3 DEF Live, Passed
<1>3. CASE Tick
  <2>1. /\ UNCHANGED <<pc, owner, hooksRun, hookFailed, timeline, request>>
        /\ now' = now + 1
    BY <1>3 DEF Tick
  <2>2. timeline.preStop \in Nat \cup {Unlimited}
    BY DEF TypeOK, Timelines, Instants
  <2>3. Passed(timeline.preStop) => Passed(timeline.preStop)'
    BY <1>0, <2>1, <2>2 DEF Passed
  <2>4. QED
    BY <2>1, <2>3 DEF Live, ForceRequested
<1>4. CASE \/ Done \/ UNCHANGED vars
           \/ HookSleeps \/ WaitSleeps \/ AuxSleeps \/ ForceSleeps
           \/ StageSleeps
  BY <1>4 DEF Done, vars, HookSleeps, WaitSleeps, AuxSleeps, ForceSleeps,
       StageSleeps, Sleep, Live, Passed, ForceRequested
<1>5. CASE BeginParallel
  BY <1>0, <1>5 DEF BeginParallel, Step, Asked, Live, ForceRequested,
       Auxiliaries
<1>6. CASE StartHooks
  BY <1>0, <1>6, BoundsAssumption DEF StartHooks, Step, Passed,
       ForceRequested, Live
<1>7. CASE NextHook
  BY <1>0, <1>7, BoundsAssumption DEF NextHook, Step, HooksLeft, Passed,
       ForceRequested, Live
<1>8. CASE HookCancelled
  BY <1>0, <1>8 DEF HookCancelled, Forced, Step, Live
<1>9. CASE HookExited
  BY <1>0, <1>9 DEF HookExited, Step
<1>10. CASE HookOverran
  BY <1>0, <1>10 DEF HookOverran, OverrunHookKilled, Forced, Step, Live
<1>11. CASE HookKilled
  BY <1>0, <1>11 DEF HookKilled, Step
<1>12. CASE SignalChild
  BY <1>0, <1>12 DEF SignalChild, Step, Asked, Forced, Live, Passed,
       ForceRequested, Auxiliaries
<1>13. CASE WaitInterrupted \/ WaitDone \/ AuxDone \/ ForceDone
  BY <1>0, <1>13 DEF WaitInterrupted, WaitDone, Waiting, AuxDone, ForceDone,
       Step, ForceRequested, Live
<1>14. CASE WaitDeadline \/ AuxBounded \/ ForceAll
  BY <1>0, <1>14 DEF WaitDeadline, ForcedAtDeadline, AuxBounded, ForceAll,
       Forced, Step, Live
<1>15. CASE WaitAuxBound
  <2>1. /\ owner' = Forced(BoundedOwners)
        /\ pc = "wait"
        /\ pc' \in {"wait", "force_wait"}
        /\ UNCHANGED <<now, timeline, request, hooksRun, hookFailed>>
    BY <1>15 DEF WaitAuxBound, Waiting, Step
  <2>2. owner'["hook"] \notin {"running", "asked"}
    BY <1>0, <2>1 DEF Forced, Live
  <2>3. QED
    BY <2>1, <2>2 DEF Passed, ForceRequested
<1>16. CASE BeginSerial
  BY <1>0, <1>16 DEF BeginSerial, Step, Live
<1>17. CASE EnterFirstStage \/ LeaveStage \/ SshStopFails
  <2>1. PICK t \in Stages \cup {"done"} : Enter(t)
    BY <1>17 DEF EnterFirstStage, LeaveStage, SshStopFails, StageAfter, Stages
  <2>2. pc # "hook_wait"
    BY <1>17 DEF EnterFirstStage, LeaveStage, SshStopFails, Stages
  <2>3. owner'["hook"] \notin {"running", "asked"}
    BY <1>0, <2>1, <2>2 DEF Enter, Asked
  <2>4. QED
    BY <2>1, <2>3 DEF Enter, Step, Stages
<1>18. CASE ForceStage
  BY <1>0, <1>18 DEF ForceStage, Forced, Step, Stages, Live
<1>19. QED
  BY <1>1, <1>2, <1>3, <1>4, <1>5, <1>6, <1>7, <1>8, <1>9, <1>10, <1>11,
     <1>12, <1>13, <1>14, <1>15, <1>16, <1>17, <1>18 DEF Next, MainThread

\* What has been forced as a whole stays so until it has ended.
LEMMA ForcedSoundStep ==
    ASSUME TypeOK, ForcedSound, [Next]_vars
    PROVE  ForcedSound'
<1>0. owner \in [Owners -> OwnerStates] /\ auxReached \in BOOLEAN
  BY DEF TypeOK
<1>1. CASE \/ ForceAll \/ WaitDeadline \/ AuxBounded
  <2>1. /\ owner' = Forced(Owners)
        /\ pc' = "force_wait"
        /\ auxReached' = auxReached
    BY <1>1 DEF ForceAll, WaitDeadline, ForcedAtDeadline, AuxBounded, Step
  <2>2. \A o \in Owners : Live(o)' => owner'[o] = "forced"
    BY <2>1 DEF Forced, Live
  <2>3. QED
    BY <2>1, <2>2 DEF ForcedSound
<1>2. CASE WaitAuxBound
  <2>1. /\ owner' = Forced(BoundedOwners)
        /\ pc' \in {"wait", "force_wait"}
        /\ pc' = "force_wait" => ~Live("child")
    BY <1>2 DEF WaitAuxBound, Step
  <2>2. /\ \A o \in Owners \ {"child"} : Live(o)' => owner'[o] = "forced"
        /\ ~Live("child") => ~Live("child")'
    BY <2>1 DEF Forced, Live, BoundedOwners, Owners, Hooks
  <2>3. QED
    BY <2>1, <2>2 DEF ForcedSound
<1>3. CASE ~(WaitAuxBound \/ ForceAll \/ WaitDeadline \/ AuxBounded)
  <2>1. /\ auxReached' = auxReached
        /\ pc' = "force_wait" => pc = "force_wait"
        /\ pc \in {"wait", "force", "force_wait", "done"} =>
             pc' \in {"wait", "force", "force_wait", "done"}
    <3>1. CASE \/ \E o \in Owners : OwnerEnds(o)
               \/ SignalArrives \/ Tick \/ Done \/ UNCHANGED vars
               \/ HookSleeps \/ WaitSleeps \/ AuxSleeps \/ ForceSleeps
               \/ StageSleeps
      BY <3>1 DEF OwnerEnds, SignalArrives, Tick, Done, vars, HookSleeps,
           WaitSleeps, AuxSleeps, ForceSleeps, StageSleeps, Sleep
    <3>2. CASE BeginParallel \/ StartHooks \/ NextHook \/ HookCancelled
               \/ HookExited \/ HookOverran \/ HookKilled \/ SignalChild
      BY <3>2 DEF BeginParallel, StartHooks, NextHook, HookCancelled,
           HookExited, HookOverran, HookKilled, SignalChild, Step
    <3>3. CASE WaitInterrupted \/ WaitDone \/ AuxDone \/ ForceDone
      BY <3>3 DEF WaitInterrupted, WaitDone, AuxDone, ForceDone, Step
    <3>4. CASE BeginSerial \/ EnterFirstStage \/ LeaveStage \/ SshStopFails
               \/ ForceStage
      BY <3>4 DEF BeginSerial, EnterFirstStage, LeaveStage, SshStopFails,
           ForceStage, StageAfter, Enter, Step, Stages
    <3>5. QED
      BY <1>3, <3>1, <3>2, <3>3, <3>4 DEF Next, MainThread
  <2>2. pc # "next_hook" \/ pc' # "hook_wait" => OwnersKept
    BY OwnersStep
  <2>3. CASE pc' = "force_wait"
    BY <2>1, <2>2, <2>3 DEF ForcedSound, OwnersKept
  <2>4. CASE pc' # "force_wait"
    BY <2>1, <2>2, <2>4 DEF ForcedSound, OwnersKept
  <2>5. QED
    BY <2>3, <2>4
<1>4. QED
  BY <1>1, <1>2, <1>3

\* How far a serial path has come.
LEMMA SerialSoundStep ==
    ASSUME TypeOK, PathPoints, SerialSound, [Next]_vars
    PROVE  SerialSound'
<1> SUFFICES ASSUME path' \in SerialPaths PROVE SerialSound'
  BY DEF SerialSound
<1>0. /\ path' = path /\ path \in SerialPaths
      /\ pc \in Stages \cup {"begin", "accepted", "done"}
      /\ {"hook", "child", "startHook", "downloads", "ssh"} = Owners
  BY TimelineChange DEF PathPoints, Owners, Hooks, Auxiliaries
<1>1. OwnersKept
  BY <1>0, OwnersStep DEF Stages
<1>2. sync' = sync
  BY DEF Next, MainThread, OwnerEnds, SignalArrives, Tick, Done, vars,
         BeginParallel, StartHooks, NextHook, HookCancelled, HookExited,
         HookOverran, HookSleeps, HookKilled, SignalChild, WaitInterrupted,
         WaitDone, WaitDeadline, WaitAuxBound, WaitSleeps, AuxDone,
         AuxBounded, AuxSleeps, ForceAll, ForceDone, ForceSleeps,
         BeginSerial, EnterFirstStage, LeaveStage, SshStopFails, ForceStage,
         StageSleeps, Step, Sleep, Enter
<1>3. \A o \in Owners : ~Live(o) => ~Live(o)'
  BY <1>1 DEF OwnersKept
<1>4. CASE pc' = pc
  BY <1>0, <1>2, <1>3, <1>4 DEF SerialSound
<1>5. CASE pc' # pc
  <2>1. BeginSerial \/ EnterFirstStage \/ LeaveStage \/ SshStopFails
    <3>1. CASE \/ \E o \in Owners : OwnerEnds(o)
               \/ SignalArrives \/ Tick \/ Done \/ UNCHANGED vars
               \/ HookSleeps \/ WaitSleeps \/ AuxSleeps \/ ForceSleeps
               \/ StageSleeps \/ ForceStage
      BY <1>5, <3>1 DEF OwnerEnds, SignalArrives, Tick, Done, vars,
           HookSleeps, WaitSleeps, AuxSleeps, ForceSleeps, StageSleeps,
           ForceStage, Sleep, Step
    <3>2. CASE \/ BeginParallel \/ StartHooks \/ NextHook \/ HookCancelled
               \/ HookExited \/ HookOverran \/ HookKilled \/ SignalChild
               \/ WaitInterrupted \/ WaitDone \/ WaitDeadline
               \/ WaitAuxBound \/ AuxDone \/ AuxBounded \/ ForceAll
               \/ ForceDone
      BY <1>0, <3>2 DEF BeginParallel, StartHooks, NextHook, HookCancelled,
           HookExited, HookOverran, HookKilled, SignalChild,
           WaitInterrupted, WaitDone, Waiting, WaitDeadline, WaitAuxBound,
           AuxDone, AuxBounded, ForceAll, ForceDone, Stages, SerialPaths,
           ParallelPaths
    <3>3. QED
      BY <3>1, <3>2 DEF Next, MainThread
  <2>2. CASE BeginSerial \/ EnterFirstStage
    BY <1>0, <1>2, <1>3, <2>2 DEF BeginSerial, EnterFirstStage, Enter, Step,
         SerialSound
  <2>3. CASE SshStopFails
    BY <1>0, <1>2, <1>3, <2>3 DEF SshStopFails, StageAfter, Enter, Step,
         SerialSound
  <2>4. CASE LeaveStage
    <3>1. /\ pc' = StageAfter(pc)
          /\ pc \in Stages
          /\ \A o \in StageOwners(pc) : ~Live(o)
      BY <2>4 DEF LeaveStage, Enter, Step, StageDone
    <3>2. CASE pc \in {"stop_downloads", "stop_ssh"}
      BY <1>0, <1>2, <1>3, <3>1, <3>2 DEF StageAfter, StageOwners,
           SerialSound
    <3>3. CASE pc = "auxiliaries"
      BY <1>0, <1>2, <1>3, <3>1, <3>3 DEF StageAfter, StageOwners,
           SerialSound, Auxiliaries
    <3>4. CASE pc \in {"stop_child", "stop_hook"}
      BY <1>0, <1>2, <1>3, <3>1, <3>4 DEF StageAfter, StageOwners,
           SerialSound
    <3>5. QED
      BY <3>1, <3>2, <3>3, <3>4 DEF Stages
  <2>5. QED
    BY <2>1, <2>2, <2>3, <2>4
<1>6. QED
  BY <1>4, <1>5

\* A parallel path is done only when everything has ended.
LEMMA ParallelDoneStep ==
    ASSUME TypeOK, PathPoints, ParallelDone, [Next]_vars
    PROVE  ParallelDone'
<1> SUFFICES ASSUME path' \in ParallelPaths, pc' = "done"
             PROVE  AllEnded'
  BY DEF ParallelDone
<1>1. path \in ParallelPaths /\ pc \notin Stages
  BY TimelineChange DEF PathPoints
<1>2. OwnersKept
  BY OwnersStep
<1>3. CASE pc = "done"
  BY <1>1, <1>2, <1>3 DEF ParallelDone, AllEnded, OwnersKept
<1>4. CASE pc # "done"
  <2>1. WaitDone \/ AuxDone \/ ForceDone
    <3>1. CASE \/ \E o \in Owners : OwnerEnds(o)
               \/ SignalArrives \/ Tick \/ Done \/ UNCHANGED vars
               \/ HookSleeps \/ WaitSleeps \/ AuxSleeps \/ ForceSleeps
               \/ StageSleeps \/ ForceStage
      BY <1>4, <3>1 DEF OwnerEnds, SignalArrives, Tick, Done, vars,
           HookSleeps, WaitSleeps, AuxSleeps, ForceSleeps, StageSleeps,
           ForceStage, Sleep, Step
    <3>2. CASE \/ BeginParallel \/ StartHooks \/ NextHook \/ HookCancelled
               \/ HookExited \/ HookOverran \/ HookKilled \/ SignalChild
               \/ WaitInterrupted \/ WaitDeadline \/ WaitAuxBound
               \/ AuxBounded \/ ForceAll
      BY <3>2 DEF BeginParallel, StartHooks, NextHook, HookCancelled,
           HookExited, HookOverran, HookKilled, SignalChild,
           WaitInterrupted, WaitDeadline, WaitAuxBound, AuxBounded,
           ForceAll, Step
    <3>3. CASE BeginSerial \/ EnterFirstStage \/ LeaveStage \/ SshStopFails
      BY <1>1, <3>3 DEF BeginSerial, EnterFirstStage, LeaveStage,
           SshStopFails, StageAfter, Enter, Step, Stages
    <3>4. QED
      BY <3>1, <3>2, <3>3 DEF Next, MainThread
  <2>2. AllEnded /\ UNCHANGED owner
    BY <2>1 DEF WaitDone, AuxDone, ForceDone, Quiescent
  <2>3. QED
    BY <2>2 DEF AllEnded, Live
<1>5. QED
  BY <1>3, <1>4

\* A poll that finds nothing to do leaves nothing to escalate.
LEMMA SleepsKeepBounds ==
    ASSUME TypeOK, PathPoints, TimelineSound, ForcedSound,
           path \in ParallelPaths,
           HookSleeps \/ WaitSleeps \/ AuxSleeps \/ ForceSleeps \/ StageSleeps
    PROVE  /\ DeadlinePassed \/ ForceRequested =>
                \A o \in Owners : Live(o) => owner[o] = "forced"
           /\ AuxBoundPassed /\ pc # "hook_wait" =>
                \A o \in Owners \ {"child"} : Live(o) => owner[o] = "forced"
<1>1. CASE HookSleeps
  BY <1>1, ShareEndsFirst DEF HookSleeps
<1>2. CASE WaitSleeps
  BY <1>2 DEF WaitSleeps, Waiting, ForcedSound
<1>3. CASE AuxSleeps
  BY <1>3 DEF AuxSleeps
<1>4. CASE ForceSleeps
  BY <1>4 DEF ForceSleeps, ForcedSound
<1>5. CASE StageSleeps
  BY <1>5 DEF StageSleeps, PathPoints
<1>6. QED
  BY <1>1, <1>2, <1>3, <1>4, <1>5

\* The bounds hold after every step: only a sleep can put them at risk.
LEMMA BoundsStep ==
    ASSUME TypeOK, PathPoints, TimelineSound, ForcedSound, BudgetKept,
           AuxiliaryBoundKept, [Next]_vars
    PROVE  BudgetKept' /\ AuxiliaryBoundKept'
<1>0. path' = path
  BY TimelineChange
<1>1. CASE \/ HookSleeps \/ WaitSleeps \/ AuxSleeps \/ ForceSleeps
           \/ StageSleeps
  <2>1. UNCHANGED <<now, pc, path, timeline, request, owner>>
    BY <1>1 DEF HookSleeps, WaitSleeps, AuxSleeps, ForceSleeps, StageSleeps,
         Sleep
  <2>2. QED
    BY <1>1, <2>1, SleepsKeepBounds DEF BudgetKept, AuxiliaryBoundKept,
         DeadlinePassed, AuxBoundPassed, ForceRequested, Passed, Live
<1>2. CASE \E o \in Owners : OwnerEnds(o)
  <2>1. UNCHANGED <<now, polled, pc, path, timeline, request>>
    BY <1>2 DEF OwnerEnds
  <2>2. OwnersKept
    BY <2>1, OwnersStep
  <2>3. QED
    BY <2>1, <2>2 DEF OwnersKept, BudgetKept, AuxiliaryBoundKept,
         DeadlinePassed, AuxBoundPassed, ForceRequested, Passed
<1>3. CASE Done \/ UNCHANGED vars
  BY <1>3 DEF Done, vars, BudgetKept, AuxiliaryBoundKept, DeadlinePassed,
       AuxBoundPassed, ForceRequested, Passed, Live
<1>4. CASE polled' = FALSE
  BY <1>4 DEF BudgetKept, AuxiliaryBoundKept
<1>5. CASE SignalArrives \/ Tick
  BY <1>4, <1>5 DEF SignalArrives, Tick
<1>6. CASE \/ BeginParallel \/ StartHooks \/ NextHook \/ HookCancelled
           \/ HookExited \/ HookOverran \/ HookKilled \/ SignalChild
           \/ WaitInterrupted \/ WaitDone \/ WaitDeadline \/ WaitAuxBound
           \/ AuxDone \/ AuxBounded \/ ForceAll \/ ForceDone
  BY <1>4, <1>6 DEF BeginParallel, StartHooks, NextHook, HookCancelled,
       HookExited, HookOverran, HookKilled, SignalChild, WaitInterrupted,
       WaitDone, WaitDeadline, WaitAuxBound, AuxDone, AuxBounded, ForceAll,
       ForceDone, Step
<1>7. CASE \/ BeginSerial \/ EnterFirstStage \/ LeaveStage \/ SshStopFails
           \/ ForceStage
  BY <1>4, <1>7 DEF BeginSerial, EnterFirstStage, LeaveStage, SshStopFails,
       ForceStage, Enter, Step
<1>8. QED
  BY <1>1, <1>2, <1>3, <1>5, <1>6, <1>7 DEF Next, MainThread

-----------------------------------------------------------------------------
(* What follows.                                                           *)

\* The invariant holds throughout a shutdown.
THEOREM ShutdownInvariant == Spec => [](TypeOK /\ ShutdownInv)
<1>1. TypeOK /\ ShutdownInv /\ [Next]_vars => ShutdownInv'
  BY PathPointsStep, TimelineSoundStep, HooksSoundStep, ForcedSoundStep,
     SerialSoundStep, ParallelDoneStep, BoundsStep DEF ShutdownInv
<1>2. QED
  BY ShutdownInit, <1>1, ShutdownTypeCorrect, PTL DEF Spec

\* Fail closed: the lifecycle returns only when everything it owned has ended
\* (_wait_for_managed_shutdown, _force_managed_shutdown,
\* cleanup_startup_failure).  Where ComfyUI has ended first, an sshd that
\* cannot be signalled or reaped may be left, and, when a signal came too late
\* for it, the startup hook that its cancellation handed over alive.
THEOREM ReturnsQuiescent == Spec => []QuiescentReturn
<1>1. ASSUME TypeOK, ShutdownInv PROVE QuiescentReturn
  <2>1. path \in ParallelPaths \/ path \in {"startup", "natural", "late"}
    BY <1>1, PathsAssumption DEF TypeOK, SerialPaths
  <2>2. CASE path \in ParallelPaths
    BY <1>1, <2>2 DEF ShutdownInv, ParallelDone, AllEnded, QuiescentReturn
  <2>3. CASE path \in {"startup", "natural", "late"}
    BY <1>1, <2>3 DEF ShutdownInv, SerialSound, QuiescentReturn, Owners,
         Hooks, Auxiliaries, SerialPaths
  <2>4. QED
    BY <2>1, <2>2, <2>3
<1>2. QED
  BY <1>1, ShutdownInvariant, PTL

\* The total budget is kept: past the deadline, or after a repeated signal,
\* the main thread sleeps only when all that is left has been forced.
THEOREM BudgetIsKept == Spec => []BudgetKept
<1>1. ShutdownInv => BudgetKept
  BY DEF ShutdownInv
<1>2. QED
  BY <1>1, ShutdownInvariant, PTL

\* The auxiliaries' bound is kept in the same way, except while a stop hook
\* runs.
THEOREM AuxiliaryBoundIsKept == Spec => []AuxiliaryBoundKept
<1>1. ShutdownInv => AuxiliaryBoundKept
  BY DEF ShutdownInv
<1>2. QED
  BY <1>1, ShutdownInvariant, PTL

\* Who is newly forced in a step, and why.
LEMMA ForcedForAReason ==
    ASSUME TypeOK, ShutdownInv, [Next]_vars, NEW o \in Owners,
           owner'[o] = "forced", owner[o] # "forced"
    PROVE  \/ ForceRequested
           \/ DeadlinePassed
           \/ (path \in SerialPaths /\ now >= limit)
           \/ (o # "child" /\ AuxBoundPassed)
           \/ (o = "hook" /\ Passed(timeline.preStop))
<1>0. /\ owner \in [Owners -> OwnerStates]
      /\ PathPoints /\ HooksSound
      /\ path \in ParallelPaths \cup SerialPaths
  BY PathsAssumption DEF TypeOK, ShutdownInv
<1>1. ASSUME NEW S, owner' = Asked(S) PROVE FALSE
  BY <1>1 DEF Asked
<1>2. CASE UNCHANGED owner
  BY <1>2
<1>3. ASSUME NEW S, owner' = Forced(S) PROVE o \in S /\ Live(o)
  BY <1>3 DEF Forced
<1>4. CASE \/ \E x \in Owners : OwnerEnds(x)
           \/ HookExited \/ HookKilled \/ NextHook
  BY <1>0, <1>4 DEF OwnerEnds, HookExited, HookKilled, NextHook
<1>5. CASE SignalArrives \/ Tick \/ Done \/ UNCHANGED vars
           \/ HookSleeps \/ WaitSleeps \/ AuxSleeps \/ ForceSleeps
           \/ StageSleeps
  BY <1>5 DEF SignalArrives, Tick, Done, vars, HookSleeps, WaitSleeps,
       AuxSleeps, ForceSleeps, StageSleeps, Sleep
<1>6. CASE HookCancelled
  BY <1>6 DEF HookCancelled
<1>7. CASE HookOverran
  BY <1>3, <1>7 DEF HookOverran, OverrunHookKilled
<1>8. CASE SignalChild
  BY <1>0, <1>8 DEF SignalChild, Asked, Forced, Auxiliaries
<1>9. CASE WaitDeadline
  BY <1>9 DEF WaitDeadline
<1>10. CASE WaitAuxBound
  BY <1>3, <1>10 DEF WaitAuxBound, BoundedOwners, Auxiliaries, Hooks
<1>11. CASE AuxBounded
  BY <1>0, <1>3, <1>11 DEF AuxBounded, HooksSound
<1>12. CASE ForceAll
  BY <1>0, <1>12 DEF ForceAll, HooksSound
<1>13. CASE ForceStage
  BY <1>0, <1>13 DEF ForceStage, StageOver, PathPoints
<1>14. CASE BeginParallel \/ BeginSerial \/ StartHooks
  BY <1>1, <1>14 DEF BeginParallel, BeginSerial, StartHooks
<1>15. CASE WaitInterrupted \/ WaitDone \/ AuxDone \/ ForceDone
  BY <1>15 DEF WaitInterrupted, WaitDone, AuxDone, ForceDone
<1>16. CASE EnterFirstStage \/ LeaveStage \/ SshStopFails
  BY <1>1, <1>16 DEF EnterFirstStage, LeaveStage, SshStopFails, Enter
<1>17. QED
  BY <1>4, <1>5, <1>6, <1>7, <1>8, <1>9, <1>10, <1>11, <1>12, <1>13, <1>14,
     <1>15, <1>16 DEF Next, MainThread

\* Nobody is killed early: only at a repeated signal, past the budget, or past
\* the bound that owner is under.
THEOREM ForceHasAReason == Spec => ForceIsJustified
<1>1. ASSUME TypeOK, ShutdownInv, [Next]_vars
      PROVE  \A o \in Owners : owner'[o] = "forced" /\ owner[o] # "forced" =>
                 \/ ForceRequested
                 \/ DeadlinePassed
                 \/ (path \in SerialPaths /\ now >= limit)
                 \/ (o # "child" /\ AuxBoundPassed)
                 \/ (o = "hook" /\ Passed(timeline.preStop))
  BY <1>1, ForcedForAReason
<1>2. QED
  BY <1>1, ShutdownInvariant, PTL DEF Spec, ForceIsJustified

\* Where ComfyUI is asked or forced on a parallel path.
LEMMA ChildSignalled ==
    ASSUME TypeOK, ShutdownInv, [Next]_vars, path \in ParallelPaths,
           owner'["child"] # owner["child"],
           owner'["child"] \in {"asked", "forced"}
    PROVE  HooksOver /\ owner["hook"] \notin {"running", "asked"}
<1>0. /\ owner \in [Owners -> OwnerStates]
      /\ "child" \in Owners
      /\ PathPoints /\ HooksSound
  BY DEF TypeOK, ShutdownInv, Owners
<1>1. CASE pc \in {"cleanup", "wait", "force"}
  BY <1>0, <1>1 DEF HooksSound
<1>2. CASE pc \notin {"cleanup", "wait", "force"}
  <2>1. CASE \/ \E o \in Owners : OwnerEnds(o)
             \/ HookExited \/ HookKilled \/ NextHook
    BY <1>0, <2>1 DEF OwnerEnds, HookExited, HookKilled, NextHook
  <2>2. CASE SignalArrives \/ Tick \/ Done \/ UNCHANGED vars
             \/ HookSleeps \/ WaitSleeps \/ AuxSleeps \/ ForceSleeps
             \/ StageSleeps
    BY <2>2 DEF SignalArrives, Tick, Done, vars, HookSleeps, WaitSleeps,
         AuxSleeps, ForceSleeps, StageSleeps, Sleep
  <2>3. CASE HookCancelled \/ HookOverran
    BY <1>0, <2>3 DEF HookCancelled, HookOverran, OverrunHookKilled, Forced
  <2>4. CASE SignalChild \/ WaitDeadline \/ WaitAuxBound \/ ForceAll
    BY <1>2, <2>4 DEF SignalChild, WaitDeadline, WaitAuxBound, Waiting,
         ForceAll
  <2>5. CASE AuxBounded
    BY <1>0, <2>5 DEF AuxBounded, Forced, HooksSound
  <2>6. CASE BeginParallel \/ BeginSerial \/ StartHooks
    BY <1>0, <2>6 DEF BeginParallel, BeginSerial, StartHooks, Asked,
         Auxiliaries
  <2>7. CASE WaitInterrupted \/ WaitDone \/ AuxDone \/ ForceDone
    BY <2>7 DEF WaitInterrupted, WaitDone, AuxDone, ForceDone
  <2>8. CASE EnterFirstStage \/ LeaveStage \/ SshStopFails \/ ForceStage
    BY <1>0, <2>8 DEF EnterFirstStage, LeaveStage, SshStopFails, ForceStage,
         PathPoints, Stages
  <2>9. QED
    BY <2>1, <2>2, <2>3, <2>4, <2>5, <2>6, <2>7, <2>8 DEF Next, MainThread
<1>3. QED
  BY <1>1, <1>2

\* ComfyUI is left alone while its stop hooks run (_finish_signal_shutdown,
\* run_runtime_stop_hooks).
THEOREM HooksComeFirst == Spec => HooksBeforeSignal
<1>1. ASSUME TypeOK, ShutdownInv, [Next]_vars, path \in ParallelPaths,
             owner'["child"] # owner["child"],
             owner'["child"] \in {"asked", "forced"}
      PROVE  /\ \/ hooksRun = StopHooks
                \/ hookFailed
                \/ Passed(timeline.preStop)
                \/ ForceRequested
             /\ owner["hook"] \notin {"running", "asked"}
  BY <1>1, ChildSignalled DEF HooksOver
<1>2. QED
  BY <1>1, ShutdownInvariant, PTL DEF Spec, HooksBeforeSignal

=============================================================================
