---------------------- MODULE RuntimeSupervision_proofs ----------------------
(***************************************************************************)
(* The processes of a generation for every choice of settings, hooks and   *)
(* output: what is published is signalled, what was started is gone in the *)
(* end, and only an exit nobody caused is reported.                        *)
(*                                                                         *)
(* None of the three is inductive.  The invariant says who is responsible  *)
(* for each child at each place of the three threads: the startup thread   *)
(* (StarterConsistent, ChildrenOwned), the service that takes over what it *)
(* has won (ServiceConsistent), the monitor (ConfigConsistent), and the    *)
(* main thread (HookOwned); and that the flag is raised before anybody     *)
(* signals (FlagFirst, SignalOnItsWay).                                    *)
(*                                                                         *)
(* The delivery has an invariant of its own, DeliveryInv: the numbers of   *)
(* the events agree with the order of the offers across the queues and the *)
(* worker (Numbered), and the close comes in its order (ClosedInOrder).    *)
(* That no queue outgrows its capacity (QueueLimits) is an invariant apart.*)
(***************************************************************************)
EXTENDS RuntimeSupervision, FiniteSetTheorems, SequenceTheorems, TLAPS

-----------------------------------------------------------------------------
(* The invariant.                                                          *)

AlivePlaces == {"next", "publish", "notify", "wait", "unpublish", "probe",
                "answered", "cleanup", "ending", "clear"}
PollPlaces == {"poll", "look", "signal"}
HookPlaces == {"hook", "hookwait", "hookstop"}
StartupPlaces == HookPlaces \cup PollPlaces
                   \cup {"ssh", "abandon", "abandoned", "started", "up"}
ServicePlaces == {"flag", "request", "stop", "terminate", "ending", "aux"}
ClosedPlaces == {"close", "closing", "closed", "done"}
MainPlaces == StartupPlaces \cup ServicePlaces \cup {"hookleft", "hookend"}
                \cup ClosedPlaces

StarterType == [at : AlivePlaces \cup {"off", "dead"}, step : 1..8,
                result : {"none", "handle", "nothing", "error"}]
MonitorType == [at : {"none", "wait", "clean", "flag", "warn", "mark",
                      "done"},
                warned : BOOLEAN]
MainType == [at : MainPlaces, phase : {"pre", "post"},
             seen : {"none"} \cup Procs, forced : BOOLEAN,
             way : {"none", "parallel", "serial", "exit", "gone"}]

\* The types of what the main thread, the startup thread and the monitor own.
OwnTypes ==
    /\ proc \in ProcType
    /\ starter \in StarterType
    /\ monitor \in MonitorType
    /\ main \in MainType
    /\ slot \in {"none"} \cup Procs
    /\ shutdown \in BOOLEAN
    /\ handle \in BOOLEAN
    /\ reaped \in BOOLEAN
    /\ config \in BOOLEAN
    /\ active \in BOOLEAN

\* The startup thread is at the step its place is for, and publishes the
\* process of that step and no other.
StarterConsistent ==
    /\ starter.at = "off" => starter.step = 1
    /\ starter.at \in {"publish", "notify"} =>
         Step \in Commands \cup {"sshd"}
    /\ starter.at \in {"wait", "unpublish"} => Step \in Commands
    /\ starter.at \in {"probe", "answered", "cleanup", "ending"} =>
         Step = "sshd"
    /\ starter.at \in {"off", "next", "publish", "dead"} => slot = "none"
    /\ starter.at \in AlivePlaces \ {"next", "publish"} =>
         slot \in {"none", Step}
    /\ starter.at \notin {"off", "next", "publish", "clear", "dead"} =>
         slot = Step

\* A child is there only while somebody is responsible for it.
ChildrenOwned ==
    /\ \A p \in Commands :
         proc[p].is # "none" =>
           /\ starter.at \in {"publish", "notify", "wait", "unpublish"}
           /\ Step = p
    /\ proc["sshd"].is # "none" =>
         Step = "sshd" /\ starter.at \notin {"off", "next"}
    /\ starter.at \in {"clear", "dead"} /\ starter.result # "handle" =>
         ~Live("sshd")

\* The configuration is in place only for an sshd that may still run, or
\* until the monitor removes it.
ConfigConsistent ==
    config =>
      /\ starter.step > 6
      /\ starter.at \in {"clear", "dead"} => starter.result = "handle"
      /\ proc["sshd"].is = "reaped" => monitor.at = "clean"

\* The main thread waits for the startup thread; what that has won, the
\* service owns as soon as it was joined, and then the monitor watches it.
ServiceConsistent ==
    /\ starter.at \in AlivePlaces => main.at \in PollPlaces
    /\ main.at \in PollPlaces => starter.at # "off" /\ ~handle
    /\ main.at = "ssh" \/ (main.at \in HookPlaces /\ main.phase = "pre") =>
         starter.at = "off"
    /\ handle => starter.at = "dead" /\ starter.result = "handle"
    /\ main.at \in {"terminate", "ending"} => handle
    /\ (/\ starter.at = "dead" /\ starter.result = "handle"
        /\ main.at \notin PollPlaces) => handle
    /\ reaped => handle /\ proc["sshd"].is = "reaped"
    /\ monitor.at # "none" => handle
    /\ main.at = "started" => monitor.at = "none"
    /\ monitor.at \notin {"none", "wait"} => proc["sshd"].is = "reaped"
    /\ monitor.warned => monitor.at \in {"mark", "done"}

\* Nobody signals an sshd that may be handed over without raising the flag
\* first, and a reported exit was nobody's doing.
FlagFirst ==
    /\ main.at \in {"look", "signal", "abandon", "abandoned", "request",
                    "terminate", "ending"} => shutdown
    /\ starter.at = "notify" => shutdown
    /\ proc["sshd"].asked # "none" =>
         \/ shutdown
         \/ starter.at = "ending"
         \/ starter.at \in {"clear", "dead"} /\ starter.result = "error"
    /\ monitor.at = "warn" \/ monitor.warned => proc["sshd"].asked = "none"

\* PublishedIsSignalled, also while the main thread is about to signal what
\* it has seen in the slot.
SignalOnItsWay ==
    (/\ main.at \in {"poll", "signal"} /\ shutdown
     /\ slot # "none" /\ proc[slot].is = "running") =>
        \/ proc[slot].asked # "none"
        \/ starter.at = "notify"
        \/ main.at = "signal" /\ main.seen = slot

\* A hook is there only while the main thread waits for it, or, after a
\* refused signal, until the services are stopped; once ComfyUI was found to
\* have ended, nobody ends it.
HookOwned ==
    /\ main.way = "none" <=> main.at \in StartupPlaces
    /\ active => main.way \in {"parallel", "serial", "gone"}
    /\ main.way \in {"exit", "gone"} =>
         main.at \in {"stop", "terminate", "ending"} \cup ClosedPlaces
    /\ Live("hook") =>
         \/ main.at \in {"hookwait", "hookstop", "hookleft", "hookend"}
         \/ active /\ main.at \in ServicePlaces
         \/ active /\ main.way = "gone"

\* What the service leaves behind once the main thread is past it.
ServiceGone ==
    main.at \in ClosedPlaces \cup {"hookleft", "hookend"} =>
      ~Live("sshd") /\ ~config

SupervisionInv ==
    /\ OwnTypes
    /\ StarterConsistent
    /\ ChildrenOwned
    /\ ConfigConsistent
    /\ ServiceConsistent
    /\ FlagFirst
    /\ SignalOnItsWay
    /\ HookOwned
    /\ ServiceGone

-----------------------------------------------------------------------------
(* The steps of the startup thread, and operations on a child.             *)

\* The steps in their order: only the last one starts sshd, and only the last
\* two come after the publication of the configuration.
LEMMA StepFacts ==
    ASSUME NEW n \in 1..8
    PROVE  /\ Steps[n] = "keys" => n = 1
           /\ n = 1 => Steps[n] = "keys"
           /\ Steps[n] \in {"chpasswd", "unlock", "status", "keygen"} => n < 6
           /\ Steps[n] = "config" => n = 6
           /\ Steps[n] \in Commands => n < 8
           /\ Steps[n] \in Commands => Steps[n] # "sshd"
           /\ Steps[n] = "sshd" <=> n = 8
           /\ Steps[n] = "preflight" <=> n = 7
           /\ Steps[n] # "none"
BY DEF Steps, Commands

\* The children of this system.
LEMMA Children ==
    /\ Commands \subseteq Procs
    /\ "sshd" \in Procs /\ "sshd" \notin Commands
    /\ "hook" \in Procs /\ "hook" \notin Commands
    /\ "none" \notin Procs
    /\ \A p \in Procs : p \in Commands \/ p = "sshd" \/ p = "hook"
BY ProcsAreChildren DEF Commands

\* All children but p are as before.
OnlyOf(p) == \A q \in Procs \ {p} : proc'[q] = proc[q]

LEMMA SpawnedEffect ==
    ASSUME proc \in ProcType, NEW p \in Procs, proc' = Spawned(p)
    PROVE  /\ proc' \in ProcType /\ OnlyOf(p)
           /\ proc'[p].is = "running" /\ proc'[p].asked = "none"
BY DEF ProcType, Spawned, NoChild, OnlyOf

LEMMA ReapedEffect ==
    ASSUME proc \in ProcType, NEW p \in Procs, proc' = Reaped(p)
    PROVE  /\ proc' \in ProcType /\ OnlyOf(p)
           /\ proc'[p].is = "reaped" /\ proc'[p].asked = proc[p].asked
BY DEF ProcType, Reaped, OnlyOf

LEMMA ForgottenEffect ==
    ASSUME proc \in ProcType, NEW p \in Procs, proc' = Forgotten(p)
    PROVE  /\ proc' \in ProcType /\ OnlyOf(p)
           /\ proc'[p].is = "none" /\ proc'[p].asked = "none"
BY DEF ProcType, Forgotten, NoChild, OnlyOf

\* A signal reaps a child that is seen to have ended, and is remembered by one
\* that runs.
LEMMA AskedEffect ==
    ASSUME proc \in ProcType, NEW p \in Procs, NEW held \in BOOLEAN,
           NEW sig \in {"term", "kill"}, proc' = Asked(p, held, sig)
    PROVE  /\ proc' \in ProcType /\ OnlyOf(p)
           /\ Terminal(p, held) => proc'[p].is = "reaped"
           /\ ~Terminal(p, held) => proc'[p].is = proc[p].is
           /\ proc[p].is # "running" => proc'[p].asked = proc[p].asked
           /\ proc[p].is = "running" =>
                proc'[p].is = "running" /\ proc'[p].asked # "none"
<1>1. CASE Terminal(p, held)
  BY <1>1, ReapedEffect DEF Asked, Terminal
<1>2. CASE ~Terminal(p, held)
  BY <1>2 DEF Asked, Terminal, ProcType, OnlyOf
<1>3. QED
  BY <1>1, <1>2

LEMMA EndsEffect ==
    ASSUME proc \in ProcType, NEW p \in Procs, ChildEnds(p)
    PROVE  /\ proc' \in ProcType /\ OnlyOf(p)
           /\ proc[p].is = "running" /\ proc'[p].is = "ended"
           /\ proc'[p].asked = proc[p].asked
<1>1. PICK b \in BOOLEAN :
        proc' = [proc EXCEPT ![p] = [@ EXCEPT !.is = "ended", !.bad = b]]
  BY DEF ChildEnds, ProcType
<1>2. QED
  BY <1>1 DEF ChildEnds, ProcType, OnlyOf

-----------------------------------------------------------------------------
(* The startup thread.                                                     *)

\* What a step of the startup thread has to keep: while it lives the main
\* thread waits for it, and the service owns nothing.
LEMMA StarterReduced ==
    ASSUME SupervisionInv, starter.at \in AlivePlaces,
           UNCHANGED <<main, active, shutdown, handle, reaped, monitor>>,
           proc' \in ProcType, starter' \in StarterType,
           slot' \in {"none"} \cup Procs, config' \in BOOLEAN,
           StarterConsistent', ChildrenOwned', SignalOnItsWay',
           starter'.at # "off",
           starter'.at = "notify" => shutdown,
           config' => /\ starter'.step > 6
                      /\ starter'.at \in {"clear", "dead"} =>
                           starter'.result = "handle"
                      /\ proc'["sshd"].is # "reaped",
           proc'["sshd"].asked # "none" =>
              \/ shutdown
              \/ starter'.at = "ending"
              \/ starter'.at \in {"clear", "dead"}
                   /\ starter'.result = "error",
           proc'["hook"] = proc["hook"]
    PROVE  SupervisionInv'
<1>1. /\ main.at \in PollPlaces /\ main.at \notin ClosedPlaces
      /\ main.at \notin HookPlaces /\ main.at # "ssh" /\ main.at # "started"
      /\ main.at \notin {"hookleft", "hookend", "terminate", "ending"}
      /\ ~handle /\ ~reaped /\ monitor.at = "none" /\ ~monitor.warned
      /\ main' = main /\ active' = active /\ shutdown' = shutdown
      /\ handle' = handle /\ reaped' = reaped /\ monitor' = monitor
  BY DEF SupervisionInv, ServiceConsistent, OwnTypes, AlivePlaces,
     PollPlaces, ClosedPlaces, HookPlaces
<1>2. OwnTypes'
  BY <1>1 DEF SupervisionInv, OwnTypes
<1>3. ConfigConsistent' /\ ServiceGone'
  BY <1>1 DEF ConfigConsistent, ServiceGone
<1>4. ServiceConsistent'
  BY <1>1 DEF ServiceConsistent
<1>5. FlagFirst'
  BY <1>1 DEF SupervisionInv, FlagFirst
<1>6. HookOwned'
  BY <1>1 DEF SupervisionInv, HookOwned, Live
<1>7. QED
  BY <1>2, <1>3, <1>4, <1>5, <1>6 DEF SupervisionInv

\* How the startup thread moves.
LEMMA StarterMoves ==
    ASSUME starter \in StarterType
    PROVE  /\ \A at \in AlivePlaces \cup {"dead"} :
                starter' = [starter EXCEPT !.at = at] =>
                   /\ starter' \in StarterType /\ starter'.at = at
                   /\ starter'.step = starter.step
                   /\ starter'.result = starter.result
           /\ \A at \in AlivePlaces,
                 result \in {"handle", "nothing", "error"} :
                starter' = [starter EXCEPT !.at = at, !.result = result] =>
                   /\ starter' \in StarterType /\ starter'.at = at
                   /\ starter'.step = starter.step
                   /\ starter'.result = result
           /\ starter.step < 8 /\
                starter' = [starter EXCEPT !.at = "next", !.step = @ + 1] =>
                   /\ starter' \in StarterType /\ starter'.at = "next"
                   /\ starter'.step = starter.step + 1
                   /\ starter'.result = starter.result
           /\ \A x \in {"next", "clear"} : x \in AlivePlaces
<1>1. ASSUME NEW at \in AlivePlaces \cup {"dead"},
             starter' = [starter EXCEPT !.at = at]
      PROVE  /\ starter' \in StarterType /\ starter'.at = at
             /\ starter'.step = starter.step
             /\ starter'.result = starter.result
  BY <1>1 DEF StarterType, AlivePlaces
<1>2. ASSUME NEW at \in AlivePlaces,
             NEW result \in {"handle", "nothing", "error"},
             starter' = [starter EXCEPT !.at = at, !.result = result]
      PROVE  /\ starter' \in StarterType /\ starter'.at = at
             /\ starter'.step = starter.step
             /\ starter'.result = result
  BY <1>2 DEF StarterType, AlivePlaces
<1>3. ASSUME starter.step < 8,
             starter' = [starter EXCEPT !.at = "next", !.step = @ + 1]
      PROVE  /\ starter' \in StarterType /\ starter'.at = "next"
             /\ starter'.step = starter.step + 1
             /\ starter'.result = starter.result
  <2>1. starter' = [starter EXCEPT !.at = "next", !.step = starter.step + 1]
    BY <1>3 DEF StarterType
  <2>2. starter.step \in 1..8 /\ starter.step + 1 \in 1..8
    BY <1>3 DEF StarterType
  <2>3. QED
    BY <2>1, <2>2 DEF StarterType, AlivePlaces
<1>4. \A x \in {"next", "clear"} : x \in AlivePlaces
  BY DEF AlivePlaces
<1>5. QED
  BY <1>1, <1>2, <1>3, <1>4

LEMMA StarterKeepsInv ==
    ASSUME SupervisionInv, StarterStep,
           UNCHANGED <<main, hooks, active>>
    PROVE  SupervisionInv'
<1> USE DEF AtStarter, GoStarter, Step
<1>0. /\ proc \in ProcType /\ starter \in StarterType
      /\ slot \in {"none"} \cup Procs /\ config \in BOOLEAN
      /\ StarterConsistent /\ ChildrenOwned /\ SignalOnItsWay
      /\ config => starter.step > 6
      /\ starter.at = "notify" => shutdown
      /\ proc["sshd"].asked # "none" =>
            \/ shutdown
            \/ starter.at = "ending"
            \/ starter.at \in {"clear", "dead"} /\ starter.result = "error"
  BY DEF SupervisionInv, OwnTypes, FlagFirst, ConfigConsistent
<1>a. starter.at \in AlivePlaces /\ UNCHANGED <<shutdown, handle, reaped,
                                                monitor>>
  BY DEF StarterStep, AlivePlaces, PrepareKeys, JudgeCredentials,
     PublishConfig, SkipPassword, Spawn, Publish, Notify, CommandEnds,
     Unpublish, ProbeFails, ProbeAnswers, Ready, CleanUp, CleanUpEscalates,
     CleanedUp, StarterDies, serviceVars
<1>b. /\ monitor.at = "none" /\ ~HeldByMonitor
      /\ config /\ starter.at # "clear" => proc["sshd"].is # "reaped"
      /\ config /\ starter.at = "clear" => starter.result = "handle"
      /\ config => proc["sshd"].is # "reaped"
      /\ SshdPolled <=> proc["sshd"].is \in {"reaped", "ended"}
  BY <1>a DEF SupervisionInv, ServiceConsistent, ConfigConsistent,
     AlivePlaces, HeldByMonitor, SshdPolled, Terminal
<1> DEFINE s == Steps[starter.step]
<1>s. /\ starter.step \in 1..8
      /\ Steps[starter.step] = "keys" => starter.step = 1
      /\ starter.step = 1 => Steps[starter.step] = "keys"
      /\ Steps[starter.step] \in {"chpasswd", "unlock", "status", "keygen"}
           => starter.step < 6
      /\ Steps[starter.step] = "config" => starter.step = 6
      /\ Steps[starter.step] \in Commands =>
           starter.step < 8 /\ Steps[starter.step] # "sshd"
      /\ Steps[starter.step] = "sshd" <=> starter.step = 8
      /\ Steps[starter.step] = "preflight" <=> starter.step = 7
      /\ Steps[starter.step] # "none"
  BY <1>0, StepFacts DEF StarterType
<1>q. ASSUME proc' \in ProcType, starter' \in StarterType,
             slot' \in {"none"} \cup Procs, config' \in BOOLEAN,
             StarterConsistent', ChildrenOwned', SignalOnItsWay',
             starter'.at # "off",
             starter'.at = "notify" => shutdown,
             config' => /\ starter'.step > 6
                        /\ starter'.at \in {"clear", "dead"} =>
                             starter'.result = "handle"
                        /\ proc'["sshd"].is # "reaped",
             proc'["sshd"].asked # "none" =>
                \/ shutdown
                \/ starter'.at = "ending"
                \/ starter'.at \in {"clear", "dead"}
                     /\ starter'.result = "error",
             proc'["hook"] = proc["hook"]
      PROVE  SupervisionInv'
  BY <1>a, <1>q, StarterReduced
<1>n. starter.at = "next" =>
        /\ slot = "none" /\ proc["sshd"].is = "none"
        /\ \A p \in Commands : proc[p].is = "none"
  BY <1>0 DEF StarterConsistent, ChildrenOwned
\* The thread goes on to the next step, or ends without anything.
<1>c. ASSUME starter.at = "next", UNCHANGED <<slot, proc>>,
             starter' \in StarterType,
             starter'.at \in {"next", "clear"},
             starter'.at = "clear" =>
               starter'.result \in {"error", "nothing"},
             starter'.step >= starter.step,
             config' \in BOOLEAN,
             config' => starter'.step > 6 /\ starter'.at = "next"
      PROVE  SupervisionInv'
  <2>1. StarterConsistent'
    BY <1>0, <1>n, <1>c DEF StarterConsistent, AlivePlaces
  <2>2. ChildrenOwned'
    BY <1>n, <1>c DEF ChildrenOwned, Live
  <2>3. SignalOnItsWay'
    BY <1>n, <1>c DEF SignalOnItsWay
  <2>4. QED
    BY <1>0, <1>n, <1>c, <1>q, <2>1, <2>2, <2>3
<1>1. CASE PrepareKeys \/ JudgeCredentials \/ PublishConfig \/ SkipPassword
  <2>1. /\ starter.at = "next"
        /\ UNCHANGED <<slot, proc>>
        /\ \/ Continues /\ starter.step < 8
           \/ starter' = [starter EXCEPT !.at = "clear", !.result = "error"]
           \/ starter' = [starter EXCEPT !.at = "clear", !.result = "nothing"]
        /\ \/ UNCHANGED config /\ starter.step \in {1, 4} \cup 2..5
           \/ config' = TRUE /\ starter.step = 6 /\ Continues
           \/ UNCHANGED config /\ starter.step = 6 /\ Fails
    BY <1>1, <1>s DEF PrepareKeys, JudgeCredentials, PublishConfig,
       SkipPassword, serviceVars, Fails
  <2>2. /\ starter' \in StarterType
        /\ \/ /\ starter'.at = "next" /\ starter'.step = starter.step + 1
           \/ /\ starter'.at = "clear" /\ starter'.step = starter.step
              /\ starter'.result \in {"error", "nothing"}
    BY <1>0, <2>1, StarterMoves DEF Continues, Fails
  <2>3. config => starter.step > 6
    BY <1>0
  <2>4. starter.step \in 1..8
    BY <1>s
  <2>5. config' \in BOOLEAN
    BY <1>0, <2>1
  <2>6. config' => starter'.step > 6 /\ starter'.at = "next"
    <3>1. CASE UNCHANGED config
      <4>1. starter.step <= 6
        BY <2>1, <3>1
      <4>2. ~config
        BY <2>3, <2>4, <4>1
      <4>3. QED
        BY <3>1, <4>2
    <3>2. CASE starter.step = 6 /\ Continues
      <4>1. starter.step < 8 /\ starter.step + 1 > 6
        BY <3>2
      <4>2. starter'.at = "next" /\ starter'.step = starter.step + 1
        BY <1>0, <3>2, <4>1, StarterMoves DEF Continues
      <4>3. QED
        BY <4>1, <4>2
    <3>3. QED
      BY <2>1, <3>1, <3>2
  <2>7. QED
    BY <1>c, <2>1, <2>2, <2>4, <2>5, <2>6
<1>2. CASE Spawn
  <2>1. CASE Fails
    <3>1. /\ starter' \in StarterType /\ starter'.at = "clear"
          /\ starter'.step = starter.step /\ starter'.result = "error"
      BY <1>0, <2>1, StarterMoves DEF Fails
    <3>2. UNCHANGED <<slot, proc>> /\ config' = FALSE /\ starter.at = "next"
      BY <1>0, <1>2, <3>1, StarterMoves DEF Spawn, serviceVars
    <3>3. config' \in BOOLEAN /\ ~config'
      BY <3>2
    <3>4. starter'.step >= starter.step
      BY <1>s, <3>1
    <3>5. QED
      BY <1>c, <3>1, <3>2, <3>3, <3>4
  <2>2. CASE ~Fails
    <3>1. /\ starter.at = "next"
          /\ s \in Commands \cup {"sshd"} /\ s \in Procs
          /\ starter' = [starter EXCEPT !.at = "publish"]
          /\ UNCHANGED <<slot, config>>
          /\ proc' = Spawned(s)
      BY <1>2, <2>2, Children DEF Spawn, serviceVars
    <3>2. /\ starter'.at = "publish" /\ starter'.step = starter.step
          /\ starter' \in StarterType
      BY <1>0, <3>1 DEF StarterType, AlivePlaces
    <3>3. /\ proc' \in ProcType /\ OnlyOf(s)
          /\ proc'[s].is = "running" /\ proc'[s].asked = "none"
      BY <1>0, <3>1, SpawnedEffect
    <3>4. StarterConsistent' /\ SignalOnItsWay'
      BY <1>n, <3>1, <3>2, <1>0 DEF StarterConsistent, SignalOnItsWay,
         AlivePlaces
    <3>5. ChildrenOwned'
      BY <1>n, <1>s, <3>1, <3>2, <3>3, Children DEF ChildrenOwned, OnlyOf
    <3>6. QED
      BY <1>0, <1>q, <1>b, <3>1, <3>2, <3>3, <3>4, <3>5, Children
         DEF OnlyOf
  <2>3. QED
    BY <1>2, <2>1, <2>2 DEF Spawn
<1>3. CASE Publish
  <2>1. /\ starter.at = "publish" /\ slot' = s
        /\ UNCHANGED <<config, proc>>
        /\ s \in Commands \cup {"sshd"}
        /\ starter' \in StarterType
        /\ starter'.step = starter.step
        /\ starter'.at = IF shutdown THEN "notify"
                         ELSE IF s = "sshd" THEN "probe" ELSE "wait"
    BY <1>0, <1>3 DEF Publish, StarterType, AlivePlaces, StarterConsistent
  <2>2. StarterConsistent'
    BY <2>1 DEF StarterConsistent, AlivePlaces
  <2>3. ChildrenOwned'
    BY <1>0, <1>s, <2>1 DEF ChildrenOwned
  <2>4. SignalOnItsWay'
    BY <1>a, <2>1 DEF SignalOnItsWay
  <2>5. QED
    BY <1>0, <1>q, <1>b, <2>1, <2>2, <2>3, <2>4, Children
<1>4. CASE Notify
  <2>1. /\ starter.at = "notify" /\ slot' = slot /\ slot = s
        /\ config' \in BOOLEAN
        /\ config' => config /\ ~(s = "sshd" /\ SshdPolled)
        /\ s \in Commands \cup {"sshd"} /\ s \in Procs
        /\ starter' \in StarterType
        /\ starter'.step = starter.step
        /\ starter'.at = IF s = "sshd" THEN "probe" ELSE "wait"
    BY <1>0, <1>4, Children DEF Notify, StarterType, AlivePlaces,
       StarterConsistent, serviceVars
  <2>2. /\ proc' \in ProcType /\ OnlyOf(s)
        /\ Terminal(s, FALSE) => proc'[s].is = "reaped"
        /\ ~Terminal(s, FALSE) => proc'[s].is = proc[s].is
        /\ proc[s].is # "running" => proc'[s].asked = proc[s].asked
        /\ proc[s].is = "running" =>
                proc'[s].is = "running" /\ proc'[s].asked # "none"
    BY <1>0, <1>4, <2>1, AskedEffect DEF Notify
  <2>3. StarterConsistent'
    BY <2>1 DEF StarterConsistent, AlivePlaces
  <2>4. ChildrenOwned'
    BY <1>0, <1>s, <2>1, <2>2, Children DEF ChildrenOwned, OnlyOf, Terminal
  <2>5. SignalOnItsWay'
    BY <2>1, <2>2 DEF SignalOnItsWay, Terminal
  <2>6. config' => proc'["sshd"].is # "reaped"
    BY <1>b, <2>1, <2>2, Children DEF OnlyOf, Terminal
  <2>7. shutdown /\ proc'["hook"] = proc["hook"]
    BY <1>0, <2>1, <2>2, Children DEF OnlyOf
  <2>8. QED
    BY <1>0, <1>q, <2>1, <2>2, <2>3, <2>4, <2>5, <2>6, <2>7
<1>5. CASE CommandEnds \/ Unpublish
  <2>1. /\ starter.at \in {"wait", "unpublish"}
        /\ s \in Commands /\ s \in Procs /\ slot = s
        /\ s # "sshd" /\ s # "hook" /\ starter.step < 8
    BY <1>0, <1>5, <1>s, Children
       DEF CommandEnds, Unpublish, StarterConsistent
  <2>2. /\ proc' \in ProcType /\ OnlyOf(s)
        /\ proc'[s].is \in {"none", "reaped"}
        /\ proc'[s].is = "reaped" => CommandEnds
    BY <1>0, <1>5, <2>1, ReapedEffect, ForgottenEffect
       DEF CommandEnds, Unpublish
  <2>3. /\ proc'["hook"] = proc["hook"] /\ proc'["sshd"] = proc["sshd"]
        /\ proc'["sshd"].is = "none"
        /\ \A p \in Commands : p # s => proc'[p].is = "none"
    BY <1>0, <1>s, <2>1, <2>2, Children DEF ChildrenOwned, OnlyOf
  <2>4. CASE CommandEnds
    <3>1. /\ starter' \in StarterType /\ starter'.at = "unpublish"
          /\ starter'.step = starter.step
          /\ UNCHANGED <<slot, config>>
      BY <1>0, <2>4 DEF CommandEnds, StarterType, AlivePlaces, serviceVars
    <3>2. StarterConsistent' /\ ChildrenOwned' /\ SignalOnItsWay'
      BY <2>1, <2>2, <2>3, <2>4, <3>1
         DEF CommandEnds, StarterConsistent, ChildrenOwned, SignalOnItsWay,
             AlivePlaces
    <3>3. QED
      BY <1>0, <1>q, <1>b, <2>1, <2>2, <2>3, <3>1, <3>2
  <2>5. CASE Unpublish
    <3>1. /\ slot' = "none" /\ proc'[s].is = "none"
          /\ starter' \in StarterType
          /\ config' \in BOOLEAN
          /\ \/ /\ starter'.at = "clear" /\ starter'.result = "error"
                /\ starter'.step = starter.step /\ config' = FALSE
             \/ /\ starter'.at = "next" /\ config' = config
                /\ starter'.step = starter.step + 1
      BY <1>0, <2>1, <2>5, <1>s, ForgottenEffect, StarterMoves
         DEF Unpublish, Fails, Continues
    <3>2. StarterConsistent' /\ ChildrenOwned' /\ SignalOnItsWay'
      BY <2>1, <2>2, <2>3, <3>1 DEF StarterConsistent, ChildrenOwned,
         SignalOnItsWay, AlivePlaces, Live
    <3>3. QED
      BY <1>0, <1>q, <1>b, <2>1, <2>2, <2>3, <3>1, <3>2
         DEF StarterType
  <2>6. QED
    BY <1>5, <2>4, <2>5
\* The steps around a running sshd.
<1>d. ASSUME starter.at \in {"probe", "answered", "cleanup", "ending",
                             "clear"},
             starter.at = "clear" => starter'.at = "dead",
             starter.at # "clear" => starter'.at # "dead" /\ slot' = slot,
             starter' \in StarterType,
             starter'.step = starter.step,
             starter'.at \notin {"off", "next", "publish", "notify", "wait",
                                 "unpublish"},
             starter'.at = "dead" => slot' = "none",
             starter'.at \in {"clear", "dead"} /\
               starter'.result # "handle" => proc'["sshd"].is # "running"
                 /\ proc'["sshd"].is # "ended" /\ config' = FALSE,
             config' \in BOOLEAN,
             config' => config /\ proc'["sshd"].is # "reaped",
             proc' \in ProcType, OnlyOf("sshd"),
             proc["sshd"].is = "none" => proc'["sshd"].is = "none",
             proc["sshd"].is # "running" => proc'["sshd"].is # "running",
             proc'["sshd"].asked = "none" => proc["sshd"].asked = "none",
             proc'["sshd"].asked # "none" =>
                \/ shutdown
                \/ starter'.at = "ending"
                \/ starter'.at \in {"clear", "dead"}
                     /\ starter'.result = "error"
      PROVE  SupervisionInv'
  <2>1. /\ slot \in {"none", s}
        /\ starter.at # "clear" => slot = s /\ s = "sshd"
        /\ slot' \in {"none", slot}
    BY <1>0, <1>d DEF StarterConsistent, AlivePlaces, StarterType
  <2>2. StarterConsistent'
    BY <1>0, <1>d, <2>1 DEF StarterConsistent, AlivePlaces, StarterType
  <2>3. \A p \in Commands : proc'[p].is = "none"
    BY <1>0, <1>d, Children DEF ChildrenOwned, OnlyOf
  <2>4. ChildrenOwned'
    BY <1>0, <1>d, <2>3 DEF ChildrenOwned, Live
  <2>5. proc'["hook"] = proc["hook"]
    BY <1>d, Children DEF OnlyOf
  <2>6. SignalOnItsWay'
    <3>1. slot' # "none" => slot' = "sshd" \/ proc'[slot'].is = "none"
      BY <1>0, <1>d, <2>1, <2>3, Children DEF OnlyOf
    <3>2. QED
      BY <1>0, <1>a, <1>d, <2>1, <2>3, <3>1, Children
         DEF SignalOnItsWay, OnlyOf
  <2>7. QED
    BY <1>0, <1>q, <1>d, <2>1, <2>2, <2>4, <2>5, <2>6
<1>e. UNCHANGED proc => proc' \in ProcType /\ OnlyOf("sshd")
  BY <1>0 DEF OnlyOf
<1>6. CASE ProbeFails
  <2>1. /\ starter.at \in {"probe", "answered"}
        /\ starter' \in StarterType /\ starter'.at = "cleanup"
        /\ starter'.step = starter.step
        /\ UNCHANGED slot
        /\ config' \in BOOLEAN
        /\ config' => config /\ ~SshdPolled
        /\ \/ SshdPolled /\ proc' = Reaped("sshd")
           \/ ~SshdPolled /\ UNCHANGED proc
    BY <1>0, <1>6, StarterMoves DEF ProbeFails, serviceVars, AlivePlaces
  <2>2. CASE SshdPolled
    BY <1>0, <1>b, <1>d, <2>1, <2>2, ReapedEffect, Children
  <2>3. CASE ~SshdPolled
    BY <1>0, <1>b, <1>d, <1>e, <2>1, <2>3
  <2>4. QED
    BY <2>2, <2>3
<1>7. CASE ProbeAnswers \/ Ready
  <2>1. /\ starter.at \in {"probe", "answered"}
        /\ starter' \in StarterType /\ starter'.at \in {"answered", "clear"}
        /\ starter'.step = starter.step
        /\ starter'.at = "clear" => starter'.result = "handle"
        /\ UNCHANGED <<slot, config, proc>>
    BY <1>0, <1>7, StarterMoves DEF ProbeAnswers, Ready, serviceVars,
       AlivePlaces
  <2>2. QED
    BY <1>0, <1>b, <1>d, <1>e, <2>1
<1>8. CASE CleanUp
  <2>1. /\ starter.at = "cleanup"
        /\ starter' \in StarterType /\ starter'.at = "ending"
        /\ starter'.step = starter.step
        /\ UNCHANGED slot
        /\ config' \in BOOLEAN
        /\ config' => config /\ ~SshdPolled
        /\ proc' = Asked("sshd", FALSE, "term")
    BY <1>0, <1>8, StarterMoves DEF CleanUp, serviceVars, AlivePlaces
  <2>2. /\ proc' \in ProcType /\ OnlyOf("sshd")
        /\ Terminal("sshd", FALSE) => proc'["sshd"].is = "reaped"
        /\ ~Terminal("sshd", FALSE) => proc'["sshd"].is = proc["sshd"].is
        /\ proc["sshd"].is # "running" =>
             proc'["sshd"].asked = proc["sshd"].asked
        /\ proc["sshd"].is = "running" => proc'["sshd"].asked # "none"
    BY <1>0, <2>1, AskedEffect, Children
  <2>3. QED
    BY <1>0, <1>b, <1>d, <2>1, <2>2 DEF Terminal
<1>9. CASE CleanUpEscalates
  <2>1. /\ starter.at = "ending" /\ ~SshdPolled
        /\ UNCHANGED <<slot, starter, config>>
        /\ proc' = Asked("sshd", FALSE, "kill")
    BY <1>9 DEF CleanUpEscalates, serviceVars
  <2>2. /\ proc' \in ProcType /\ OnlyOf("sshd")
        /\ Terminal("sshd", FALSE) => proc'["sshd"].is = "reaped"
        /\ ~Terminal("sshd", FALSE) => proc'["sshd"].is = proc["sshd"].is
        /\ proc["sshd"].is # "running" =>
             proc'["sshd"].asked = proc["sshd"].asked
        /\ proc["sshd"].is = "running" => proc'["sshd"].asked # "none"
    BY <1>0, <2>1, AskedEffect, Children
  <2>3. QED
    BY <1>0, <1>b, <1>d, <2>1, <2>2 DEF Terminal
<1>10. CASE CleanedUp
  <2>1. /\ starter.at = "ending" /\ SshdPolled
        /\ starter' \in StarterType /\ starter'.at = "clear"
        /\ starter'.step = starter.step /\ starter'.result = "error"
        /\ UNCHANGED slot
        /\ config' = FALSE
        /\ proc' = Reaped("sshd")
    BY <1>0, <1>10, StarterMoves DEF CleanedUp, Fails, serviceVars
  <2>2. QED
    BY <1>0, <1>b, <1>d, <2>1, ReapedEffect, Children
<1>11. CASE StarterDies
  <2>1. /\ starter.at = "clear"
        /\ starter' \in StarterType /\ starter'.at = "dead"
        /\ starter'.step = starter.step /\ starter'.result = starter.result
        /\ slot' = "none"
        /\ UNCHANGED <<config, proc>>
    BY <1>0, <1>11, StarterMoves DEF StarterDies
  <2>2. starter.result # "handle" => ~Live("sshd") /\ ~config
    BY <1>0, <1>b, <2>1 DEF ChildrenOwned
  <2>3. QED
    BY <1>0, <1>b, <1>d, <1>e, <2>1, <2>2 DEF Live
<1>12. QED
  BY <1>1, <1>2, <1>3, <1>4, <1>5, <1>6, <1>7, <1>8, <1>9, <1>10, <1>11
     DEF StarterStep

-----------------------------------------------------------------------------
(* The monitor and the end of a child.                                     *)

LEMMA MonitorKeepsInv ==
    ASSUME SupervisionInv, MonitorStep, UNCHANGED <<main, hooks, active>>
    PROVE  SupervisionInv'
<1> USE DEF SupervisionInv
<1>1. /\ UNCHANGED <<slot, shutdown, handle, starter, main, active>>
      /\ monitor.at # "none"
  BY DEF MonitorStep, MonitorReaps, MonitorCleans, MonitorJudges,
     MonitorWarns, MonitorEnds, onlyMonitor
<1>2. /\ starter.at = "dead" /\ starter.result = "handle" /\ handle
      /\ slot = "none"
      /\ \A p \in Commands : proc[p].is = "none"
  BY <1>1 DEF ServiceConsistent, StarterConsistent, ChildrenOwned
<1>3. /\ proc' \in ProcType /\ OnlyOf("sshd")
      /\ proc'["sshd"].asked = proc["sshd"].asked
      /\ \/ proc'["sshd"].is = proc["sshd"].is
         \/ MonitorReaps /\ proc'["sshd"].is = "reaped"
              /\ proc["sshd"].is # "none"
  <2>1. CASE UNCHANGED proc
    BY <2>1 DEF OwnTypes, OnlyOf
  <2>2. CASE MonitorReaps
    BY <2>2, ReapedEffect, Children DEF OwnTypes, MonitorReaps
  <2>3. QED
    BY <2>1, <2>2 DEF MonitorStep, MonitorCleans, MonitorJudges,
       MonitorWarns, MonitorEnds
<1>4. /\ monitor' \in MonitorType
      /\ config' \in BOOLEAN /\ reaped' \in BOOLEAN
      /\ \/ /\ MonitorReaps
            /\ monitor.at = "wait" /\ monitor'.at = "clean"
            /\ proc'["sshd"].is = "reaped"
            /\ monitor'.warned = monitor.warned
            /\ UNCHANGED <<config, reaped>>
         \/ /\ monitor.at = "clean" /\ monitor'.at = "flag"
            /\ monitor'.warned = monitor.warned
            /\ config' = FALSE /\ UNCHANGED <<proc, reaped>>
         \/ /\ monitor.at = "flag" /\ monitor'.at \in {"mark", "warn"}
            /\ monitor'.at = "warn" => ~shutdown
            /\ monitor'.warned = monitor.warned
            /\ UNCHANGED <<config, proc, reaped>>
         \/ /\ monitor.at = "warn" /\ monitor'.at = "mark"
            /\ UNCHANGED <<config, proc, reaped>>
         \/ /\ monitor.at = "mark" /\ monitor'.at = "done"
            /\ monitor'.warned = monitor.warned
            /\ UNCHANGED <<config, proc>>
  <2>1. CASE MonitorReaps
    BY <2>1, ReapedEffect, Children
       DEF OwnTypes, MonitorType, MonitorReaps
  <2>2. CASE MonitorCleans
    BY <2>2 DEF OwnTypes, MonitorType, MonitorCleans
  <2>3. CASE MonitorJudges
    BY <2>3 DEF OwnTypes, MonitorType, MonitorJudges
  <2>4. CASE MonitorWarns
    BY <2>4 DEF OwnTypes, MonitorType, MonitorWarns
  <2>5. CASE MonitorEnds
    BY <2>5 DEF OwnTypes, MonitorType, MonitorEnds
  <2>6. QED
    BY <2>1, <2>2, <2>3, <2>4, <2>5 DEF MonitorStep
<1>5. OwnTypes'
  BY <1>1, <1>3, <1>4 DEF OwnTypes
<1>6. StarterConsistent'
  BY <1>1 DEF StarterConsistent, Step
<1>7. ChildrenOwned'
  BY <1>1, <1>2, <1>3, Children DEF ChildrenOwned, OnlyOf, Step
<1>8. ConfigConsistent'
  BY <1>1, <1>2, <1>3, <1>4 DEF ConfigConsistent, ServiceConsistent
<1>9. ServiceConsistent'
  BY <1>1, <1>2, <1>3, <1>4 DEF ServiceConsistent
<1>10. FlagFirst'
  BY <1>1, <1>2, <1>3, <1>4 DEF FlagFirst, ServiceConsistent
<1>11. SignalOnItsWay'
  BY <1>1, <1>2 DEF SignalOnItsWay
<1>12. HookOwned'
  BY <1>1, <1>3, Children DEF HookOwned, OnlyOf, Live
<1>13. ServiceGone'
  BY <1>1, <1>3, <1>4 DEF ServiceGone, Live, MonitorReaps
<1>14. QED
  BY <1>5, <1>6, <1>7, <1>8, <1>9, <1>10, <1>11, <1>12, <1>13

LEMMA ChildEndsKeepsInv ==
    ASSUME SupervisionInv, NEW p \in Procs, ProcEnds(p)
    PROVE  SupervisionInv'
<1> USE DEF SupervisionInv
<1>1. /\ UNCHANGED <<slot, shutdown, handle, reaped, starter, monitor, main,
                     config, active>>
      /\ proc' \in ProcType /\ OnlyOf(p)
      /\ proc[p].is = "running" /\ proc'[p].is = "ended"
      /\ proc'[p].asked = proc[p].asked
  BY EndsEffect DEF OwnTypes, ProcEnds, onlySsh, mainVars
<1>2. \A q \in Procs : /\ proc'[q].asked = proc[q].asked
                       /\ \/ proc'[q].is = proc[q].is
                          \/ proc[q].is = "running" /\ proc'[q].is = "ended"
  BY <1>1 DEF OnlyOf
<1>3. OwnTypes'
  BY <1>1 DEF OwnTypes
<1>4. StarterConsistent'
  BY <1>1 DEF StarterConsistent, Step
<1>5. ChildrenOwned'
  BY <1>1, <1>2, Children DEF ChildrenOwned, Step, Live
<1>6. ConfigConsistent' /\ ServiceConsistent' /\ FlagFirst'
  BY <1>1, <1>2, Children DEF ConfigConsistent, ServiceConsistent, FlagFirst
<1>7. SignalOnItsWay'
  BY <1>1, <1>2 DEF SignalOnItsWay, OwnTypes
<1>8. HookOwned' /\ ServiceGone'
  BY <1>1, <1>2, Children DEF HookOwned, ServiceGone, Live
<1>9. QED
  BY <1>3, <1>4, <1>5, <1>6, <1>7, <1>8

-----------------------------------------------------------------------------
(* The main thread.                                                        *)

\* What a step of the main thread has to keep while the startup thread is not
\* alive.
LEMMA MainReduced ==
    ASSUME SupervisionInv, main.at \notin PollPlaces,
           main' \in MainType, main'.at \notin PollPlaces,
           UNCHANGED <<starter, slot, handle>>,
           proc' \in ProcType, monitor' \in MonitorType,
           shutdown' \in BOOLEAN, reaped' \in BOOLEAN, config' \in BOOLEAN,
           active' \in BOOLEAN,
           \A p \in Commands : proc'[p] = proc[p],
           \/ proc'["sshd"].is = proc["sshd"].is
           \/ proc["sshd"].is = "ended" /\ proc'["sshd"].is = "reaped",
           proc["sshd"].is # "running" =>
              proc'["sshd"].asked = proc["sshd"].asked,
           proc'["sshd"].asked # "none" =>
              shutdown' \/ proc["sshd"].asked # "none",
           config' => config,
           config' /\ proc'["sshd"].is = "reaped" => monitor'.at = "clean",
           shutdown => shutdown',
           reaped' => handle /\ proc'["sshd"].is = "reaped",
           \/ monitor' = monitor
           \/ /\ main.at = "started" /\ handle
              /\ monitor'.at = "wait" /\ monitor'.warned = monitor.warned,
           main'.at = "started" => monitor'.at = "none",
           main'.at \in {"terminate", "ending"} => handle,
           main'.at = "ssh" \/ (main'.at \in HookPlaces /\ main'.phase = "pre")
             => starter.at = "off",
           main'.at \in {"look", "signal", "abandon", "abandoned", "request",
                         "terminate", "ending"} => shutdown',
           HookOwned', ServiceGone'
    PROVE  SupervisionInv'
<1> USE DEF SupervisionInv
<1>1. /\ starter' = starter /\ slot' = slot /\ handle' = handle
      /\ starter.at \notin AlivePlaces
      /\ starter.at \in {"off", "dead"}
      /\ slot = "none"
  BY DEF ServiceConsistent, StarterConsistent, OwnTypes, StarterType
<1>2. OwnTypes'
  BY <1>1 DEF OwnTypes
<1>3. StarterConsistent'
  BY <1>1 DEF StarterConsistent, Step
<1>4. ChildrenOwned'
  BY <1>1 DEF ChildrenOwned, Step, Live
<1>5. ConfigConsistent'
  BY <1>1 DEF ConfigConsistent
<1>6. ServiceConsistent'
  BY <1>1 DEF ServiceConsistent
<1>7. FlagFirst'
  <2>1. monitor'.at = "warn" \/ monitor'.warned =>
          /\ proc'["sshd"].asked = "none"
    BY DEF FlagFirst, ServiceConsistent
  <2>2. starter.at # "notify" /\ starter.at # "ending"
    BY <1>1
  <2>3. proc'["sshd"].asked # "none" =>
         \/ shutdown'
         \/ starter.at \in {"clear", "dead"} /\ starter.result = "error"
    BY <2>2 DEF FlagFirst
  <2>4. QED
    BY <1>1, <2>1, <2>2, <2>3 DEF FlagFirst
<1>8. SignalOnItsWay'
  BY <1>1 DEF SignalOnItsWay
<1>9. QED
  BY <1>2, <1>3, <1>4, <1>5, <1>6, <1>7, <1>8

\* How the main thread moves.
LEMMA MainMoves ==
    ASSUME main \in MainType
    PROVE  /\ \A at \in MainPlaces :
                main' = [main EXCEPT !.at = at] =>
                   /\ main' \in MainType /\ main'.at = at
                   /\ main'.phase = main.phase /\ main'.way = main.way
                   /\ main'.seen = main.seen
           /\ \A at \in MainPlaces, forced \in BOOLEAN :
                main' = [main EXCEPT !.at = at, !.forced = forced] =>
                   /\ main' \in MainType /\ main'.at = at
                   /\ main'.phase = main.phase /\ main'.way = main.way
                   /\ main'.seen = main.seen
           /\ \A way \in {"parallel", "serial", "exit", "gone"} :
                Leave(way) =>
                   /\ main' \in MainType /\ main'.at \in {"flag", "stop"}
                   /\ main'.way = way
                   /\ way \in {"exit", "gone"} => main'.at = "stop"
           /\ main' = [main EXCEPT !.forced = TRUE] =>
                /\ main' \in MainType /\ main'.at = main.at
                /\ main'.phase = main.phase /\ main'.way = main.way
<1>1. ASSUME NEW at \in MainPlaces, main' = [main EXCEPT !.at = at]
      PROVE  /\ main' \in MainType /\ main'.at = at
             /\ main'.phase = main.phase /\ main'.way = main.way
             /\ main'.seen = main.seen
  BY <1>1 DEF MainType
<1>2. ASSUME NEW at \in MainPlaces, NEW forced \in BOOLEAN,
             main' = [main EXCEPT !.at = at, !.forced = forced]
      PROVE  /\ main' \in MainType /\ main'.at = at
             /\ main'.phase = main.phase /\ main'.way = main.way
             /\ main'.seen = main.seen
  BY <1>2 DEF MainType
<1>3. ASSUME NEW way \in {"parallel", "serial", "exit", "gone"}, Leave(way)
      PROVE  /\ main' \in MainType /\ main'.at \in {"flag", "stop"}
             /\ main'.way = way
             /\ way \in {"exit", "gone"} => main'.at = "stop"
  <2>1. PICK at \in {"flag", "stop"} :
          /\ main' = [main EXCEPT !.way = way, !.forced = FALSE, !.at = at]
          /\ way \in {"exit", "gone"} => at = "stop"
    BY <1>3 DEF Leave
  <2>2. at \in MainPlaces
    BY DEF MainPlaces, ServicePlaces
  <2>3. QED
    BY <2>1, <2>2 DEF MainType
<1>4. ASSUME main' = [main EXCEPT !.forced = TRUE]
      PROVE  /\ main' \in MainType /\ main'.at = main.at
             /\ main'.phase = main.phase /\ main'.way = main.way
  BY <1>4 DEF MainType
<1>5. QED
  BY <1>1, <1>2, <1>3, <1>4

LEMMA CancelledLeaves ==
    ASSUME main \in MainType, LeaveCancelled
    PROVE  /\ main' \in MainType /\ main'.at \in {"flag", "stop"}
           /\ main'.way \in {"parallel", "serial", "gone"}
           /\ main'.way = "gone" => main'.at = "stop"
BY MainMoves DEF LeaveCancelled

\* The kinds of places.
LEMMA PlaceKinds ==
    /\ \A x \in {"hook", "hookwait", "hookstop"} :
         /\ x \in MainPlaces /\ x \in StartupPlaces /\ x \in HookPlaces
         /\ x \notin PollPlaces
    /\ \A x \in {"ssh", "abandon", "abandoned", "started", "up"} :
         /\ x \in MainPlaces /\ x \in StartupPlaces
         /\ x \notin PollPlaces /\ x \notin HookPlaces
    /\ \A x \in {"poll", "look", "signal"} :
         /\ x \in MainPlaces /\ x \in StartupPlaces /\ x \in PollPlaces
         /\ x \notin HookPlaces
    /\ \A x \in {"flag", "request", "stop", "terminate", "ending", "aux"} :
         x \in MainPlaces /\ x \in ServicePlaces
    /\ \A x \in {"hookleft", "hookend", "close", "closing", "closed",
                 "done"} : x \in MainPlaces /\ x \notin ServicePlaces
    /\ \A x \in ServicePlaces \cup {"hookleft", "hookend"} \cup ClosedPlaces :
         /\ x \notin StartupPlaces /\ x \notin PollPlaces
         /\ x \notin HookPlaces
    /\ \A x \in StartupPlaces \cup ServicePlaces :
         /\ x \notin ClosedPlaces /\ x # "hookleft" /\ x # "hookend"
    /\ \A x \in StartupPlaces : x \notin ServicePlaces
    /\ \A x \in {"close", "closing", "closed", "done"} : x \in ClosedPlaces
BY DEF MainPlaces, StartupPlaces, HookPlaces, PollPlaces, ServicePlaces,
       ClosedPlaces

\* Every step around a hook keeps the invariant.
LEMMA HookStepsKeepInv ==
    ASSUME SupervisionInv,
           HookStep \/ EndActiveHook \/ ForceActiveHook \/ ActiveHookEnded
    PROVE  SupervisionInv'
<1> USE DEF At, Go
<1>0. /\ proc \in ProcType /\ main \in MainType /\ monitor \in MonitorType
      /\ shutdown \in BOOLEAN /\ reaped \in BOOLEAN /\ config \in BOOLEAN
      /\ active \in BOOLEAN
      /\ HookOwned /\ ServiceGone
      /\ config /\ proc["sshd"].is = "reaped" => monitor.at = "clean"
      /\ reaped => handle /\ proc["sshd"].is = "reaped"
      /\ main.at = "ssh" \/ (main.at \in HookPlaces /\ main.phase = "pre")
           => starter.at = "off"
  BY DEF SupervisionInv, OwnTypes, ConfigConsistent, ServiceConsistent
<1>1. /\ UNCHANGED <<starter, slot, handle, shutdown, reaped, monitor,
                     config>>
      /\ main.at \in HookPlaces \cup {"hookleft", "hookend"}
  BY DEF HookStep, RunHook, HookResult, CancelHook, HookEscalates, HookEnded,
     EndActiveHook, ForceActiveHook, ActiveHookEnded, onlySsh, HookPlaces
<1>q. ASSUME main' \in MainType, main'.at \notin PollPlaces,
             main'.at \notin {"abandon", "abandoned", "request",
                              "terminate", "ending", "started"},
             main'.at = "ssh" \/ (main'.at \in HookPlaces
                                    /\ main'.phase = "pre")
               => main.at \in HookPlaces /\ main.phase = "pre",
             main'.at \in ClosedPlaces \cup {"hookleft", "hookend"} =>
               main.at \in {"hookleft", "hookend"},
             proc' \in ProcType, OnlyOf("hook"), active' \in BOOLEAN,
             HookOwned'
      PROVE  SupervisionInv'
  <2>1. proc'["sshd"] = proc["sshd"] /\ \A p \in Commands : proc'[p] = proc[p]
    BY <1>q, Children DEF OnlyOf
  <2>2. main'.at # "look" /\ main'.at # "signal"
    BY <1>q DEF PollPlaces
  <2>3. ServiceGone'
    BY <1>0, <1>1, <1>q, <2>1 DEF ServiceGone, Live
  <2>4. main.at \notin PollPlaces
    BY <1>1 DEF HookPlaces, PollPlaces
  <2>5. QED
    BY <1>0, <1>1, <1>q, <2>1, <2>2, <2>3, <2>4, MainReduced
\* The generation is left, the hook ended or handed over.
<1>v. ASSUME main.at \in HookPlaces, main' \in MainType,
             main'.at \in {"flag", "stop"},
             main'.way \in {"parallel", "serial", "gone"},
             main'.way = "gone" => main'.at = "stop",
             proc' \in ProcType, OnlyOf("hook"), active' \in BOOLEAN,
             ~Live("hook")' \/ active'
      PROVE  SupervisionInv'
  <2>1. HookOwned'
    BY <1>v, PlaceKinds DEF HookOwned, ServicePlaces
  <2>2. QED
    BY <1>q, <1>v, <2>1, PlaceKinds
<1>e. UNCHANGED proc => proc' \in ProcType /\ OnlyOf("hook")
  BY <1>0 DEF OnlyOf
<1>w. main.at \in HookPlaces => /\ main.way = "none" /\ ~active
                                /\ main.at \in StartupPlaces
  BY <1>0 DEF HookOwned, StartupPlaces, HookPlaces
<1>2. CASE RunHook
  <2>1. main.at = "hook" /\ main.at \in HookPlaces /\ active' = active
    BY <1>2 DEF RunHook, HookPlaces
  <2>2. ~Live("hook")
    BY <1>0, <1>w, <2>1, PlaceKinds DEF HookOwned
  <2>3. CASE UNCHANGED proc
    <3>1. CASE LeaveCancelled \/ Leave("serial")
      BY <1>0, <1>e, <1>v, <1>w, <2>1, <2>2, <2>3, <3>1, CancelledLeaves,
         MainMoves DEF Live
    <3>2. CASE HooksDone
      <4>1. /\ main' \in MainType /\ main'.way = "none"
            /\ main'.at \in {"ssh", "up"}
            /\ main'.at = "ssh" => main.phase = "pre"
        BY <1>0, <1>w, <2>1, <3>2, MainMoves, PlaceKinds DEF HooksDone
      <4>2. HookOwned'
        BY <1>w, <2>1, <2>2, <2>3, <4>1, PlaceKinds DEF HookOwned, Live
      <4>3. QED
        BY <1>0, <1>e, <1>q, <2>1, <2>3, <4>1, <4>2, PlaceKinds
    <3>3. CASE proc' = Spawned("hook")
      BY <2>3, <3>3, <1>0, <2>2, SpawnedEffect, Children DEF Live
    <3>4. QED
      BY <1>2, <3>1, <3>2, <3>3 DEF RunHook
  <2>4. CASE ~UNCHANGED proc
    <3>1. /\ proc' = Spawned("hook")
          /\ main' = [main EXCEPT !.at = "hookwait"]
      BY <1>2, <2>4 DEF RunHook
    <3>2. /\ main' \in MainType /\ main'.at = "hookwait"
          /\ main'.phase = main.phase /\ main'.way = "none"
      BY <1>0, <1>w, <2>1, <3>1, MainMoves, PlaceKinds
    <3>3. proc' \in ProcType /\ OnlyOf("hook")
      BY <1>0, <3>1, SpawnedEffect, Children
    <3>4. HookOwned'
      BY <1>w, <2>1, <3>2, PlaceKinds DEF HookOwned
    <3>5. QED
      BY <1>0, <1>q, <2>1, <3>2, <3>3, <3>4, PlaceKinds
  <2>5. QED
    BY <2>3, <2>4
<1>3. CASE HookResult \/ HookEnded
  <2>1. /\ main.at \in {"hookwait", "hookstop"} /\ main.at \in HookPlaces
        /\ active' = active
        /\ proc' = Forgotten("hook")
        /\ \/ LeaveCancelled \/ Leave("serial")
           \/ main' = [main EXCEPT !.at = "hook"]
    BY <1>3 DEF HookResult, HookEnded, HookPlaces, StillHooks
  <2>2. proc' \in ProcType /\ OnlyOf("hook") /\ ~Live("hook")'
    BY <1>0, <2>1, ForgottenEffect, Children DEF Live
  <2>3. CASE LeaveCancelled \/ Leave("serial")
    BY <1>0, <1>v, <2>1, <2>2, <2>3, CancelledLeaves, MainMoves
  <2>4. CASE main' = [main EXCEPT !.at = "hook"]
    <3>1. /\ main' \in MainType /\ main'.at = "hook"
          /\ main'.phase = main.phase /\ main'.way = "none"
      BY <1>0, <1>w, <2>1, <2>4, MainMoves, PlaceKinds
    <3>2. HookOwned'
      BY <1>w, <2>1, <2>2, <3>1, PlaceKinds DEF HookOwned
    <3>3. QED
      BY <1>0, <1>q, <2>1, <2>2, <3>1, <3>2, PlaceKinds
  <2>5. QED
    BY <2>1, <2>3, <2>4
<1>4. CASE CancelHook \/ HookEscalates
  <2>1. /\ main.at \in {"hookwait", "hookstop"} /\ main.at \in HookPlaces
        /\ \E sig \in {"term", "kill"} : GroupSignal(sig)
    BY <1>4 DEF CancelHook, HookEscalates, HookPlaces
  <2>2. PICK sig \in {"term", "kill"} : GroupSignal(sig)
    BY <2>1
  <2>3. CASE LeaveCancelled /\ active' = TRUE /\ UNCHANGED proc
    BY <1>0, <1>e, <1>v, <2>1, <2>3, CancelledLeaves
  <2>4. CASE ~(LeaveCancelled /\ active' = TRUE /\ UNCHANGED proc)
    <3>1. /\ proc' = [proc EXCEPT !["hook"].asked =
                        IF Live("hook") /\ @ # "kill" THEN sig ELSE @]
          /\ main' = [main EXCEPT !.at = "hookstop",
                                  !.forced = (sig = "kill")]
          /\ active' = active
      BY <2>2, <2>4 DEF GroupSignal
    <3>2. /\ main' \in MainType /\ main'.at = "hookstop"
          /\ main'.phase = main.phase /\ main'.way = "none"
      BY <1>0, <1>w, <2>1, <3>1, MainMoves, PlaceKinds
    <3>3. proc' \in ProcType /\ OnlyOf("hook")
      BY <1>0, <3>1, Children DEF ProcType, OnlyOf
    <3>4. HookOwned'
      BY <1>w, <2>1, <3>1, <3>2, PlaceKinds DEF HookOwned
    <3>5. QED
      BY <1>0, <1>q, <2>1, <3>1, <3>2, <3>3, <3>4, PlaceKinds
  <2>5. QED
    BY <2>3, <2>4
<1>5. CASE EndActiveHook \/ ForceActiveHook \/ ActiveHookEnded
  <2>1. /\ main.at \in {"hookleft", "hookend"}
        /\ active' = active
        /\ main.way \in {"parallel", "serial"}
    <3>1. main.at \in {"hookleft", "hookend"} /\ active' = active
      BY <1>5 DEF EndActiveHook, ForceActiveHook, ActiveHookEnded, StillHooks
    <3>2. main.way # "none"
      BY <1>0, <3>1, PlaceKinds DEF HookOwned
    <3>3. main.way \notin {"exit", "gone"}
      BY <1>0, <3>1 DEF HookOwned, ClosedPlaces
    <3>4. main.way \in {"none", "parallel", "serial", "exit", "gone"}
      BY <1>0 DEF MainType
    <3>5. QED
      BY <3>1, <3>2, <3>3, <3>4
  <2>2. CASE ActiveHookEnded
    <3>1. proc' \in ProcType /\ OnlyOf("hook") /\ ~Live("hook")'
      BY <1>0, <2>2, ForgottenEffect, Children DEF Live, ActiveHookEnded
    <3>2. /\ main' \in MainType /\ main'.at = "close"
          /\ main'.way = main.way
      BY <1>0, <2>2, MainMoves, PlaceKinds DEF ActiveHookEnded
    <3>3. HookOwned'
      BY <1>0, <2>1, <3>1, <3>2, PlaceKinds DEF HookOwned
    <3>4. QED
      BY <1>0, <1>q, <2>1, <3>1, <3>2, <3>3, PlaceKinds
  <2>3. CASE EndActiveHook \/ ForceActiveHook
    <3>1. main' \in MainType /\ main'.at = "hookend" /\ main'.way = main.way
      <4>1. CASE EndActiveHook
        BY <1>0, <4>1, MainMoves, PlaceKinds DEF EndActiveHook
      <4>2. CASE ForceActiveHook
        BY <1>0, <4>2, MainMoves, PlaceKinds DEF ForceActiveHook
      <4>3. QED
        BY <2>3, <4>1, <4>2
    <3>2. proc' \in ProcType /\ OnlyOf("hook")
      <4>1. PICK sig \in {"term", "kill", proc["hook"].asked} :
              proc' = [proc EXCEPT !["hook"].asked = sig]
        <5>1. CASE EndActiveHook
          BY <5>1 DEF EndActiveHook
        <5>2. CASE ForceActiveHook
          BY <5>2 DEF ForceActiveHook
        <5>3. QED
          BY <2>3, <5>1, <5>2
      <4>2. QED
        BY <1>0, <4>1, Children DEF ProcType, OnlyOf
    <3>3. HookOwned'
      BY <1>0, <2>1, <3>1, PlaceKinds DEF HookOwned
    <3>4. QED
      BY <1>0, <1>q, <2>1, <3>1, <3>2, <3>3, PlaceKinds
  <2>4. QED
    BY <1>5, <2>2, <2>3
<1>6. QED
  BY <1>2, <1>3, <1>4, <1>5 DEF HookStep

-----------------------------------------------------------------------------
(* The signals and the poll of the owned children.                         *)

\* A signal to a process that was seen reaps the process when it has ended,
\* and with sshd its configuration goes.
LEMMA SignalEffect ==
    ASSUME proc \in ProcType, config \in BOOLEAN,
           NEW p \in {"none"} \cup Procs, NEW sig \in {"term", "kill"},
           SignalSeen(p, sig)
    PROVE  /\ proc' \in ProcType /\ config' \in BOOLEAN
           /\ \A q \in Procs :
                /\ \/ proc'[q].is = proc[q].is
                   \/ proc[q].is = "ended" /\ proc'[q].is = "reaped"
                /\ proc[q].is # "running" => proc'[q].asked = proc[q].asked
                /\ proc'[q].asked = "none" => proc[q].asked = "none"
                /\ q # p => proc'[q] = proc[q]
                /\ q = p /\ proc[q].is = "running" => proc'[q].asked # "none"
           /\ config' => config
           /\ config' /\ proc'["sshd"].is = "reaped" =>
                proc["sshd"].is = "reaped"
<1>1. CASE p = "none"
  BY <1>1, Children DEF SignalSeen, ProcType
<1>2. CASE p # "none"
  <2>1. p \in Procs
    BY <1>2
  <2>2. IsHeld(p) \in BOOLEAN
    BY DEF IsHeld, HeldByMonitor, HeldByStarter, AtStarter
  <2>3. /\ proc' = Asked(p, IsHeld(p), sig)
        /\ config' = (config /\ ~(p = "sshd" /\ SshdPolled))
    BY <1>2 DEF SignalSeen
  <2>4. /\ proc' \in ProcType /\ OnlyOf(p)
        /\ Terminal(p, IsHeld(p)) => proc'[p].is = "reaped"
        /\ ~Terminal(p, IsHeld(p)) => proc'[p].is = proc[p].is
        /\ proc[p].is # "running" => proc'[p].asked = proc[p].asked
        /\ proc[p].is = "running" =>
             proc'[p].is = "running" /\ proc'[p].asked # "none"
    BY <2>1, <2>2, <2>3, AskedEffect
  <2>5. Terminal(p, IsHeld(p)) => proc[p].is \in {"ended", "reaped"}
    BY DEF Terminal
  <2>6. /\ \/ proc'[p].is = proc[p].is
           \/ proc[p].is = "ended" /\ proc'[p].is = "reaped"
        /\ proc'[p].asked = "none" => proc[p].asked = "none"
    BY <2>4, <2>5
  <2>7. \A q \in Procs :
          /\ \/ proc'[q].is = proc[q].is
             \/ proc[q].is = "ended" /\ proc'[q].is = "reaped"
          /\ proc[q].is # "running" => proc'[q].asked = proc[q].asked
          /\ proc'[q].asked = "none" => proc[q].asked = "none"
          /\ q # p => proc'[q] = proc[q]
          /\ q = p /\ proc[q].is = "running" => proc'[q].asked # "none"
    BY <2>4, <2>6 DEF OnlyOf
  <2>8. p = "sshd" /\ Terminal(p, IsHeld(p)) => ~config'
    BY <2>3 DEF IsHeld, SshdPolled
  <2>9. config' /\ proc'["sshd"].is = "reaped" => proc["sshd"].is = "reaped"
    BY <2>4, <2>7, <2>8, Children
  <2>10. QED
    BY <2>3, <2>4, <2>7, <2>9
<1>3. QED
  BY <1>1, <1>2

\* While the main thread starts ssh no hook is there.
LEMMA NoHookMeanwhile ==
    ASSUME SupervisionInv, main.at \in StartupPlaces \ HookPlaces
    PROVE  main.way = "none" /\ ~active /\ ~Live("hook")
<1>1. HookOwned
  BY DEF SupervisionInv
<1>2. main.way = "none" /\ ~active
  BY <1>1 DEF HookOwned
<1>3. /\ main.at \notin HookPlaces
      /\ main.at # "hookleft" /\ main.at # "hookend"
  BY PlaceKinds
<1>4. QED
  BY <1>1, <1>2, <1>3 DEF HookOwned, HookPlaces

\* What the service does not own is not there once the startup thread was
\* joined.
LEMMA UnownedIsGone ==
    ASSUME SupervisionInv, main.at \notin PollPlaces, ~handle
    PROVE  ~Live("sshd") /\ ~config /\ monitor.at = "none" /\ ~reaped
<1>1. /\ starter \in StarterType
      /\ StarterConsistent /\ ChildrenOwned /\ ConfigConsistent
      /\ ServiceConsistent
  BY DEF SupervisionInv, OwnTypes
<1>2. starter.at \in {"off", "dead"}
  BY <1>1 DEF ServiceConsistent, StarterType
<1>3. starter.at = "dead" => starter.result # "handle"
  BY <1>1 DEF ServiceConsistent
<1>4. starter.at = "off" => starter.step = 1
  BY <1>1 DEF StarterConsistent
<1>5. ~Live("sshd")
  BY <1>1, <1>2, <1>3 DEF ChildrenOwned, Live
<1>6. ~config
  BY <1>1, <1>2, <1>3, <1>4 DEF ConfigConsistent
<1>7. QED
  BY <1>1, <1>5, <1>6 DEF ServiceConsistent

-----------------------------------------------------------------------------
(* Starting ssh.                                                           *)

\* The flag, the look into the slot and the signal.
LEMMA PollingKeepsInv ==
    ASSUME SupervisionInv, PollCancelled \/ LookAtSlot \/ SignalSlot
    PROVE  SupervisionInv'
<1> USE DEF SupervisionInv, At, Go
<1>1. /\ UNCHANGED <<starter, slot, handle, reaped, monitor, active>>
      /\ main.at \in PollPlaces
  BY DEF PollCancelled, LookAtSlot, SignalSlot, PollPlaces, StillSsh,
     onlySsh, StillHooks
<1>2. /\ ~handle /\ monitor.at = "none" /\ ~reaped /\ ~monitor.warned
  BY <1>1 DEF ServiceConsistent
<1>3. /\ main.way = "none" /\ ~active /\ ~Live("hook")
  BY <1>1, NoHookMeanwhile, PlaceKinds DEF PollPlaces
<1>4. /\ main' \in MainType /\ main'.way = main.way
      /\ main'.at \in PollPlaces /\ main'.phase = main.phase
      /\ shutdown' \in BOOLEAN /\ shutdown' /\ (shutdown => shutdown')
      /\ SignalSlot => /\ shutdown' = shutdown
                       /\ main'.at \in {"look", "poll"}
      /\ LookAtSlot => main'.at = "signal" /\ main'.seen = slot
      /\ PollCancelled => main'.at = "look"
  <2>1. /\ main.at \in {"look", "signal"} => shutdown
        /\ slot \in {"none"} \cup Procs /\ shutdown \in BOOLEAN
        /\ main \in MainType
    BY DEF FlagFirst, OwnTypes
  <2>2. \A x \in {"poll", "look", "signal"} :
          x \in MainPlaces /\ x \in PollPlaces
    BY PlaceKinds
  <2>3. CASE PollCancelled
    <3>1. /\ main' = [main EXCEPT !.at = "look", !.forced = FALSE]
          /\ shutdown' = TRUE /\ main.at = "poll"
      BY <2>3 DEF PollCancelled
    <3>2. QED
      BY <2>1, <2>2, <3>1 DEF MainType, LookAtSlot, SignalSlot
  <2>4. CASE LookAtSlot
    <3>1. /\ main' = [main EXCEPT !.at = "signal", !.seen = slot]
          /\ shutdown' = shutdown /\ main.at = "look"
      BY <2>4 DEF LookAtSlot, StillSsh, onlySsh
    <3>2. QED
      BY <2>1, <2>2, <3>1 DEF MainType, PollCancelled, SignalSlot
  <2>5. CASE SignalSlot
    <3>1. /\ \/ main' = [main EXCEPT !.at = "look", !.seen = "none",
                                     !.forced = TRUE]
             \/ main' = [main EXCEPT !.at = "poll", !.seen = "none"]
          /\ shutdown' = shutdown /\ main.at = "signal"
      BY <2>5 DEF SignalSlot
    <3>2. QED
      BY <2>1, <2>2, <3>1 DEF MainType, PollCancelled, LookAtSlot
  <2>6. QED
    BY <2>3, <2>4, <2>5
<1>5. /\ proc' \in ProcType /\ config' \in BOOLEAN
      /\ \A q \in Procs :
           /\ \/ proc'[q].is = proc[q].is
              \/ proc[q].is = "ended" /\ proc'[q].is = "reaped"
           /\ proc'[q].asked = "none" => proc[q].asked = "none"
           /\ SignalSlot /\ q = main.seen /\ proc[q].is = "running" =>
                proc'[q].asked # "none"
      /\ config' => config
      /\ config' /\ proc'["sshd"].is = "reaped" => proc["sshd"].is = "reaped"
  <2>1. CASE UNCHANGED <<proc, config>> /\ ~SignalSlot
    BY <2>1 DEF OwnTypes
  <2>2. CASE SignalSlot
    <3>1. PICK sig \in {"term", "kill"} : SignalSeen(main.seen, sig)
      BY <2>2 DEF SignalSlot
    <3>2. main.seen \in {"none"} \cup Procs
      BY DEF OwnTypes, MainType
    <3>3. proc \in ProcType /\ config \in BOOLEAN
      BY DEF OwnTypes
    <3>4. QED
      BY <3>1, <3>2, <3>3, SignalEffect
  <2>3. QED
    BY <2>1, <2>2 DEF PollCancelled, LookAtSlot, StillSsh, onlySsh
<1>6. OwnTypes'
  BY <1>1, <1>4, <1>5 DEF OwnTypes
<1>7. StarterConsistent'
  BY <1>1 DEF StarterConsistent, Step
<1>8. ChildrenOwned'
  BY <1>1, <1>5, Children DEF ChildrenOwned, Step, Live
<1>9. ConfigConsistent'
  BY <1>1, <1>2, <1>5 DEF ConfigConsistent
<1>10. ServiceConsistent'
  <2>1. /\ main'.at # "ssh" /\ main'.at \notin HookPlaces
        /\ main'.at # "started" /\ main'.at # "terminate"
        /\ main'.at # "ending"
    BY <1>4 DEF PollPlaces, HookPlaces
  <2>2. starter'.at # "off"
    BY <1>1 DEF ServiceConsistent
  <2>3. QED
    BY <1>1, <1>2, <1>4, <2>1, <2>2 DEF ServiceConsistent
<1>11. FlagFirst'
  BY <1>1, <1>2, <1>4 DEF FlagFirst
<1>12. SignalOnItsWay'
  <2>1. slot \in {"none"} \cup Procs
    BY DEF OwnTypes
  <2>2. CASE PollCancelled
    BY <1>4, <2>2 DEF SignalOnItsWay
  <2>3. CASE LookAtSlot
    BY <1>1, <1>4, <2>3 DEF SignalOnItsWay
  <2>4. CASE SignalSlot
    <3>1. main.at = "signal"
      BY <2>4 DEF SignalSlot
    <3>2. shutdown
      BY <3>1 DEF FlagFirst
    <3>3. ASSUME slot # "none", proc'[slot].is = "running"
          PROVE  proc'[slot].asked # "none" \/ starter.at = "notify"
      <4>1. slot \in Procs /\ proc[slot].is = "running"
        BY <1>5, <2>1, <3>3
      <4>2. \/ proc[slot].asked # "none" \/ starter.at = "notify"
            \/ main.seen = slot
        BY <3>1, <3>2, <3>3, <4>1 DEF SignalOnItsWay
      <4>3. QED
        BY <1>5, <2>4, <4>1, <4>2
    <3>4. QED
      BY <1>1, <3>3 DEF SignalOnItsWay
  <2>5. QED
    BY <2>2, <2>3, <2>4
<1>13. HookOwned'
  <2>1. main'.at \in StartupPlaces
    BY <1>4 DEF StartupPlaces
  <2>2. ~Live("hook")'
    BY <1>3, <1>5, Children DEF Live
  <2>3. QED
    BY <1>1, <1>3, <1>4, <2>1, <2>2 DEF HookOwned
<1>14. ServiceGone'
  BY <1>4 DEF ServiceGone, PollPlaces, ClosedPlaces
<1>15. QED
  BY <1>6, <1>7, <1>8, <1>9, <1>10, <1>11, <1>12, <1>13, <1>14

\* Start hands the work to the startup thread, or there is none to do.
LEMMA StartSshKeepsInv ==
    ASSUME SupervisionInv, StartSsh
    PROVE  SupervisionInv'
<1> USE DEF SupervisionInv, At, Go
<1>1. /\ UNCHANGED <<slot, shutdown, handle, reaped, monitor, config, proc,
                     active>>
      /\ main.at = "ssh"
  BY DEF StartSsh, StillHooks
<1>2. /\ main.way = "none" /\ ~active /\ ~Live("hook")
  BY <1>1, NoHookMeanwhile, PlaceKinds
<1>3. /\ starter.at = "off" /\ starter.step = 1 /\ slot = "none"
      /\ starter \in StarterType /\ main \in MainType
  BY <1>1 DEF ServiceConsistent, StarterConsistent, OwnTypes
<1>4. ~handle /\ monitor.at = "none" /\ ~monitor.warned /\ ~reaped
  BY <1>3 DEF ServiceConsistent
<1>5. ~config /\ \A p \in Commands \cup {"sshd"} : proc[p].is = "none"
  BY <1>3 DEF ConfigConsistent, ChildrenOwned
<1>6. CASE /\ starter' = [starter EXCEPT !.at = "next"]
           /\ main' = [main EXCEPT !.at = "poll"]
  <2>1. /\ starter' \in StarterType /\ starter'.at = "next"
        /\ starter'.step = 1
    BY <1>3, <1>6 DEF StarterType, AlivePlaces
  <2>2. /\ main' \in MainType /\ main'.at = "poll" /\ main'.way = "none"
        /\ main'.phase = main.phase
    BY <1>2, <1>3, <1>6, MainMoves, PlaceKinds
  <2>3. OwnTypes'
    BY <1>1, <2>1, <2>2 DEF OwnTypes
  <2>4. StarterConsistent'
    BY <1>1, <1>3, <2>1 DEF StarterConsistent, AlivePlaces
  <2>5. ChildrenOwned'
    BY <1>1, <1>5, <2>1 DEF ChildrenOwned, Live
  <2>6. ConfigConsistent'
    BY <1>1, <1>5 DEF ConfigConsistent
  <2>7. ServiceConsistent'
    BY <1>1, <1>4, <2>1, <2>2, PlaceKinds DEF ServiceConsistent
  <2>8. FlagFirst'
    <3>1. proc["sshd"].asked # "none" => shutdown
      BY <1>3 DEF FlagFirst
    <3>2. QED
      BY <1>1, <1>4, <2>1, <2>2, <3>1 DEF FlagFirst
  <2>9. SignalOnItsWay'
    BY <1>1, <1>3 DEF SignalOnItsWay
  <2>10. HookOwned'
    BY <1>1, <1>2, <2>2, PlaceKinds DEF HookOwned, Live
  <2>11. ServiceGone'
    BY <2>2, PlaceKinds DEF ServiceGone, ClosedPlaces
  <2>12. QED
    BY <2>3, <2>4, <2>5, <2>6, <2>7, <2>8, <2>9, <2>10, <2>11
<1>7. CASE /\ main' = [main EXCEPT !.at = "started"]
           /\ UNCHANGED starter
  <2>1. /\ main' \in MainType /\ main'.at = "started" /\ main'.way = "none"
    BY <1>2, <1>3, <1>7, MainMoves, PlaceKinds
  <2>2. HookOwned'
    BY <1>1, <1>2, <2>1, PlaceKinds DEF HookOwned, Live
  <2>3. ServiceGone'
    BY <2>1 DEF ServiceGone, ClosedPlaces
  <2>4. /\ proc' \in ProcType /\ monitor' \in MonitorType
        /\ shutdown' \in BOOLEAN /\ reaped' \in BOOLEAN /\ config' \in BOOLEAN
        /\ active' \in BOOLEAN
    BY <1>1 DEF OwnTypes
  <2>5. QED
    BY <1>1, <1>3, <1>4, <1>5, <1>7, <2>1, <2>2, <2>3, <2>4, PlaceKinds,
       MainReduced
<1>8. QED
  BY <1>6, <1>7 DEF StartSsh, GoStarter

\* The end of the startup thread: what it has won is owned from here on.
LEMMA JoinedKeepsInv ==
    ASSUME SupervisionInv, Joined
    PROVE  SupervisionInv'
<1> USE DEF SupervisionInv, At, Go
<1>1. /\ UNCHANGED <<starter, slot, reaped, monitor, config, proc, active>>
      /\ main.at = "poll" /\ starter.at = "dead" /\ main \in MainType
  BY DEF Joined, StillHooks, OwnTypes
<1>2. /\ main.way = "none" /\ ~active /\ ~Live("hook")
  BY <1>1, NoHookMeanwhile, PlaceKinds
<1>3. /\ ~handle /\ monitor.at = "none" /\ ~monitor.warned /\ ~reaped
      /\ slot = "none"
  BY <1>1, PlaceKinds DEF ServiceConsistent, StarterConsistent
<1>4. /\ main' \in MainType
      /\ \/ main'.at \in {"abandon", "started"} /\ main'.way = "none"
         \/ /\ main'.at \in {"flag", "stop"}
            /\ main'.way \in {"parallel", "serial", "gone"}
            /\ main'.way = "gone" => main'.at = "stop"
      /\ handle' = (starter.result = "handle")
      /\ main'.at = "abandon" => shutdown'
      /\ shutdown' \in BOOLEAN /\ (shutdown => shutdown')
  <2>1. handle \in BOOLEAN /\ shutdown \in BOOLEAN
    BY DEF OwnTypes
  <2>2. CASE cancel /\ starter.result = "handle"
    <3>1. /\ handle' = TRUE /\ shutdown' = TRUE
          /\ main' = [main EXCEPT !.at = "abandon"]
      BY <2>2 DEF Joined
    <3>2. /\ main' \in MainType /\ main'.at = "abandon"
          /\ main'.way = "none"
      BY <1>1, <1>2, <3>1, MainMoves, PlaceKinds
    <3>3. QED
      BY <2>2, <3>1, <3>2
  <2>3. CASE cancel /\ starter.result # "handle"
    <3>1. /\ handle' = handle /\ shutdown' = shutdown /\ LeaveCancelled
      BY <2>3 DEF Joined
    <3>2. QED
      BY <1>1, <1>3, <2>1, <2>3, <3>1, CancelledLeaves
  <2>4. CASE ~cancel
    <3>1. /\ handle' = (starter.result = "handle") /\ shutdown' = shutdown
          /\ Leave("serial") \/ main' = [main EXCEPT !.at = "started"]
      BY <2>4 DEF Joined
    <3>2. CASE Leave("serial")
      BY <1>1, <2>1, <3>1, <3>2, MainMoves
    <3>3. CASE main' = [main EXCEPT !.at = "started"]
      <4>1. /\ main' \in MainType /\ main'.at = "started"
            /\ main'.way = "none"
        BY <1>1, <1>2, <3>3, MainMoves, PlaceKinds
      <4>2. QED
        BY <2>1, <3>1, <4>1
    <3>4. QED
      BY <3>1, <3>2, <3>3
  <2>5. QED
    BY <2>2, <2>3, <2>4
<1>5. /\ main'.at \notin PollPlaces /\ main'.at \notin HookPlaces
      /\ main'.at \notin ClosedPlaces \cup {"hookleft", "hookend"}
      /\ main'.at \notin {"ssh", "look", "signal", "abandoned", "request",
                          "terminate", "ending", "poll"}
      /\ main'.at \in StartupPlaces <=> main'.way = "none"
  BY <1>4, PlaceKinds
     DEF PollPlaces, HookPlaces, ClosedPlaces, ServicePlaces
<1>6. OwnTypes'
  BY <1>1, <1>4 DEF OwnTypes
<1>7. StarterConsistent' /\ ChildrenOwned'
  BY <1>1 DEF StarterConsistent, ChildrenOwned, Step, Live
<1>8. ConfigConsistent'
  BY <1>1 DEF ConfigConsistent
<1>9. ServiceConsistent'
  BY <1>1, <1>3, <1>4, <1>5 DEF ServiceConsistent, AlivePlaces
<1>10. FlagFirst'
  BY <1>1, <1>3, <1>4, <1>5 DEF FlagFirst
<1>11. SignalOnItsWay'
  BY <1>5 DEF SignalOnItsWay
<1>12. HookOwned'
  BY <1>1, <1>2, <1>4, <1>5 DEF HookOwned, Live
<1>13. ServiceGone'
  BY <1>5 DEF ServiceGone
<1>14. QED
  BY <1>6, <1>7, <1>8, <1>9, <1>10, <1>11, <1>12, <1>13

-----------------------------------------------------------------------------
(* Stopping.                                                               *)

\* What a step keeps that is taken while the service is stopped, or ssh
\* given up: it touches no hook, and sshd only ends or is reaped.
LEMMA ServiceReduced ==
    ASSUME SupervisionInv,
           main.at \in {"abandon", "abandoned", "started", "up"}
                         \cup ServicePlaces \cup ClosedPlaces,
           UNCHANGED <<starter, slot, handle, monitor, active>>,
           main' \in MainType,
           \/ /\ main'.way = main.way
              /\ \/ main.at \in StartupPlaces /\ main'.at = "abandoned"
                 \/ /\ main.at \in ServicePlaces
                    /\ main'.at \in {"request", "terminate", "ending", "aux",
                                     "hookleft"} \cup ClosedPlaces
                    /\ main.way \in {"exit", "gone"} =>
                         main'.at \in {"terminate", "ending", "close"}
                    /\ active => \/ main'.at \notin ClosedPlaces
                                 \/ main.way = "gone"
                 \/ main.at \in ClosedPlaces /\ main'.at \in ClosedPlaces
           \/ /\ main.at \in StartupPlaces
              /\ main'.at \in {"flag", "stop"}
              /\ main'.way \in {"parallel", "serial", "exit", "gone"}
              /\ main'.way \in {"exit", "gone"} => main'.at = "stop",
           main'.at \in {"terminate", "ending"} => handle,
           main'.at \in {"abandoned", "request", "terminate", "ending"} =>
              shutdown',
           shutdown' \in BOOLEAN, shutdown => shutdown',
           proc' \in ProcType, OnlyOf("sshd"), config' \in BOOLEAN,
           \/ proc'["sshd"].is = proc["sshd"].is
           \/ proc["sshd"].is = "ended" /\ proc'["sshd"].is = "reaped",
           proc["sshd"].is # "running" =>
              proc'["sshd"].asked = proc["sshd"].asked,
           proc'["sshd"].asked # "none" =>
              shutdown' \/ proc["sshd"].asked # "none",
           config' => config,
           config' /\ proc'["sshd"].is = "reaped" =>
              proc["sshd"].is = "reaped",
           reaped' \in BOOLEAN,
           reaped' => handle /\ proc'["sshd"].is = "reaped",
           main.at \in ServicePlaces
             /\ main'.at \in ClosedPlaces \cup {"hookleft"} =>
                (~Live("sshd"))' /\ ~config'
    PROVE  SupervisionInv'
<1>1. /\ main \in MainType /\ monitor' \in MonitorType /\ active' \in BOOLEAN
      /\ HookOwned /\ ServiceGone
      /\ config /\ proc["sshd"].is = "reaped" => monitor.at = "clean"
      /\ main.at \notin PollPlaces
  BY PlaceKinds DEF SupervisionInv, OwnTypes, ConfigConsistent
<1>2. /\ proc'["hook"] = proc["hook"]
      /\ \A p \in Commands : proc'[p] = proc[p]
  BY Children DEF OnlyOf
<1>3. /\ main.at \notin HookPlaces
      /\ main.at \notin {"hookleft", "hookend"}
  BY PlaceKinds DEF ClosedPlaces
<1>4. /\ main'.at \notin PollPlaces /\ main'.at \notin HookPlaces
      /\ main'.at \notin {"ssh", "started", "look", "signal", "abandon",
                          "hookend"}
  BY PlaceKinds DEF ClosedPlaces
<1>5. HookOwned'
  <2>1. CASE main.at \in StartupPlaces
    <3>1. main.way = "none" /\ ~active /\ ~Live("hook")
      BY <1>3, <2>1, NoHookMeanwhile
    <3>2. ~Live("hook")' /\ ~active'
      BY <1>2, <3>1 DEF Live
    <3>3. main.at \notin ServicePlaces /\ main.at \notin ClosedPlaces
      BY <2>1, PlaceKinds
    <3>4. CASE main'.way = main.way /\ main'.at = "abandoned"
      BY <3>1, <3>2, <3>4, PlaceKinds DEF HookOwned
    <3>5. CASE /\ main'.at \in {"flag", "stop"}
               /\ main'.way \in {"parallel", "serial", "exit", "gone"}
               /\ main'.way \in {"exit", "gone"} => main'.at = "stop"
      <4>1. main'.at \notin StartupPlaces
        BY <3>5, PlaceKinds
      <4>2. QED
        BY <3>2, <3>5, <4>1 DEF HookOwned
    <3>6. QED
      BY <3>3, <3>4, <3>5
  <2>2. CASE main.at \in ServicePlaces
    <3>1. /\ main'.way = main.way
          /\ main'.at \in {"request", "terminate", "ending", "aux",
                           "hookleft"} \cup ClosedPlaces
          /\ main.way \in {"exit", "gone"} =>
               main'.at \in {"terminate", "ending", "close"}
          /\ active => main'.at \notin ClosedPlaces \/ main.way = "gone"
      BY <2>2, PlaceKinds
    <3>2. main.way # "none" /\ main'.at \notin StartupPlaces
      BY <1>1, <2>2, <3>1, PlaceKinds DEF HookOwned
    <3>3. Live("hook")' => Live("hook")
      BY <1>2 DEF Live
    <3>4. Live("hook") => active
      BY <1>1, <1>3, <2>2, PlaceKinds DEF HookOwned, HookPlaces
    <3>5. active => \/ main'.at = "hookleft"
                    \/ main'.at \in ServicePlaces
                    \/ main'.way = "gone"
      BY <3>1, PlaceKinds
    <3>6. main'.way \in {"exit", "gone"} =>
            main'.at \in {"stop", "terminate", "ending"} \cup ClosedPlaces
      BY <3>1, PlaceKinds
    <3>7. active' => main'.way \in {"parallel", "serial", "gone"}
      BY <1>1, <3>1 DEF HookOwned
    <3>8. QED
      BY <3>1, <3>2, <3>3, <3>4, <3>5, <3>6, <3>7 DEF HookOwned
  <2>3. CASE main.at \in ClosedPlaces
    <3>1. main'.way = main.way /\ main'.at \in ClosedPlaces
      BY <2>3, PlaceKinds
    <3>2. /\ main.way # "none"
          /\ Live("hook")' => active' /\ main.way = "gone"
      <4>1. /\ main.at \notin {"hookwait", "hookstop", "hookleft", "hookend"}
            /\ main.at \notin ServicePlaces /\ main.at \notin StartupPlaces
        BY <1>3, <2>3, PlaceKinds DEF HookPlaces
      <4>2. QED
        BY <1>1, <1>2, <4>1 DEF HookOwned, Live
    <3>3. active' => main'.way \in {"parallel", "serial", "gone"}
      BY <1>1, <3>1 DEF HookOwned
    <3>4. QED
      BY <3>1, <3>2, <3>3, PlaceKinds DEF HookOwned
  <2>4. QED
    BY <2>1, <2>2, <2>3, PlaceKinds
<1>6. ServiceGone'
  <2>1. CASE main.at \in ClosedPlaces
    BY <1>1, <2>1 DEF ServiceGone, Live
  <2>2. CASE main.at \notin ClosedPlaces
    BY <1>4, <2>2, PlaceKinds DEF ServiceGone
  <2>3. QED
    BY <2>1, <2>2
<1>7. config' /\ proc'["sshd"].is = "reaped" => monitor'.at = "clean"
  BY <1>1
<1>8. QED
  BY <1>1, <1>2, <1>4, <1>5, <1>6, <1>7, MainReduced

\* One signal to the owned sshd.
LEMMA SignalsKeepInv ==
    ASSUME SupervisionInv,
           Abandon \/ RequestSignals \/ Terminate \/ Escalate \/ AuxForces
    PROVE  SupervisionInv'
<1> USE DEF At, Go
<1>1. /\ proc \in ProcType /\ config \in BOOLEAN /\ main \in MainType
      /\ shutdown \in BOOLEAN /\ reaped \in BOOLEAN
      /\ reaped => handle /\ proc["sshd"].is = "reaped"
      /\ main.at \in {"terminate", "ending"} => handle
      /\ main.at \in {"abandon", "request", "terminate", "ending"} => shutdown
      /\ main.at \in {"request", "aux"} => main.way \notin {"exit", "gone"}
  <2>1. main.at \in {"request", "aux"} => main.at \notin ClosedPlaces
    BY PlaceKinds DEF ClosedPlaces
  <2>2. QED
    BY <2>1 DEF SupervisionInv, OwnTypes, ServiceConsistent, FlagFirst,
       HookOwned
<1>2. /\ UNCHANGED <<starter, slot, handle, monitor, active, reaped>>
      /\ main.at \in {"abandon"} \cup ServicePlaces
      /\ \E sig \in {"term", "kill"} : SignalHandle(sig)
  BY PlaceKinds DEF Abandon, RequestSignals, Terminate, Escalate, AuxForces,
     StillHooks
<1>3. /\ shutdown' \in BOOLEAN /\ shutdown'
  <2>1. CASE AuxForces
    BY <2>1 DEF AuxForces
  <2>2. CASE Abandon \/ RequestSignals \/ Terminate \/ Escalate
    BY <1>1, <2>2 DEF Abandon, RequestSignals, Terminate, Escalate
  <2>3. QED
    BY <2>1, <2>2
<1>4. /\ main' \in MainType /\ main'.way = main.way
      /\ \/ main.at = "abandon" /\ main'.at = "abandoned"
         \/ main.at = "request" /\ main'.at = "aux"
         \/ main.at \in {"terminate", "ending"} /\ main'.at = "ending"
         \/ main.at = "aux" /\ main'.at = "aux"
  <2>1. CASE Abandon
    BY <1>1, <2>1, MainMoves, PlaceKinds DEF Abandon
  <2>2. CASE RequestSignals
    BY <1>1, <2>2, MainMoves, PlaceKinds DEF RequestSignals
  <2>3. CASE Terminate
    <3>1. PICK b \in BOOLEAN :
            main' = [main EXCEPT !.at = "ending", !.forced = b]
      BY <2>3 DEF Terminate, ForceNow, MainType
    <3>2. QED
      BY <1>1, <2>3, <3>1, MainMoves, PlaceKinds DEF Terminate
  <2>4. CASE Escalate
    BY <1>1, <2>4, MainMoves DEF Escalate
  <2>5. CASE AuxForces
    BY <1>1, <2>5, MainMoves DEF AuxForces
  <2>6. QED
    BY <2>1, <2>2, <2>3, <2>4, <2>5
<1>5. /\ proc' \in ProcType /\ config' \in BOOLEAN /\ OnlyOf("sshd")
      /\ \/ proc'["sshd"].is = proc["sshd"].is
         \/ proc["sshd"].is = "ended" /\ proc'["sshd"].is = "reaped"
      /\ proc["sshd"].is # "running" =>
           proc'["sshd"].asked = proc["sshd"].asked
      /\ config' => config
      /\ config' /\ proc'["sshd"].is = "reaped" => proc["sshd"].is = "reaped"
  <2>1. PICK sig \in {"term", "kill"} : SignalHandle(sig)
    BY <1>2
  <2>2. CASE UNCHANGED <<proc, config>>
    BY <1>1, <2>2 DEF OnlyOf
  <2>3. CASE SignalSeen("sshd", sig)
    <3>1. "sshd" \in {"none"} \cup Procs
      BY Children
    <3>2. QED
      BY <1>1, <2>3, <3>1, SignalEffect, Children DEF OnlyOf
  <2>4. QED
    BY <2>1, <2>2, <2>3 DEF SignalHandle
<1>6. main'.at \in {"terminate", "ending"} => handle
  BY <1>1, <1>4
<1>7. main.at \in ServicePlaces
        /\ main'.at \in ClosedPlaces \cup {"hookleft"} => FALSE
  BY <1>4, PlaceKinds DEF ClosedPlaces
<1>8. \/ main.at \in StartupPlaces /\ main'.at = "abandoned"
      \/ /\ main.at \in ServicePlaces
         /\ main'.at \in {"request", "terminate", "ending", "aux",
                          "hookleft"} \cup ClosedPlaces
         /\ main.way \in {"exit", "gone"} =>
              main'.at \in {"terminate", "ending", "close"}
         /\ active => main'.at \notin ClosedPlaces
  BY <1>1, <1>4, PlaceKinds DEF ServicePlaces
<1>9. reaped' \in BOOLEAN /\ (reaped' => handle /\ proc'["sshd"].is = "reaped")
  BY <1>1, <1>2, <1>5
<1>10. QED
  BY <1>2, <1>3, <1>4, <1>5, <1>6, <1>7, <1>8, <1>9, ServiceReduced

\* The reaping of an sshd that was seen to have ended.
LEMMA PolledEffect ==
    ASSUME proc \in ProcType, SshdPolled, proc' = Reaped("sshd")
    PROVE  /\ proc' \in ProcType /\ OnlyOf("sshd")
           /\ proc["sshd"].is \in {"ended", "reaped"}
           /\ proc'["sshd"].is = "reaped"
           /\ proc'["sshd"].asked = proc["sshd"].asked
BY ReapedEffect, Children DEF SshdPolled, Terminal

\* A service that reports itself stopped leaves no sshd and no configuration.
LEMMA StoppedIsReaped ==
    ASSUME SupervisionInv, main.at \notin PollPlaces, IsStopped, ReapOnLook
    PROVE  /\ proc' \in ProcType /\ OnlyOf("sshd")
           /\ \/ proc'["sshd"].is = proc["sshd"].is
              \/ proc["sshd"].is = "ended" /\ proc'["sshd"].is = "reaped"
           /\ proc'["sshd"].asked = proc["sshd"].asked
           /\ config' \in BOOLEAN /\ ~config'
           /\ (~Live("sshd"))'
           /\ reaped' \in BOOLEAN
           /\ reaped' => handle /\ proc'["sshd"].is = "reaped"
<1>1. /\ proc \in ProcType /\ config \in BOOLEAN /\ reaped \in BOOLEAN
      /\ reaped => handle /\ proc["sshd"].is = "reaped"
      /\ config /\ proc["sshd"].is = "reaped" => monitor.at = "clean"
  BY DEF SupervisionInv, OwnTypes, ServiceConsistent, ConfigConsistent
<1>2. CASE handle /\ ~StarterAlive /\ ~reaped /\ SshdPolled
  <2>1. proc' = Reaped("sshd") /\ reaped' = TRUE /\ config' = FALSE
    BY <1>2 DEF ReapOnLook
  <2>2. QED
    BY <1>1, <1>2, <2>1, PolledEffect DEF Live
<1>3. CASE ~(handle /\ ~StarterAlive /\ ~reaped /\ SshdPolled)
  <2>1. UNCHANGED <<proc, reaped, config>>
    BY <1>3 DEF ReapOnLook
  <2>2. ~StarterAlive /\ monitor.at # "clean"
        /\ (~handle \/ reaped \/ SshdPolled)
    BY DEF IsStopped, MonitorStopped, SshdAccounted
  <2>3. ~Live("sshd") /\ ~config
    <3>1. CASE ~handle
      BY <3>1, UnownedIsGone
    <3>2. CASE handle
      BY <1>1, <1>3, <2>2, <3>2 DEF Live
    <3>3. QED
      BY <3>1, <3>2
  <2>4. QED
    BY <1>1, <2>1, <2>3 DEF Live, OnlyOf
<1>4. QED
  BY <1>2, <1>3

\* The steps that look whether the service is stopped.
LEMMA LooksKeepInv ==
    ASSUME SupervisionInv, Abandoned \/ AuxStopped
    PROVE  SupervisionInv'
<1> USE DEF At, Go
<1>1. /\ UNCHANGED <<starter, slot, handle, monitor, active, shutdown>>
      /\ main.at \in {"abandoned", "aux"} /\ main.at \notin PollPlaces
      /\ IsStopped /\ ReapOnLook
  BY PlaceKinds DEF Abandoned, AuxStopped, StillHooks
<1>2. /\ proc' \in ProcType /\ OnlyOf("sshd")
      /\ \/ proc'["sshd"].is = proc["sshd"].is
         \/ proc["sshd"].is = "ended" /\ proc'["sshd"].is = "reaped"
      /\ proc'["sshd"].asked = proc["sshd"].asked
      /\ config' \in BOOLEAN /\ ~config'
      /\ (~Live("sshd"))'
      /\ reaped' \in BOOLEAN
      /\ reaped' => handle /\ proc'["sshd"].is = "reaped"
  BY <1>1, StoppedIsReaped
<1>3. /\ main \in MainType /\ shutdown \in BOOLEAN
      /\ main.at = "aux" => main.way \notin {"exit", "gone"}
  <2>1. main.at = "aux" => main.at \notin ClosedPlaces
    BY PlaceKinds
  <2>2. QED
    BY <2>1 DEF SupervisionInv, OwnTypes, HookOwned
<1>4. CASE Abandoned
  <2>1. /\ main' \in MainType /\ main'.at \in {"flag", "stop"}
        /\ main'.way \in {"parallel", "serial", "gone"}
        /\ main'.way = "gone" => main'.at = "stop"
    BY <1>3, <1>4, CancelledLeaves DEF Abandoned
  <2>2. main.at = "abandoned" /\ main.at \in StartupPlaces
        /\ main.at \notin ServicePlaces
    BY <1>4, PlaceKinds DEF Abandoned
  <2>3. QED
    BY <1>1, <1>2, <1>3, <2>1, <2>2, ServiceReduced
<1>5. CASE AuxStopped
  <2>1. main.at = "aux" /\ main.at \in ServicePlaces
    BY <1>5, PlaceKinds DEF AuxStopped
  <2>2. /\ main' \in MainType /\ main'.way = main.way
        /\ main'.at \in {"hookleft", "close"}
        /\ active => main'.at = "hookleft"
    <3>1. CASE active
      BY <1>3, <1>5, <3>1, MainMoves, PlaceKinds DEF AuxStopped
    <3>2. CASE ~active
      BY <1>3, <1>5, <3>2, MainMoves, PlaceKinds DEF AuxStopped
    <3>3. QED
      BY <3>1, <3>2
  <2>3. /\ main'.at \in {"hookleft"} \cup ClosedPlaces
        /\ active => main'.at \notin ClosedPlaces
    BY <2>2, PlaceKinds DEF ClosedPlaces
  <2>4. QED
    BY <1>1, <1>2, <1>3, <2>1, <2>2, <2>3, ServiceReduced
<1>6. QED
  BY <1>4, <1>5

\* StartComfyui ends the startup, or goes on to the hooks after the start.
LEMMA StartComfyuiKeepsInv ==
    ASSUME SupervisionInv, StartComfyui
    PROVE  SupervisionInv'
<1> USE DEF At, Go
<1>1. /\ UNCHANGED <<starter, slot, handle, active, shutdown, reaped>>
      /\ main.at = "started" /\ main.at \notin PollPlaces
      /\ main.at \in StartupPlaces /\ main.at \notin HookPlaces
      /\ main.at \notin ServicePlaces
  BY PlaceKinds DEF StartComfyui, StillHooks
<1>2. /\ main \in MainType /\ monitor \in MonitorType /\ proc \in ProcType
      /\ shutdown \in BOOLEAN /\ reaped \in BOOLEAN /\ config \in BOOLEAN
      /\ active \in BOOLEAN
      /\ reaped => handle /\ proc["sshd"].is = "reaped"
      /\ monitor.at = "none"
      /\ config /\ proc["sshd"].is = "reaped" => monitor.at = "clean"
  BY <1>1 DEF SupervisionInv, OwnTypes, ServiceConsistent, ConfigConsistent
<1>3. main.way = "none" /\ ~active /\ ~Live("hook")
  BY <1>1, NoHookMeanwhile
<1>4. CASE (LeaveCancelled \/ Leave("serial")) /\ UNCHANGED monitor
  <2>1. /\ main' \in MainType /\ main'.at \in {"flag", "stop"}
        /\ main'.way \in {"parallel", "serial", "gone"}
        /\ main'.way = "gone" => main'.at = "stop"
    BY <1>2, <1>4, CancelledLeaves, MainMoves
  <2>2. CASE UNCHANGED <<proc, config>>
    <3>1. OnlyOf("sshd")
      BY <2>2 DEF OnlyOf
    <3>2. QED
      BY <1>1, <1>2, <1>4, <2>1, <2>2, <3>1, ServiceReduced
  <2>3. CASE SshdPolled /\ handle /\ proc' = Reaped("sshd") /\ config' = FALSE
    <3>1. /\ proc' \in ProcType /\ OnlyOf("sshd")
          /\ proc["sshd"].is \in {"ended", "reaped"}
          /\ proc'["sshd"].is = "reaped"
          /\ proc'["sshd"].asked = proc["sshd"].asked
      BY <1>2, <2>3, PolledEffect
    <3>2. config' \in BOOLEAN /\ ~config'
      BY <2>3
    <3>3. QED
      BY <1>1, <1>2, <1>4, <2>1, <3>1, <3>2, ServiceReduced
  <2>4. QED
    BY <1>4, <2>2, <2>3 DEF StartComfyui
<1>5. CASE /\ main' = [main EXCEPT !.at = "hook", !.phase = "post"]
           /\ monitor' = IF handle THEN [monitor EXCEPT !.at = "wait"]
                         ELSE monitor
           /\ UNCHANGED <<proc, config>>
  <2>1. /\ main' \in MainType /\ main'.at = "hook" /\ main'.way = "none"
        /\ main'.phase = "post"
    BY <1>2, <1>3, <1>5, PlaceKinds DEF MainType
  <2>2. \/ monitor' = monitor
        \/ /\ handle /\ monitor' \in MonitorType
           /\ monitor'.at = "wait" /\ monitor'.warned = monitor.warned
    BY <1>2, <1>5 DEF MonitorType
  <2>3. config /\ proc["sshd"].is = "reaped" => FALSE
    BY <1>2
  <2>4. HookOwned'
    BY <1>1, <1>3, <1>5, <2>1, PlaceKinds DEF HookOwned, Live
  <2>5. ServiceGone'
    BY <2>1 DEF ServiceGone, ClosedPlaces
  <2>6. /\ main'.at \notin PollPlaces
        /\ main'.at # "ssh" /\ main'.at # "started"
        /\ main'.at \notin {"look", "signal", "abandon", "abandoned",
                            "request", "terminate", "ending"}
    BY <2>1, PlaceKinds
  <2>7. QED
    BY <1>1, <1>2, <1>5, <2>1, <2>2, <2>3, <2>4, <2>5, <2>6, MainReduced
<1>6. QED
  BY <1>4, <1>5 DEF StartComfyui

\* The run ends.
LEMMA EndRunKeepsInv ==
    ASSUME SupervisionInv, EndRun
    PROVE  SupervisionInv'
<1>1. /\ UNCHANGED <<starter, slot, handle, monitor, active, shutdown,
                     reaped, config, proc>>
      /\ main.at = "up" /\ main.at \in StartupPlaces
      /\ main.at \notin ServicePlaces
  BY PlaceKinds DEF EndRun, StillSsh, onlySsh, StillHooks, At
<1>2. /\ main \in MainType /\ proc \in ProcType
      /\ shutdown \in BOOLEAN /\ reaped \in BOOLEAN /\ config \in BOOLEAN
      /\ reaped => handle /\ proc["sshd"].is = "reaped"
  BY DEF SupervisionInv, OwnTypes, ServiceConsistent
<1>3. /\ main' \in MainType /\ main'.at \in {"flag", "stop"}
      /\ main'.way \in {"parallel", "serial", "exit", "gone"}
      /\ main'.way \in {"exit", "gone"} => main'.at = "stop"
  BY <1>2, CancelledLeaves, MainMoves DEF EndRun
<1>4. OnlyOf("sshd")
  BY <1>1 DEF OnlyOf
<1>5. QED
  BY <1>1, <1>2, <1>3, <1>4, ServiceReduced

\* The service is stopped, and the delivery closed after it.
LEMMA StoppingKeepsInv ==
    ASSUME SupervisionInv,
           \/ RequestStop \/ Stop \/ Terminated
           \/ CloseDelivery \/ TellWorker \/ Closed
    PROVE  SupervisionInv'
<1> USE DEF At, Go
<1>1. /\ main \in MainType /\ proc \in ProcType
      /\ shutdown \in BOOLEAN /\ reaped \in BOOLEAN /\ config \in BOOLEAN
      /\ reaped => handle /\ proc["sshd"].is = "reaped"
      /\ main.at \in {"terminate", "ending"} => handle
      /\ main.at = "ending" => shutdown
      /\ main.at = "flag" => main.way \notin {"exit", "gone"}
      /\ Live("hook") /\ main.at \in ServicePlaces => active
      /\ active => main.way \in {"parallel", "serial", "gone"}
  <2>1. main.at = "flag" => main.at \notin ClosedPlaces
    BY PlaceKinds
  <2>2. main.at \in ServicePlaces =>
          main.at \notin {"hookwait", "hookstop", "hookleft", "hookend"}
    BY PlaceKinds DEF HookPlaces
  <2>3. QED
    BY <2>1, <2>2
       DEF SupervisionInv, OwnTypes, ServiceConsistent, FlagFirst, HookOwned
<1>2. /\ UNCHANGED <<starter, slot, handle, monitor, active>>
  BY DEF RequestStop, Stop, Terminated, CloseDelivery, TellWorker, Closed,
     StillHooks, StillSsh, onlySsh
\* Nothing of the service changes but perhaps its flag.
<1>3. ASSUME UNCHANGED <<proc, config, reaped>>
      PROVE  /\ proc' \in ProcType /\ OnlyOf("sshd")
             /\ config' \in BOOLEAN /\ reaped' \in BOOLEAN
             /\ reaped' => handle /\ proc'["sshd"].is = "reaped"
  BY <1>1, <1>3 DEF OnlyOf
<1>4. CASE RequestStop
  <2>1. /\ main.at = "flag" /\ shutdown' = TRUE
        /\ main' = [main EXCEPT !.at = "request"]
        /\ UNCHANGED <<proc, config, reaped>>
    BY <1>4 DEF RequestStop
  <2>2. /\ main' \in MainType /\ main'.at = "request"
        /\ main'.way = main.way
    BY <1>1, <2>1, MainMoves, PlaceKinds
  <2>3. main.at \in ServicePlaces /\ main'.at \notin ClosedPlaces
    BY <2>1, <2>2, PlaceKinds
  <2>4. QED
    BY <1>1, <1>2, <1>3, <2>1, <2>2, <2>3, ServiceReduced
<1>5. CASE Stop \/ Terminated
  <2>1. /\ main.at \in {"stop", "ending"} /\ main.at \in ServicePlaces
        /\ main.at \notin PollPlaces
    BY <1>5, PlaceKinds DEF Stop, Terminated
  <2>2. CASE main' = [main EXCEPT !.at = AfterStop]
    <3>1. /\ main' \in MainType /\ main'.way = main.way
          /\ main'.at \in {"close", "aux"}
          /\ main.way \in {"exit", "gone"} <=> main'.at = "close"
      <4>1. CASE main.way \in {"exit", "gone"}
        BY <1>1, <2>2, <4>1, MainMoves, PlaceKinds
           DEF AfterStop, OnlyStops
      <4>2. CASE main.way \notin {"exit", "gone"}
        BY <1>1, <2>2, <4>2, MainMoves, PlaceKinds
           DEF AfterStop, OnlyStops
      <4>3. QED
        BY <4>1, <4>2
    <3>2. /\ main'.at \in {"aux"} \cup ClosedPlaces
          /\ active => main'.at \notin ClosedPlaces \/ main.way = "gone"
          /\ main.way \in {"exit", "gone"} => main'.at = "close"
      BY <1>1, <3>1, PlaceKinds DEF ClosedPlaces
    <3>3. CASE UNCHANGED <<proc, config, reaped, shutdown>> /\ ~handle
      <4>1. ~Live("sshd") /\ ~config
        BY <2>1, <3>3, UnownedIsGone
      <4>2. (~Live("sshd"))' /\ ~config'
        BY <3>3, <4>1 DEF Live
      <4>3. QED
        BY <1>1, <1>2, <1>3, <2>1, <3>1, <3>2, <3>3, <4>2, ServiceReduced
    <3>4. CASE /\ SshdPolled /\ handle /\ proc' = Reaped("sshd")
               /\ config' = FALSE /\ reaped' \in BOOLEAN
               /\ shutdown' = shutdown
      <4>1. /\ proc' \in ProcType /\ OnlyOf("sshd")
            /\ proc["sshd"].is \in {"ended", "reaped"}
            /\ proc'["sshd"].is = "reaped"
            /\ proc'["sshd"].asked = proc["sshd"].asked
        BY <1>1, <3>4, PolledEffect
      <4>2. config' \in BOOLEAN /\ ~config' /\ (~Live("sshd"))'
        BY <3>4, <4>1 DEF Live
      <4>3. QED
        BY <1>1, <1>2, <2>1, <3>1, <3>2, <3>4, <4>1, <4>2, ServiceReduced
    <3>5. CASE Stop
      <4>1. \/ UNCHANGED <<proc, config, reaped, shutdown>> /\ ~handle
            \/ /\ SshdPolled /\ handle /\ proc' = Reaped("sshd")
               /\ config' = FALSE /\ reaped' = TRUE
               /\ shutdown' = shutdown
            \/ main' = [main EXCEPT !.at = "terminate"]
        BY <3>5 DEF Stop
      <4>2. main' # [main EXCEPT !.at = "terminate"]
        BY <1>1, <3>1 DEF MainType
      <4>3. QED
        BY <3>3, <3>4, <4>1, <4>2
    <3>6. CASE Terminated
      <4>1. handle /\ SshdPolled
        BY <1>1, <3>6 DEF Terminated
      <4>2. (reaped \/ ~main.forced) \in BOOLEAN
        BY <1>1 DEF MainType
      <4>3. QED
        BY <3>4, <3>6, <4>1, <4>2 DEF Terminated
    <3>7. QED
      BY <1>5, <3>5, <3>6
  <2>3. CASE /\ handle /\ shutdown' = TRUE
             /\ main' = [main EXCEPT !.at = "terminate"]
             /\ UNCHANGED <<proc, config, reaped>>
    <3>1. /\ main' \in MainType /\ main'.at = "terminate"
          /\ main'.way = main.way /\ main'.at \notin ClosedPlaces
      BY <1>1, <2>3, MainMoves, PlaceKinds
    <3>2. QED
      BY <1>1, <1>2, <1>3, <2>1, <2>3, <3>1, ServiceReduced
  <2>4. QED
    BY <1>5, <2>2, <2>3 DEF Stop, Terminated
<1>6. CASE CloseDelivery \/ TellWorker \/ Closed
  <2>1. /\ UNCHANGED <<proc, config, reaped, shutdown>>
        /\ main.at \in ClosedPlaces
        /\ \E at \in {"closing", "closed", "done"} :
             main' = [main EXCEPT !.at = at]
    BY <1>6, PlaceKinds
       DEF CloseDelivery, TellWorker, Closed, StillSsh, onlySsh
  <2>2. PICK at \in {"closing", "closed", "done"} :
          main' = [main EXCEPT !.at = at]
    BY <2>1
  <2>3. at \in MainPlaces /\ at \in ClosedPlaces
    BY PlaceKinds
  <2>4. /\ main' \in MainType /\ main'.at \in ClosedPlaces
        /\ main'.way = main.way
    BY <1>1, <2>2, <2>3, MainMoves
  <2>5. /\ main.at \notin ServicePlaces
        /\ main'.at \notin {"terminate", "ending", "abandoned", "request"}
    BY <2>1, <2>4, PlaceKinds DEF ClosedPlaces
  <2>6. QED
    BY <1>1, <1>2, <1>3, <2>1, <2>4, <2>5, ServiceReduced
<1>7. QED
  BY <1>4, <1>5, <1>6

-----------------------------------------------------------------------------
(* The theorems.                                                           *)

LEMMA InitHolds == Init => SupervisionInv
<1> SUFFICES ASSUME Init PROVE SupervisionInv
  OBVIOUS
<1>1. /\ main = [at |-> "hook", phase |-> "pre", seen |-> "none",
                 forced |-> FALSE, way |-> "none"]
      /\ active = FALSE
      /\ starter = [at |-> "off", step |-> 1, result |-> "none"]
      /\ slot = "none" /\ shutdown = FALSE /\ handle = FALSE
      /\ reaped = FALSE /\ config = FALSE
      /\ monitor = [at |-> "none", warned |-> FALSE]
      /\ proc = [p \in Procs |-> NoChild]
  BY DEF Init, SshInit, ProcInit
<1>2. \A p \in Procs : proc[p].is = "none" /\ proc[p].asked = "none"
  BY <1>1 DEF NoChild
<1>3. OwnTypes
  <2>1. proc \in ProcType
    BY <1>1 DEF ProcType, NoChild
  <2>2. main \in MainType
    BY <1>1, PlaceKinds DEF MainType
  <2>3. starter \in StarterType /\ monitor \in MonitorType
    BY <1>1 DEF StarterType, MonitorType
  <2>4. QED
    BY <1>1, <2>1, <2>2, <2>3 DEF OwnTypes
<1>4. StarterConsistent
  BY <1>1 DEF StarterConsistent, AlivePlaces
<1>5. ChildrenOwned
  BY <1>1, <1>2, Children DEF ChildrenOwned
<1>6. ConfigConsistent /\ FlagFirst /\ SignalOnItsWay
  BY <1>1, <1>2, Children DEF ConfigConsistent, FlagFirst, SignalOnItsWay
<1>7. ServiceConsistent
  BY <1>1, PlaceKinds DEF ServiceConsistent, AlivePlaces
<1>8. HookOwned /\ ServiceGone
  BY <1>1, <1>2, Children, PlaceKinds DEF HookOwned, ServiceGone, Live
<1>9. QED
  BY <1>3, <1>4, <1>5, <1>6, <1>7, <1>8 DEF SupervisionInv

\* Nothing the invariant speaks of is touched by deliveries, producers and the
\* environment.
LEMMA OthersKeepInv ==
    ASSUME SupervisionInv, UNCHANGED <<mainVars, sshVars>>
    PROVE  SupervisionInv'
<1>1. UNCHANGED <<main, active, starter, slot, shutdown, handle, reaped,
                  monitor, config, proc>>
  BY DEF mainVars, sshVars, serviceVars
<1>2. OwnTypes' = OwnTypes /\ StarterConsistent' = StarterConsistent
  BY <1>1 DEF OwnTypes, StarterConsistent, Step
<1>3. ChildrenOwned' = ChildrenOwned /\ ConfigConsistent' = ConfigConsistent
  BY <1>1 DEF ChildrenOwned, ConfigConsistent, Step, Live
<1>4. ServiceConsistent' = ServiceConsistent /\ FlagFirst' = FlagFirst
  BY <1>1 DEF ServiceConsistent, FlagFirst
<1>5. SignalOnItsWay' = SignalOnItsWay /\ HookOwned' = HookOwned
  BY <1>1 DEF SignalOnItsWay, HookOwned, Live
<1>6. ServiceGone' = ServiceGone
  BY <1>1 DEF ServiceGone, Live
<1>7. QED
  BY <1>2, <1>3, <1>4, <1>5, <1>6 DEF SupervisionInv

LEMMA StepKeepsInv == SupervisionInv /\ [Next]_vars => SupervisionInv'
<1> SUFFICES ASSUME SupervisionInv, [Next]_vars PROVE SupervisionInv'
  OBVIOUS
<1>1. CASE MainStep
  BY <1>1, HookStepsKeepInv, StartSshKeepsInv, PollingKeepsInv,
     JoinedKeepsInv, SignalsKeepInv, LooksKeepInv, StartComfyuiKeepsInv,
     StoppingKeepsInv DEF MainStep, StartStep, StopStep
<1>2. CASE EndRun
  BY <1>2, EndRunKeepsInv
<1>3. CASE Starter
  BY <1>3, StarterKeepsInv DEF Starter, Background, mainVars
<1>4. CASE Monitor
  BY <1>4, MonitorKeepsInv DEF Monitor, Background, mainVars
<1>5. CASE \E p \in Procs : ProcEnds(p)
  BY <1>5, ChildEndsKeepsInv
<1>6. CASE Worker \/ Producers \/ Cancelled \/ Repeated \/ DeadlinePasses
             \/ DeliveryDeadline \/ UNCHANGED vars
  <2>1. UNCHANGED <<mainVars, sshVars>>
    BY <1>6 DEF Worker, Producers, Cancelled, Repeated, DeadlinePasses,
       DeliveryDeadline, Background, StillSsh, onlySsh, vars, sshVars,
       serviceVars
  <2>2. QED
    BY <2>1, OthersKeepInv
<1>7. QED
  BY <1>1, <1>2, <1>3, <1>4, <1>5, <1>6 DEF Next

\* Every child, the published process, the generated configuration and the
\* stop flag are accounted for in every state of a generation.
THEOREM InvariantHolds == Spec => []SupervisionInv
<1>1. Init => SupervisionInv
  BY InitHolds
<1>2. SupervisionInv /\ [Next]_vars => SupervisionInv'
  BY StepKeepsInv
<1>3. QED
  BY <1>1, <1>2, PTL DEF Spec

\* Between the publication of a preparation process and the stop request one
\* of the two sees the other (ssh/service.py observe_preparation_process,
\* request_stop).
THEOREM PublicationIsSignalled == Spec => []PublishedIsSignalled
<1>1. SupervisionInv => PublishedIsSignalled
  BY DEF SupervisionInv, SignalOnItsWay, PublishedIsSignalled, At, AtStarter
<1>2. QED
  BY <1>1, InvariantHolds, PTL

\* A finished generation leaves no startup thread, no published process, no
\* sshd configuration and no child, except a hook whose group refused the
\* signal when ComfyUI was then found to have ended (lifecycle.py,
\* ssh/service.py, hooks.py).
THEOREM GenerationLeavesNothing == Spec => []StoppedIsClean
<1>1. SupervisionInv => StoppedIsClean
  <2> SUFFICES ASSUME SupervisionInv, main.at \in ClosedPlaces
               PROVE  /\ \A p \in Procs :
                            Live(p) => /\ p = "hook" /\ active
                                       /\ main.way = "gone"
                      /\ ~StarterAlive /\ slot = "none" /\ ~config
    BY DEF StoppedIsClean, ClosedPlaces
  <2>1. /\ main.at \notin PollPlaces /\ main.at \notin StartupPlaces
        /\ main.at \notin ServicePlaces /\ main.at \notin HookPlaces
    BY PlaceKinds
  <2>2. /\ main.at \notin {"hookwait", "hookstop", "hookleft", "hookend"}
    BY <2>1 DEF HookPlaces, ClosedPlaces
  <2>3. starter.at \in {"off", "dead"}
    BY <2>1 DEF SupervisionInv, OwnTypes, StarterType, ServiceConsistent
  <2>4. slot = "none" /\ ~StarterAlive
    BY <2>3 DEF SupervisionInv, StarterConsistent, StarterAlive
  <2>5. ~Live("sshd") /\ ~config
    BY DEF SupervisionInv, ServiceGone
  <2>6. Live("hook") => active /\ main.way = "gone"
    BY <2>1, <2>2 DEF SupervisionInv, HookOwned
  <2>7. \A p \in Commands : ~Live(p)
    BY <2>3 DEF SupervisionInv, ChildrenOwned, Live
  <2>8. QED
    BY <2>4, <2>5, <2>6, <2>7, Children
<1>2. QED
  BY <1>1, InvariantHolds, PTL

\* Only an exit of sshd that nobody caused is reported as unexpected
\* (ssh/service.py monitor_after_comfyui_start).
THEOREM AlarmsAreGenuine == Spec => []AlarmIsGenuine
<1>1. SupervisionInv => AlarmIsGenuine
  BY DEF SupervisionInv, FlagFirst, AlarmIsGenuine
<1>2. QED
  BY <1>1, InvariantHolds, PTL

-----------------------------------------------------------------------------
(* The delivery of what is reported.                                       *)

DeliveryPlaces == {"top", "drain", "deliver", "idle", "exit"}
Events == [seq : Nat, id : Nat, category : Categories \cup {"none"}]
Counts == [Categories -> Nat]
WorkerType == [at : DeliveryPlaces, final : BOOLEAN, out : SUBSET Events,
               counts : Counts]
QueueFields == {"warnings", "transitions", "counts", "omitted", "progress",
                "next", "closed"}

\* What the queues, the worker and the histories are made of.
DeliveryTypes ==
    /\ QueueFields \subseteq DOMAIN bg
    /\ bg.warnings \in SUBSET Events /\ IsFiniteSet(bg.warnings)
    /\ bg.transitions \in SUBSET Events /\ IsFiniteSet(bg.transitions)
    /\ \A e \in bg.transitions : e.category = "none"
    /\ bg.counts \in Counts
    /\ bg.next \in Nat
    /\ bg.closed \in BOOLEAN
    /\ dworker \in WorkerType /\ IsFiniteSet(dworker.out)
    /\ dclosed \in BOOLEAN /\ cut \in BOOLEAN
    /\ offers \in Nat /\ last \in Nat
    /\ offered \in Counts /\ told \in Counts /\ dropped \in Counts

Queue == bg.warnings \cup bg.transitions
Earlier(e, f) == e.seq < f.seq /\ e.id < f.id

\* Numbers are given in the order of the offers, in the queues and in what the
\* worker has taken out of them; the queues hold later offers than the worker,
\* and the worker later ones than it has handed over.
Numbered ==
    /\ \A e \in Queue : e.seq < bg.next /\ last < e.id /\ e.id <= offers
    /\ \A e, f \in Queue : e = f \/ Earlier(e, f) \/ Earlier(f, e)
    /\ \A e \in dworker.out : last < e.id /\ e.id <= offers
    /\ \A e, f \in dworker.out : e = f \/ Earlier(e, f) \/ Earlier(f, e)
    /\ \A e \in dworker.out, f \in Queue : e.id < f.id
    /\ last <= offers

\* Every accepted warning is somewhere, and only a cut drops one.
Accounted ==
    /\ \A c \in Categories : offered[c] = told[c] + Held(c) + dropped[c]
    /\ ~cut => dropped = NoCounts

\* The generation closes the queues before it tells the worker.
ClosedFirst ==
    main.at \in {"closing", "closed", "done"} => bg.closed

\* The worker is told to finish after the queues are closed; it carries events
\* only while it hands them over, and in its last round it has left nothing.
ClosedInOrder ==
    /\ dclosed => bg.closed
    /\ dworker.final => dclosed
    /\ dworker.at # "deliver" => CarriesNothing
    /\ dworker.at = "exit" => dworker.final
    /\ dworker.final /\ dworker.at \in {"deliver", "exit"} =>
         Queue = {} /\ bg.counts = NoCounts

DeliveryInv ==
    DeliveryTypes /\ Numbered /\ Accounted /\ ClosedInOrder /\ ClosedFirst

\* Counting the events of one category.
LEMMA OfType ==
    ASSUME NEW c, NEW S, IsFiniteSet(S)
    PROVE  Of(c, S) \in Nat
<1>1. IsFiniteSet({e \in S : e.category = c})
  BY FS_Subset
<1>2. QED
  BY <1>1, FS_CardinalityType DEF Of

LEMMA OfNothing == \A c : Of(c, {}) = 0
<1> SUFFICES ASSUME NEW c PROVE Of(c, {}) = 0
  OBVIOUS
<1>1. {e \in {} : e.category = c} = {}
  OBVIOUS
<1>2. QED
  BY <1>1, FS_EmptySet DEF Of

LEMMA OfOne ==
    ASSUME NEW c, NEW e
    PROVE  Of(c, {e}) = IF e.category = c THEN 1 ELSE 0
<1>1. CASE e.category = c
  <2>1. {x \in {e} : x.category = c} = {e}
    BY <1>1
  <2>2. QED
    BY <1>1, <2>1, FS_Singleton DEF Of
<1>2. CASE e.category # c
  <2>1. {x \in {e} : x.category = c} = {}
    BY <1>2
  <2>2. QED
    BY <1>2, <2>1, FS_EmptySet DEF Of
<1>3. QED
  BY <1>1, <1>2

LEMMA OfAdded ==
    ASSUME NEW c, NEW S, IsFiniteSet(S), NEW e, e \notin S
    PROVE  /\ IsFiniteSet(S \cup {e})
           /\ Of(c, S \cup {e}) = Of(c, S) + Of(c, {e})
<1> DEFINE T == {x \in S : x.category = c}
<1>1. IsFiniteSet(T) /\ e \notin T /\ IsFiniteSet(S \cup {e})
  BY FS_Subset, FS_AddElement
<1>2. CASE e.category = c
  <2>1. {x \in S \cup {e} : x.category = c} = T \cup {e}
    BY <1>2
  <2>2. Cardinality(T \cup {e}) = Cardinality(T) + 1
    BY <1>1, FS_AddElement
  <2>3. QED
    BY <1>1, <1>2, <2>1, <2>2, OfOne DEF Of
<1>3. CASE e.category # c
  <2>1. {x \in S \cup {e} : x.category = c} = T
    BY <1>3
  <2>2. Cardinality(T) \in Nat
    BY <1>1, FS_CardinalityType
  <2>3. Of(c, {e}) = 0
    BY <1>3, OfOne
  <2>4. Of(c, S \cup {e}) = Cardinality(T) /\ Of(c, S) = Cardinality(T)
    BY <2>1 DEF Of
  <2>5. QED
    BY <1>1, <2>2, <2>3, <2>4
<1>4. QED
  BY <1>2, <1>3

LEMMA OfRemoved ==
    ASSUME NEW c, NEW S, IsFiniteSet(S), NEW e \in S
    PROVE  /\ IsFiniteSet(S \ {e})
           /\ Of(c, S) = Of(c, S \ {e}) + Of(c, {e})
<1>1. IsFiniteSet(S \ {e}) /\ e \notin S \ {e}
  BY FS_Subset
<1>2. (S \ {e}) \cup {e} = S
  OBVIOUS
<1>3. QED
  BY <1>1, <1>2, OfAdded

\* What is held, term by term.
LEMMA HeldTerms ==
    ASSUME DeliveryTypes, NEW c \in Categories
    PROVE  /\ bg.counts[c] \in Nat /\ dworker.counts[c] \in Nat
           /\ Of(c, bg.warnings) \in Nat /\ Of(c, dworker.out) \in Nat
           /\ offered[c] \in Nat /\ told[c] \in Nat /\ dropped[c] \in Nat
           /\ Held(c) = bg.counts[c] + Of(c, bg.warnings)
                          + dworker.counts[c] + Of(c, dworker.out)
<1>1. IsFiniteSet(bg.warnings) /\ IsFiniteSet(dworker.out)
  BY DEF DeliveryTypes
<1>2. Of(c, bg.warnings) \in Nat /\ Of(c, dworker.out) \in Nat
  BY <1>1, OfType
<1>3. QED
  BY <1>2 DEF DeliveryTypes, Counts, WorkerType, Held

\* An offer that is refused, or that is only an omission, or progress.
LEMMA QuietOfferKeepsInv ==
    ASSUME DeliveryInv, OnlyOffers,
           offers' \in {offers, offers + 1}, offered' = offered,
           QueueFields \subseteq DOMAIN bg',
           bg'.warnings = bg.warnings, bg'.transitions = bg.transitions,
           bg'.counts = bg.counts, bg'.next = bg.next,
           bg'.closed \in BOOLEAN, bg.closed => bg'.closed,
           ClosedFirst'
    PROVE  DeliveryInv'
<1> USE DEF DeliveryInv, OnlyOffers
<1>1. DeliveryTypes'
  BY DEF DeliveryTypes
<1>2. Numbered'
  <2>1. Queue' = Queue
    BY DEF Queue
  <2>2. \A n \in Nat : n <= offers => n <= offers'
    BY DEF DeliveryTypes
  <2>3. \A e \in Queue \cup dworker.out : e.id \in Nat
    BY DEF DeliveryTypes, Queue, Events, WorkerType
  <2>4. last \in Nat
    BY DEF DeliveryTypes
  <2>5. QED
    BY <2>1, <2>2, <2>3, <2>4 DEF Numbered, Earlier
<1>3. Accounted'
  BY DEF Accounted, Held
<1>4. ClosedInOrder'
  BY DEF ClosedInOrder, CarriesNothing, Queue
<1>5. QED
  BY <1>1, <1>2, <1>3, <1>4

\* One more event with the next number, a warning or not.
LEMMA QueuedIsLater ==
    ASSUME DeliveryTypes, Numbered, NEW c \in Categories \cup {"none"}
    PROVE  LET e == Queued(offers + 1, c)
           IN  /\ e \in Events /\ e.category = c
               /\ e.seq = bg.next /\ e.id = offers + 1
               /\ e \notin Queue
               /\ \A f \in Queue : Earlier(f, e)
               /\ last < e.id
               /\ \A f \in dworker.out : f.id < e.id
<1> DEFINE e == Queued(offers + 1, c)
<1>1. /\ e \in Events /\ e.category = c
      /\ e.seq = bg.next /\ e.id = offers + 1
  BY DEF DeliveryTypes, Queued, Events
<1>2. /\ bg.next \in Nat /\ offers \in Nat /\ last \in Nat
      /\ \A f \in Queue \cup dworker.out : f.id \in Nat /\ f.seq \in Nat
  BY DEF DeliveryTypes, Queue, WorkerType, Events
<1>3. \A f \in Queue : f.seq < bg.next /\ f.id <= offers
  BY DEF Numbered
<1>4. \A f \in Queue : Earlier(f, e)
  BY <1>1, <1>2, <1>3 DEF Earlier
<1>5. e \notin Queue
  BY <1>1, <1>2, <1>3
<1>6. last < e.id /\ \A f \in dworker.out : f.id < e.id
  BY <1>1, <1>2 DEF Numbered
<1>7. QED
  BY <1>1, <1>4, <1>5, <1>6

\* The queues with one more event stay in the order of the offers.
LEMMA QueuedKeepsOrder ==
    ASSUME DeliveryTypes, Numbered, NEW c \in Categories \cup {"none"},
           Queue' = Queue \cup {Queued(offers + 1, c)},
           bg'.next = bg.next + 1, offers' = offers + 1,
           dworker' = dworker, last' = last
    PROVE  Numbered'
<1> DEFINE e == Queued(offers + 1, c)
<1> HIDE DEF e
<1>1. /\ e \in Events /\ e.seq = bg.next /\ e.id = offers + 1
      /\ \A f \in Queue : Earlier(f, e)
      /\ last < e.id
      /\ \A f \in dworker.out : f.id < e.id
  BY QueuedIsLater DEF e
<1>2. Queue' = Queue \cup {e}
  BY DEF e
<1>3. /\ bg.next \in Nat /\ offers \in Nat /\ last \in Nat
      /\ \A f \in Queue \cup dworker.out : f.id \in Nat /\ f.seq \in Nat
  BY DEF DeliveryTypes, Queue, WorkerType, Events
<1>4. \A f \in Queue' : f.seq < bg'.next /\ last' < f.id /\ f.id <= offers'
  BY <1>1, <1>2, <1>3 DEF Numbered
<1>5. \A f, g \in Queue' : f = g \/ Earlier(f, g) \/ Earlier(g, f)
  BY <1>1, <1>2 DEF Numbered
<1>6. \A f \in dworker'.out : last' < f.id /\ f.id <= offers'
  BY <1>3 DEF Numbered
<1>7. \A f, g \in dworker'.out : f = g \/ Earlier(f, g) \/ Earlier(g, f)
  BY DEF Numbered
<1>8. \A f \in dworker'.out, g \in Queue' : f.id < g.id
  BY <1>1, <1>2 DEF Numbered
<1>9. last' <= offers'
  BY <1>3 DEF Numbered
<1>10. QED
  BY <1>4, <1>5, <1>6, <1>7, <1>8, <1>9 DEF Numbered, Earlier

\* A warning is queued, or counted once the queue is full.
LEMMA WarnKeepsInv ==
    ASSUME DeliveryInv, NEW c \in Categories, Warn(c), main' = main
    PROVE  DeliveryInv'
<1> USE DEF DeliveryInv
<1>1. OnlyOffers /\ offers' = offers + 1
  BY DEF Warn
<1>2. CASE bg.closed
  <2>1. bg' = bg /\ offered' = offered
    BY <1>2 DEF Warn
  <2>2. ClosedFirst'
    BY <2>1 DEF ClosedFirst
  <2>3. QueueFields \subseteq DOMAIN bg' /\ bg'.closed \in BOOLEAN
    BY <2>1 DEF DeliveryTypes
  <2>4. QED
    BY <1>1, <2>1, <2>2, <2>3, QuietOfferKeepsInv
<1>3. CASE ~bg.closed
  <2>1. /\ bg' = Warned(offers + 1, c)
        /\ offered' = [offered EXCEPT ![c] = @ + 1]
        /\ dworker' = dworker /\ dclosed' = dclosed /\ cut' = cut
        /\ told' = told /\ last' = last /\ dropped' = dropped
    BY <1>1, <1>3 DEF Warn, OnlyOffers
  <2>2. /\ offered' \in Counts
        /\ \A d \in Categories :
             offered'[d] = offered[d] + (IF d = c THEN 1 ELSE 0)
    BY <2>1 DEF DeliveryTypes, Counts
  <2>3. ~dclosed /\ ~dworker.final
    BY <1>3 DEF ClosedInOrder
  <2>4. CASE RoomFor(bg.warnings, WarningCapacity)
    <3> DEFINE e == Queued(offers + 1, c)
    <3> HIDE DEF e
    <3>1. bg' = [bg EXCEPT !.warnings = @ \cup {e}, !.next = @ + 1]
      BY <2>1, <2>4 DEF Warned, e
    <3>2. /\ QueueFields \subseteq DOMAIN bg'
          /\ bg'.warnings = bg.warnings \cup {e}
          /\ bg'.transitions = bg.transitions
          /\ bg'.counts = bg.counts /\ bg'.next = bg.next + 1
          /\ bg'.closed = bg.closed
      BY <3>1 DEF DeliveryTypes, QueueFields
    <3>3. e \in Events /\ e.category = c /\ e \notin Queue
      BY QueuedIsLater DEF e
    <3>4. e \notin bg.warnings /\ IsFiniteSet(bg.warnings)
      BY <3>3 DEF Queue, DeliveryTypes
    <3>5. IsFiniteSet(bg'.warnings)
      BY <3>2, <3>4, FS_AddElement
    <3>6. DeliveryTypes'
      BY <1>1, <2>1, <2>2, <3>2, <3>3, <3>5 DEF DeliveryTypes
    <3>7. Numbered'
      <4>1. Queue' = Queue \cup {Queued(offers + 1, c)}
        BY <3>2 DEF Queue, e
      <4>2. QED
        BY <1>1, <2>1, <3>2, <4>1, QueuedKeepsOrder
    <3>8. Accounted'
      <4>1. ASSUME NEW d \in Categories
            PROVE  offered'[d] = told'[d] + Held(d)' + dropped'[d]
        <5>1. Of(d, bg'.warnings)
                = Of(d, bg.warnings) + (IF d = c THEN 1 ELSE 0)
          <6>1. Of(d, bg.warnings \cup {e}) = Of(d, bg.warnings) + Of(d, {e})
            BY <3>4, OfAdded
          <6>2. Of(d, {e}) = IF d = c THEN 1 ELSE 0
            BY <3>3, OfOne
          <6>3. QED
            BY <3>2, <6>1, <6>2
        <5>2. Held(d)' = Held(d) + (IF d = c THEN 1 ELSE 0)
          <6>1. Held(d)' = bg'.counts[d] + Of(d, bg'.warnings)
                             + dworker'.counts[d] + Of(d, dworker'.out)
            BY DEF Held
          <6>2. /\ bg.counts[d] \in Nat /\ dworker.counts[d] \in Nat
                /\ Of(d, bg.warnings) \in Nat /\ Of(d, dworker.out) \in Nat
                /\ Held(d) = bg.counts[d] + Of(d, bg.warnings)
                               + dworker.counts[d] + Of(d, dworker.out)
            BY HeldTerms
          <6>3. QED
            BY <2>1, <3>2, <5>1, <6>1, <6>2
        <5>3. QED
          BY <2>1, <2>2, <5>2, HeldTerms DEF Accounted
      <4>2. QED
        BY <2>1, <4>1 DEF Accounted, NoCounts
    <3>9. ClosedInOrder' /\ ClosedFirst'
      BY <2>1, <2>3, <3>2 DEF ClosedInOrder, ClosedFirst, CarriesNothing
    <3>10. QED
      BY <3>6, <3>7, <3>8, <3>9
  <2>5. CASE ~RoomFor(bg.warnings, WarningCapacity)
    <3>1. bg' = [bg EXCEPT !.counts[c] = @ + 1]
      BY <2>1, <2>5 DEF Warned
    <3>2. /\ QueueFields \subseteq DOMAIN bg'
          /\ bg'.warnings = bg.warnings
          /\ bg'.transitions = bg.transitions
          /\ bg'.counts = [bg.counts EXCEPT ![c] = @ + 1]
          /\ bg'.next = bg.next /\ bg'.closed = bg.closed
      BY <3>1 DEF DeliveryTypes, QueueFields
    <3>3. /\ bg'.counts \in Counts
          /\ \A d \in Categories :
               bg'.counts[d] = bg.counts[d] + (IF d = c THEN 1 ELSE 0)
      BY <3>2 DEF DeliveryTypes, Counts
    <3>4. DeliveryTypes'
      BY <1>1, <2>1, <2>2, <3>2, <3>3 DEF DeliveryTypes
    <3>5. Numbered'
      <4>1. Queue' = Queue
        BY <3>2 DEF Queue
      <4>2. \A e \in Queue \cup dworker.out : e.id \in Nat
        BY DEF DeliveryTypes, Queue, Events, WorkerType
      <4>3. last \in Nat /\ offers \in Nat
        BY DEF DeliveryTypes
      <4>4. QED
        BY <1>1, <2>1, <3>2, <4>1, <4>2, <4>3 DEF Numbered, Earlier
    <3>6. Accounted'
      <4>1. ASSUME NEW d \in Categories
            PROVE  offered'[d] = told'[d] + Held(d)' + dropped'[d]
        <5>1. Held(d)' = Held(d) + (IF d = c THEN 1 ELSE 0)
          <6>1. Held(d)' = bg'.counts[d] + Of(d, bg'.warnings)
                             + dworker'.counts[d] + Of(d, dworker'.out)
            BY DEF Held
          <6>2. /\ bg.counts[d] \in Nat /\ dworker.counts[d] \in Nat
                /\ Of(d, bg.warnings) \in Nat /\ Of(d, dworker.out) \in Nat
                /\ Held(d) = bg.counts[d] + Of(d, bg.warnings)
                               + dworker.counts[d] + Of(d, dworker.out)
            BY HeldTerms
          <6>3. /\ Of(d, bg'.warnings) = Of(d, bg.warnings)
                /\ dworker' = dworker
                /\ bg'.counts[d] = bg.counts[d] + (IF d = c THEN 1 ELSE 0)
            BY <2>1, <3>2, <3>3
          <6>4. QED
            BY <6>1, <6>2, <6>3
        <5>2. QED
          BY <2>1, <2>2, <5>1, HeldTerms DEF Accounted
      <4>2. QED
        BY <2>1, <4>1 DEF Accounted, NoCounts
    <3>7. ClosedInOrder' /\ ClosedFirst'
      BY <2>1, <2>3, <3>2 DEF ClosedInOrder, ClosedFirst, CarriesNothing
    <3>8. QED
      BY <3>4, <3>5, <3>6, <3>7
  <2>6. QED
    BY <2>4, <2>5
<1>4. QED
  BY <1>2, <1>3

\* A transition is queued, or only its omission is noted.
LEMMA AnnounceKeepsInv ==
    ASSUME DeliveryInv, Announce, main' = main
    PROVE  DeliveryInv'
<1> USE DEF DeliveryInv
<1>1. OnlyOffers /\ offers' = offers + 1 /\ offered' = offered
  BY DEF Announce
<1>2. CASE bg.closed \/ ~bg.information
  <2>1. bg' = bg
    BY <1>2 DEF Announce
  <2>2. ClosedFirst'
    BY <2>1 DEF ClosedFirst
  <2>3. QueueFields \subseteq DOMAIN bg' /\ bg'.closed \in BOOLEAN
    BY <2>1 DEF DeliveryTypes
  <2>4. QED
    BY <1>1, <2>1, <2>2, <2>3, QuietOfferKeepsInv
<1>3. CASE ~bg.closed /\ bg.information
            /\ RoomFor(bg.transitions, TransitionCapacity)
  <2> DEFINE e == Queued(offers + 1, "none")
  <2> HIDE DEF e
  <2>1. bg' = [bg EXCEPT !.next = @ + 1, !.transitions = @ \cup {e}]
    BY <1>3 DEF Announce, e
  <2>2. /\ QueueFields \subseteq DOMAIN bg'
        /\ bg'.warnings = bg.warnings
        /\ bg'.transitions = bg.transitions \cup {e}
        /\ bg'.counts = bg.counts /\ bg'.next = bg.next + 1
        /\ bg'.closed = bg.closed
    BY <2>1 DEF DeliveryTypes, QueueFields
  <2>3. e \in Events /\ e.category = "none"
    BY QueuedIsLater DEF e
  <2>4. IsFiniteSet(bg'.transitions)
    <3>1. IsFiniteSet(bg.transitions)
      BY DEF DeliveryTypes
    <3>2. IsFiniteSet(bg.transitions \cup {e})
      BY <3>1, FS_AddElement
    <3>3. QED
      BY <2>2, <3>2
  <2>5. ~dclosed /\ ~dworker.final
    BY <1>3 DEF ClosedInOrder
  <2>6. DeliveryTypes'
    BY <1>1, <2>2, <2>3, <2>4 DEF DeliveryTypes, OnlyOffers
  <2>7. Numbered'
    <3>1. Queue' = Queue \cup {Queued(offers + 1, "none")}
      BY <2>2 DEF Queue, e
    <3>2. QED
      BY <1>1, <2>2, <3>1, QueuedKeepsOrder DEF OnlyOffers
  <2>8. Accounted'
    BY <1>1, <2>2 DEF Accounted, Held, OnlyOffers, NoCounts
  <2>9. ClosedInOrder' /\ ClosedFirst'
    BY <1>1, <2>2, <2>5
       DEF ClosedInOrder, ClosedFirst, CarriesNothing, OnlyOffers
  <2>10. QED
    BY <2>6, <2>7, <2>8, <2>9
<1>4. CASE ~bg.closed /\ bg.information
            /\ ~RoomFor(bg.transitions, TransitionCapacity)
  <2>1. bg' = [bg EXCEPT !.omitted = @ + 1]
    BY <1>4 DEF Announce
  <2>2. /\ QueueFields \subseteq DOMAIN bg'
        /\ bg'.warnings = bg.warnings /\ bg'.transitions = bg.transitions
        /\ bg'.counts = bg.counts /\ bg'.next = bg.next
        /\ bg'.closed = bg.closed
    BY <2>1 DEF DeliveryTypes, QueueFields
  <2>3. ClosedFirst' /\ bg'.closed \in BOOLEAN
    BY <2>2 DEF ClosedFirst, DeliveryTypes
  <2>4. QED
    BY <1>1, <2>2, <2>3, QuietOfferKeepsInv
<1>5. QED
  BY <1>2, <1>3, <1>4

\* Progress replaces what is kept of its transfer and nothing else.
LEMMA ProgressKeepsInv ==
    ASSUME DeliveryInv, NEW s \in Scopes, Progress(s) \/ CloseProgress(s),
           main' = main
    PROVE  DeliveryInv'
<1> USE DEF DeliveryInv
<1>1. /\ OnlyOffers /\ offered' = offered
      /\ offers' \in {offers, offers + 1}
  BY DEF Progress, CloseProgress
<1>2. \/ bg' = bg
      \/ \E p : bg' = [bg EXCEPT !.progress = p]
      \/ \E n, p : bg' = [bg EXCEPT !.omitted = n, !.progress = p]
  <2>1. CASE CloseProgress(s)
    BY <2>1 DEF CloseProgress
  <2>2. CASE Progress(s) /\ (bg.closed \/ ~bg.information)
    BY <2>2 DEF Progress
  <2>3. CASE Progress(s) /\ ~(bg.closed \/ ~bg.information)
    <3>1. PICK due \in BOOLEAN :
            LET held == \E i \in PlacesOf(s) : bg.progress[i].due
                full == /\ PlacesOf(s) = {}
                        /\ Len(bg.progress) >= ProgressCapacity
                rest == IF full THEN Tail(bg.progress) ELSE WithoutScope(s)
            IN bg' = [bg EXCEPT
                  !.omitted = IF full THEN @ + 1 ELSE @,
                  !.progress = Append(rest, [scope |-> s,
                                             due |-> due \/ held])]
      BY <2>3 DEF Progress
    <3>2. \E n, p : bg' = [bg EXCEPT !.omitted = n, !.progress = p]
      BY <3>1, Zenon
    <3>3. QED
      BY <3>2
  <2>4. QED
    BY <2>1, <2>2, <2>3
<1>3. /\ QueueFields \subseteq DOMAIN bg'
      /\ bg'.warnings = bg.warnings /\ bg'.transitions = bg.transitions
      /\ bg'.counts = bg.counts /\ bg'.next = bg.next
      /\ bg'.closed = bg.closed
  <2>1. CASE bg' = bg
    BY <2>1 DEF DeliveryTypes
  <2>2. CASE \E p : bg' = [bg EXCEPT !.progress = p]
    <3>1. PICK p : bg' = [bg EXCEPT !.progress = p]
      BY <2>2
    <3>2. QED
      BY <3>1 DEF DeliveryTypes, QueueFields
  <2>3. CASE \E n, p : bg' = [bg EXCEPT !.omitted = n, !.progress = p]
    <3>1. PICK n, p : bg' = [bg EXCEPT !.omitted = n, !.progress = p]
      BY <2>3
    <3>2. QED
      BY <3>1 DEF DeliveryTypes, QueueFields
  <2>4. QED
    BY <1>2, <2>1, <2>2, <2>3
<1>4. ClosedFirst' /\ bg'.closed \in BOOLEAN
  BY <1>3 DEF ClosedFirst, DeliveryTypes
<1>5. QED
  BY <1>1, <1>3, <1>4, QuietOfferKeepsInv

\* What the worker does without touching an event.
LEMMA WorkerMovesKeepInv ==
    ASSUME DeliveryInv, Look \/ Finish \/ Wake, main' = main
    PROVE  DeliveryInv'
<1> USE DEF DeliveryInv
<1>1. /\ bg' = bg /\ told' = told /\ last' = last /\ dropped' = dropped
      /\ dclosed' = dclosed /\ cut' = cut /\ offers' = offers
      /\ offered' = offered
  BY DEF Look, Finish, Wake, OnlyWorker
<1>2. /\ dworker' \in WorkerType
      /\ dworker'.out = dworker.out /\ dworker'.counts = dworker.counts
      /\ CarriesNothing
      /\ dworker'.final => dclosed
      /\ dworker'.at # "deliver"
      /\ dworker'.at = "exit" => dworker'.final /\ dworker.at = "deliver"
      /\ dworker'.at = "exit" => dworker.final
  <2>1. CASE Look
    <3>1. dworker' = [dworker EXCEPT !.at = "drain", !.final = dclosed]
      BY <2>1 DEF Look
    <3>2. CarriesNothing
      BY <2>1 DEF Look, ClosedInOrder
    <3>3. QED
      BY <3>1, <3>2 DEF DeliveryTypes, WorkerType, DeliveryPlaces
  <2>2. CASE Finish
    <3>1. /\ dworker' = [dworker EXCEPT !.at =
                           IF dworker.final THEN "exit" ELSE "idle"]
          /\ CarriesNothing /\ dworker.at = "deliver"
      BY <2>2 DEF Finish
    <3>2. QED
      BY <3>1 DEF DeliveryTypes, WorkerType, DeliveryPlaces, ClosedInOrder
  <2>3. CASE Wake
    <3>1. dworker' = [dworker EXCEPT !.at = "top"]
      BY <2>3 DEF Wake
    <3>2. CarriesNothing
      BY <2>3 DEF Wake, ClosedInOrder
    <3>3. QED
      BY <3>1, <3>2 DEF DeliveryTypes, WorkerType, DeliveryPlaces,
         ClosedInOrder
  <2>4. QED
    BY <2>1, <2>2, <2>3
<1>3. DeliveryTypes'
  BY <1>1, <1>2 DEF DeliveryTypes
<1>4. Numbered'
  BY <1>1, <1>2 DEF Numbered, Queue, Earlier
<1>5. Accounted'
  BY <1>1, <1>2 DEF Accounted, Held
<1>6. ClosedInOrder' /\ ClosedFirst'
  BY <1>1, <1>2 DEF ClosedInOrder, ClosedFirst, CarriesNothing, Queue
<1>7. QED
  BY <1>3, <1>4, <1>5, <1>6

\* The worker takes everything out of the queues.
LEMMA DrainKeepsInv ==
    ASSUME DeliveryInv, Drain, main' = main
    PROVE  DeliveryInv'
<1> USE DEF DeliveryInv
<1>1. /\ told' = told /\ last' = last /\ dropped' = dropped
      /\ dclosed' = dclosed /\ cut' = cut /\ offers' = offers
      /\ offered' = offered
      /\ dworker.at = "drain"
      /\ dworker' = [dworker EXCEPT !.at = "deliver", !.out = Queue,
                                    !.counts = bg.counts]
      /\ bg' = Drained
  BY DEF Drain, OnlyWorker, Queue
<1>2. \E p : bg' = [bg EXCEPT !.warnings = {}, !.transitions = {},
                      !.counts = NoCounts, !.omitted = 0, !.next = 0,
                      !.progress = p]
  BY <1>1, Zenon DEF Drained
<1>3. /\ QueueFields \subseteq DOMAIN bg'
      /\ bg'.warnings = {} /\ bg'.transitions = {}
      /\ bg'.counts = NoCounts /\ bg'.next = 0
      /\ bg'.closed = bg.closed
  <2>1. PICK p : bg' = [bg EXCEPT !.warnings = {}, !.transitions = {},
                      !.counts = NoCounts, !.omitted = 0, !.next = 0,
                      !.progress = p]
    BY <1>2
  <2>2. QED
    BY <2>1 DEF DeliveryTypes, QueueFields
<1>4. Queue \in SUBSET Events /\ IsFiniteSet(Queue)
  BY FS_Union DEF DeliveryTypes, Queue
<1>5. /\ dworker' \in WorkerType
      /\ dworker'.at = "deliver" /\ dworker'.final = dworker.final
      /\ dworker'.out = Queue /\ dworker'.counts = bg.counts
  BY <1>1, <1>4 DEF DeliveryTypes, WorkerType, DeliveryPlaces
<1>6. NoCounts \in Counts /\ \A c \in Categories : NoCounts[c] = 0
  BY DEF NoCounts, Counts
<1>7. dworker.out = {} /\ dworker.counts = NoCounts
  BY <1>1 DEF ClosedInOrder, CarriesNothing
<1>8. IsFiniteSet({})
  BY FS_EmptySet
<1>9. DeliveryTypes'
  BY <1>1, <1>3, <1>4, <1>5, <1>6, <1>8 DEF DeliveryTypes
<1>10. Queue' = {}
  BY <1>3 DEF Queue
<1>11. Numbered'
  BY <1>1, <1>5, <1>10 DEF Numbered, Earlier
<1>12. Accounted'
  <2>1. ASSUME NEW c \in Categories
        PROVE  Held(c)' = Held(c)
    <3>1. Of(c, Queue) = Of(c, bg.warnings)
      <4>1. {e \in Queue : e.category = c}
              = {e \in bg.warnings : e.category = c}
        BY CategoriesAreWarnings DEF Queue, DeliveryTypes
      <4>2. QED
        BY <4>1 DEF Of
    <3>2. Of(c, {}) = 0
      BY OfNothing
    <3>3. /\ bg.counts[c] \in Nat /\ Of(c, bg.warnings) \in Nat
          /\ Held(c) = bg.counts[c] + Of(c, bg.warnings)
                         + dworker.counts[c] + Of(c, dworker.out)
      BY HeldTerms
    <3>4. Held(c)' = bg'.counts[c] + Of(c, bg'.warnings)
                       + dworker'.counts[c] + Of(c, dworker'.out)
      BY DEF Held
    <3>5. /\ bg'.counts[c] = 0 /\ Of(c, bg'.warnings) = 0
          /\ dworker'.counts[c] = bg.counts[c]
          /\ Of(c, dworker'.out) = Of(c, bg.warnings)
      BY <1>3, <1>5, <1>6, <3>1, <3>2
    <3>6. dworker.counts[c] = 0 /\ Of(c, dworker.out) = 0
      BY <1>6, <1>7, <3>2
    <3>7. QED
      BY <3>3, <3>4, <3>5, <3>6
  <2>2. QED
    BY <1>1, <2>1 DEF Accounted, NoCounts
<1>13. ClosedInOrder' /\ ClosedFirst'
  BY <1>1, <1>3, <1>5, <1>10
     DEF ClosedInOrder, ClosedFirst, CarriesNothing
<1>14. QED
  BY <1>9, <1>11, <1>12, <1>13

\* The worker hands over the earliest event it carries.
LEMMA DeliverEventKeepsInv ==
    ASSUME DeliveryInv, DeliverEvent, main' = main
    PROVE  DeliveryInv'
<1> USE DEF DeliveryInv
<1>1. PICK e \in dworker.out :
        /\ \A f \in dworker.out : e.seq <= f.seq
        /\ told' = [c \in Categories |-> told[c] + Of(c, {e})]
        /\ last' = e.id
        /\ dworker' = [dworker EXCEPT !.out = @ \ {e}]
  BY DEF DeliverEvent, IsNext
<1>2. /\ bg' = bg /\ dropped' = dropped /\ dclosed' = dclosed
      /\ cut' = cut /\ offers' = offers /\ offered' = offered
      /\ dworker.at = "deliver"
  BY DEF DeliverEvent, OnlyWorker
<1>3. /\ dworker' \in WorkerType
      /\ dworker'.out = dworker.out \ {e}
      /\ dworker'.counts = dworker.counts /\ dworker'.at = "deliver"
      /\ dworker'.final = dworker.final
  BY <1>1, <1>2 DEF DeliveryTypes, WorkerType
<1>4. /\ e \in Events
      /\ \A f \in dworker.out : f \in Events
      /\ \A f \in Queue : f \in Events
      /\ IsFiniteSet(dworker.out)
  BY DEF DeliveryTypes, WorkerType, Queue
<1>5. told' \in Counts
  <2>1. ASSUME NEW c \in Categories
        PROVE  Of(c, {e}) \in Nat /\ told[c] + Of(c, {e}) \in Nat
    <3>1. Of(c, {e}) = IF e.category = c THEN 1 ELSE 0
      BY OfOne
    <3>2. told[c] \in Nat
      BY HeldTerms
    <3>3. QED
      BY <3>1, <3>2
  <2>2. QED
    BY <1>1, <2>1 DEF Counts
<1>6. DeliveryTypes'
  <2>1. IsFiniteSet(dworker'.out)
    BY <1>3, <1>4, FS_Subset
  <2>2. QED
    BY <1>1, <1>2, <1>3, <1>4, <1>5, <2>1 DEF DeliveryTypes, Events
<1>7. Numbered'
  <2>1. \A f \in dworker'.out : e.id < f.id
    <3>1. ASSUME NEW f \in dworker'.out
          PROVE  e.id < f.id
      <4>1. f \in dworker.out /\ f # e /\ e.seq <= f.seq
        BY <1>1, <1>3
      <4>2. Earlier(e, f) \/ Earlier(f, e)
        BY <4>1 DEF Numbered
      <4>3. QED
        BY <1>4, <4>1, <4>2 DEF Earlier, Events
    <3>2. QED
      BY <3>1
  <2>2. \A f \in Queue : e.id < f.id
    BY DEF Numbered
  <2>3. e.id <= offers
    BY DEF Numbered
  <2>4. Queue' = Queue
    BY <1>2 DEF Queue
  <2>5. \A f \in dworker'.out : f \in dworker.out
    BY <1>3
  <2>6. QED
    BY <1>1, <1>2, <2>1, <2>2, <2>3, <2>4, <2>5 DEF Numbered, Earlier
<1>8. Accounted'
  <2>1. ASSUME NEW c \in Categories
        PROVE  told'[c] + Held(c)' = told[c] + Held(c)
    <3>1. told'[c] = told[c] + Of(c, {e})
      BY <1>1
    <3>2. /\ Of(c, dworker.out) = Of(c, dworker'.out) + Of(c, {e})
          /\ IsFiniteSet(dworker'.out)
      BY <1>3, <1>4, OfRemoved
    <3>3. /\ bg.counts[c] \in Nat /\ dworker.counts[c] \in Nat
          /\ Of(c, bg.warnings) \in Nat /\ told[c] \in Nat
          /\ Held(c) = bg.counts[c] + Of(c, bg.warnings)
                         + dworker.counts[c] + Of(c, dworker.out)
      BY HeldTerms
    <3>4. Held(c)' = bg.counts[c] + Of(c, bg.warnings)
                       + dworker.counts[c] + Of(c, dworker'.out)
      BY <1>2, <1>3 DEF Held
    <3>5. Of(c, dworker'.out) \in Nat /\ Of(c, {e}) \in Nat
      <4>1. Of(c, {e}) = IF e.category = c THEN 1 ELSE 0
        BY OfOne
      <4>2. Of(c, dworker'.out) \in Nat
        BY <3>2, OfType
      <4>3. QED
        BY <4>1, <4>2
    <3>6. QED
      BY <3>1, <3>2, <3>3, <3>4, <3>5
  <2>2. QED
    BY <1>2, <2>1 DEF Accounted, NoCounts
<1>9. ClosedInOrder' /\ ClosedFirst'
  BY <1>2, <1>3 DEF ClosedInOrder, ClosedFirst, Queue
<1>10. QED
  BY <1>6, <1>7, <1>8, <1>9

\* One count after the events.
LEMMA DeliverCountKeepsInv ==
    ASSUME DeliveryInv, DeliverCount, main' = main
    PROVE  DeliveryInv'
<1> USE DEF DeliveryInv
<1>1. PICK k \in Categories :
        /\ told' = [told EXCEPT ![k] = @ + dworker.counts[k]]
        /\ dworker' = [dworker EXCEPT !.counts[k] = 0]
  BY DEF DeliverCount
<1>2. /\ bg' = bg /\ dropped' = dropped /\ dclosed' = dclosed
      /\ cut' = cut /\ offers' = offers /\ offered' = offered
      /\ last' = last /\ dworker.at = "deliver"
  BY DEF DeliverCount, OnlyWorker
<1>3. dworker' = [dworker EXCEPT !.counts = [dworker.counts EXCEPT ![k] = 0]]
  BY <1>1
<1>4. /\ dworker' \in WorkerType
      /\ dworker'.out = dworker.out /\ dworker'.at = "deliver"
      /\ dworker'.final = dworker.final
      /\ \A c \in Categories : dworker'.counts[c] =
           IF c = k THEN 0 ELSE dworker.counts[c]
  BY <1>2, <1>3 DEF DeliveryTypes, WorkerType, Counts
<1>5. /\ told' \in Counts
      /\ \A c \in Categories : told'[c] =
           told[c] + (IF c = k THEN dworker.counts[c] ELSE 0)
  BY <1>1 DEF DeliveryTypes, WorkerType, Counts
<1>6. DeliveryTypes'
  BY <1>2, <1>4, <1>5 DEF DeliveryTypes
<1>7. Numbered'
  BY <1>2, <1>4 DEF Numbered, Queue, Earlier
<1>8. Accounted'
  <2>1. ASSUME NEW c \in Categories
        PROVE  told'[c] + Held(c)' = told[c] + Held(c)
    <3>1. /\ bg.counts[c] \in Nat /\ dworker.counts[c] \in Nat
          /\ Of(c, bg.warnings) \in Nat /\ Of(c, dworker.out) \in Nat
          /\ told[c] \in Nat
          /\ Held(c) = bg.counts[c] + Of(c, bg.warnings)
                         + dworker.counts[c] + Of(c, dworker.out)
      BY HeldTerms
    <3>2. Held(c)' = bg.counts[c] + Of(c, bg.warnings)
                       + dworker'.counts[c] + Of(c, dworker.out)
      BY <1>2, <1>4 DEF Held
    <3>3. QED
      BY <1>4, <1>5, <3>1, <3>2
  <2>2. QED
    BY <1>2, <2>1 DEF Accounted, NoCounts
<1>9. ClosedInOrder' /\ ClosedFirst'
  BY <1>2, <1>4 DEF ClosedInOrder, ClosedFirst, Queue
<1>10. QED
  BY <1>6, <1>7, <1>8, <1>9

\* A cut keeps from the sink what the worker still carries.
LEMMA CutOffKeepsInv ==
    ASSUME DeliveryInv, CutOff, main' = main
    PROVE  DeliveryInv'
<1> USE DEF DeliveryInv
<1>1. /\ dropped' = [c \in Categories |->
                       dropped[c] + dworker.counts[c] + Of(c, dworker.out)]
      /\ dworker' = [dworker EXCEPT !.out = {}, !.counts = NoCounts]
      /\ bg' = bg /\ told' = told /\ dclosed' = dclosed
      /\ cut' = cut /\ offers' = offers /\ offered' = offered
      /\ last' = last /\ dworker.at = "deliver" /\ cut
  BY DEF CutOff, OnlyWorker
<1>2. NoCounts \in Counts /\ \A c \in Categories : NoCounts[c] = 0
  BY DEF NoCounts, Counts
<1>3. /\ dworker' \in WorkerType
      /\ dworker'.out = {} /\ dworker'.counts = NoCounts
      /\ dworker'.at = "deliver" /\ dworker'.final = dworker.final
  BY <1>1, <1>2 DEF DeliveryTypes, WorkerType
<1>4. dropped' \in Counts
  <2>1. \A c \in Categories :
          dropped[c] + dworker.counts[c] + Of(c, dworker.out) \in Nat
    BY HeldTerms
  <2>2. QED
    BY <1>1, <2>1 DEF Counts
<1>5. DeliveryTypes'
  BY <1>1, <1>3, <1>4, FS_EmptySet DEF DeliveryTypes
<1>6. Numbered'
  BY <1>1, <1>3 DEF Numbered, Queue, Earlier
<1>7. Accounted'
  <2>1. ASSUME NEW c \in Categories
        PROVE  Held(c)' + dropped'[c] = Held(c) + dropped[c]
    <3>1. /\ bg.counts[c] \in Nat /\ dworker.counts[c] \in Nat
          /\ Of(c, bg.warnings) \in Nat /\ Of(c, dworker.out) \in Nat
          /\ dropped[c] \in Nat
          /\ Held(c) = bg.counts[c] + Of(c, bg.warnings)
                         + dworker.counts[c] + Of(c, dworker.out)
      BY HeldTerms
    <3>2. Held(c)' = bg.counts[c] + Of(c, bg.warnings) + 0 + 0
      BY <1>1, <1>2, <1>3, OfNothing DEF Held
    <3>3. dropped'[c] = dropped[c] + dworker.counts[c] + Of(c, dworker.out)
      BY <1>1
    <3>4. QED
      BY <3>1, <3>2, <3>3
  <2>2. ASSUME NEW c \in Categories
        PROVE  offered'[c] = told'[c] + Held(c)' + dropped'[c]
    <3>1. /\ offered[c] = told[c] + Held(c) + dropped[c]
          /\ told[c] \in Nat /\ dropped[c] \in Nat
          /\ Held(c) \in Nat
      BY HeldTerms DEF Accounted
    <3>2. Held(c)' \in Nat /\ dropped'[c] \in Nat
      <4>1. Held(c)' = bg.counts[c] + Of(c, bg.warnings) + 0 + 0
        BY <1>1, <1>2, <1>3, OfNothing DEF Held
      <4>2. QED
        BY <1>4, <4>1, HeldTerms DEF Counts
    <3>3. QED
      BY <1>1, <2>1, <3>1, <3>2
  <2>3. QED
    BY <1>1, <2>2 DEF Accounted
<1>8. ClosedInOrder' /\ ClosedFirst'
  BY <1>1, <1>3 DEF ClosedInOrder, ClosedFirst, Queue
<1>9. QED
  BY <1>5, <1>6, <1>7, <1>8

\* The close: the queues first, then the worker, then the time that cuts it.
LEMMA ClosingKeepsInv ==
    ASSUME DeliveryInv, CloseDelivery \/ TellWorker \/ CutPasses,
           CutPasses => main' = main
    PROVE  DeliveryInv'
<1> USE DEF DeliveryInv
<1>1. CASE CloseDelivery
  <2>1. /\ bg' = [bg EXCEPT !.closed = TRUE] /\ OnlyOffers
        /\ offers' = offers /\ offered' = offered
    BY <1>1 DEF CloseDelivery, CloseQueues
  <2>2. /\ QueueFields \subseteq DOMAIN bg'
        /\ bg'.warnings = bg.warnings /\ bg'.transitions = bg.transitions
        /\ bg'.counts = bg.counts /\ bg'.next = bg.next
        /\ bg'.closed = TRUE
    BY <2>1 DEF DeliveryTypes, QueueFields
  <2>3. ClosedFirst'
    BY <2>2 DEF ClosedFirst
  <2>4. QED
    BY <2>1, <2>2, <2>3, QuietOfferKeepsInv
<1>2. CASE TellWorker \/ CutPasses
  <2>1. /\ bg' = bg /\ dworker' = dworker /\ offers' = offers
        /\ offered' = offered /\ told' = told /\ last' = last
        /\ dropped' = dropped
        /\ dclosed' \in BOOLEAN /\ cut' \in BOOLEAN
        /\ \/ dclosed' = TRUE /\ cut' = cut
           \/ dclosed' = dclosed /\ cut' = TRUE
    BY <1>2 DEF TellWorker, CloseWorker, CutPasses, DeliveryTypes
  <2>2. dclosed' => bg.closed
    BY <1>2 DEF TellWorker, CloseWorker, CutPasses, ClosedInOrder,
       ClosedFirst, At
  <2>3. ClosedFirst'
    BY <1>2, <2>1 DEF TellWorker, ClosedFirst, At
  <2>4. DeliveryTypes' /\ Numbered'
    BY <2>1 DEF DeliveryTypes, Numbered, Queue, Earlier
  <2>5. Accounted'
    BY <2>1 DEF Accounted, Held
  <2>6. ClosedInOrder'
    BY <2>1, <2>2 DEF ClosedInOrder, CarriesNothing, Queue
  <2>7. QED
    BY <2>3, <2>4, <2>5, <2>6
<1>3. QED
  BY <1>1, <1>2

\* What leaves the delivery alone.
LEMMA OthersKeepDelivery ==
    ASSUME DeliveryInv, UNCHANGED deliveryVars, ClosedFirst'
    PROVE  DeliveryInv'
<1>1. /\ bg' = bg /\ dworker' = dworker /\ dclosed' = dclosed /\ cut' = cut
      /\ offers' = offers /\ offered' = offered /\ told' = told
      /\ last' = last /\ dropped' = dropped
  BY DEF deliveryVars
<1>2. DeliveryTypes' /\ Numbered'
  BY <1>1 DEF DeliveryInv, DeliveryTypes, Numbered, Queue, Earlier
<1>3. Accounted' /\ ClosedInOrder'
  BY <1>1 DEF DeliveryInv, Accounted, Held, ClosedInOrder, CarriesNothing,
     Queue
<1>4. QED
  BY <1>2, <1>3 DEF DeliveryInv

LEMMA DeliveryStarts == Init => DeliveryInv
<1> SUFFICES ASSUME Init PROVE DeliveryInv
  OBVIOUS
<1>1. PICK information \in BOOLEAN :
        bg = [warnings |-> {}, transitions |-> {}, counts |-> NoCounts,
              omitted |-> 0, progress |-> <<>>, next |-> 0,
              closed |-> FALSE, information |-> information]
  BY DEF Init, DeliveryInit
<1>2. /\ dworker = [at |-> "top", final |-> FALSE, out |-> {},
                    counts |-> NoCounts]
      /\ dclosed = FALSE /\ cut = FALSE /\ offers = 0 /\ last = 0
      /\ offered = NoCounts /\ told = NoCounts /\ dropped = NoCounts
      /\ main.at = "hook"
  BY DEF Init, DeliveryInit
<1>3. NoCounts \in Counts /\ \A c \in Categories : NoCounts[c] = 0
  BY DEF NoCounts, Counts
<1>4. DeliveryTypes
  <2>1. QueueFields \subseteq DOMAIN bg
    BY <1>1 DEF QueueFields
  <2>2. dworker \in WorkerType
    BY <1>2, <1>3 DEF WorkerType, DeliveryPlaces
  <2>3. QED
    BY <1>1, <1>2, <1>3, <2>1, <2>2, FS_EmptySet DEF DeliveryTypes
<1>5. Queue = {}
  BY <1>1 DEF Queue
<1>6. Numbered
  BY <1>2, <1>5 DEF Numbered
<1>7. Accounted
  <2>1. ASSUME NEW c \in Categories
        PROVE  Held(c) = 0
    BY <1>1, <1>2, <1>3, OfNothing DEF Held
  <2>2. QED
    BY <1>2, <1>3, <2>1 DEF Accounted
<1>8. ClosedInOrder /\ ClosedFirst
  BY <1>1, <1>2 DEF ClosedInOrder, ClosedFirst, CarriesNothing
<1>9. QED
  BY <1>4, <1>6, <1>7, <1>8 DEF DeliveryInv

\* No step of the main thread but its last ones comes to the close.
LEMMA OnlyTheEndCloses ==
    ASSUME DeliveryInv, main \in MainType,
           \/ HookStep \/ StartStep \/ EndRun
           \/ RequestStop \/ RequestSignals \/ Stop \/ Terminate \/ Escalate
           \/ Terminated \/ AuxForces \/ AuxStopped \/ EndActiveHook
           \/ ForceActiveHook \/ ActiveHookEnded \/ Closed
    PROVE  UNCHANGED deliveryVars /\ ClosedFirst'
<1> USE DEF At, Go
<1>1. UNCHANGED deliveryVars
  <2>1. CASE HookStep
    BY <2>1 DEF HookStep, RunHook, HookResult, CancelHook, HookEscalates,
       HookEnded, StillElse
  <2>2. CASE StartStep \/ EndRun
    BY <2>2 DEF StartStep, StartSsh, PollCancelled, LookAtSlot, SignalSlot,
       Joined, Abandon, Abandoned, StartComfyui, EndRun, StillElse
  <2>3. CASE \/ RequestStop \/ RequestSignals \/ Stop \/ Terminate \/ Escalate
             \/ Terminated \/ AuxForces \/ AuxStopped
    BY <2>3 DEF RequestStop, RequestSignals, Stop, Terminate, Escalate,
       Terminated, AuxForces, AuxStopped, StillElse
  <2>4. CASE EndActiveHook \/ ForceActiveHook \/ ActiveHookEnded \/ Closed
    BY <2>4 DEF EndActiveHook, ForceActiveHook, ActiveHookEnded, Closed,
       StillElse
  <2>5. QED
    BY <2>1, <2>2, <2>3, <2>4
<1>2. \A way : way \in {"parallel", "serial", "exit", "gone"} /\ Leave(way) =>
                 main'.at \in {"flag", "stop"}
  BY MainMoves
<1>3. LeaveCancelled => main'.at \in {"flag", "stop"}
  BY CancelledLeaves
<1>4. \A at : main' = [main EXCEPT !.at = at] => main'.at = at
  BY DEF MainType
<1>5. \A at, x : main' = [main EXCEPT !.at = at, !.forced = x] =>
                    main'.at = at
  BY DEF MainType
<1>6. main'.at \in {"closing", "closed", "done"} =>
        Closed
  <2>1. CASE HookStep
    <3>1. CASE RunHook
      BY <3>1, <1>2, <1>3, <1>4 DEF RunHook, HooksDone
    <3>2. CASE HookResult \/ HookEnded
      BY <3>2, <1>2, <1>3, <1>4 DEF HookResult, HookEnded
    <3>3. CASE CancelHook \/ HookEscalates
      <4>1. ASSUME NEW sig, GroupSignal(sig)
            PROVE  main'.at \in {"hookstop", "flag", "stop"}
        BY <4>1, <1>3 DEF GroupSignal, MainType
      <4>2. QED
        BY <3>3, <4>1 DEF CancelHook, HookEscalates
    <3>4. QED
      BY <2>1, <3>1, <3>2, <3>3 DEF HookStep
  <2>2. CASE StartStep
    <3>1. CASE StartSsh \/ Abandon \/ Abandoned
      BY <3>1, <1>3, <1>4 DEF StartSsh, Abandon, Abandoned
    <3>2. CASE PollCancelled
      BY <3>2, <1>5 DEF PollCancelled
    <3>3. CASE LookAtSlot
      BY <3>3 DEF LookAtSlot, MainType
    <3>4. CASE SignalSlot
      BY <3>4 DEF SignalSlot, MainType
    <3>5. CASE Joined
      BY <3>5, <1>2, <1>3, <1>4 DEF Joined
    <3>6. CASE StartComfyui
      <4>1. main' = [main EXCEPT !.at = "hook", !.phase = "post"] =>
              main'.at = "hook"
        BY DEF MainType
      <4>2. QED
        BY <3>6, <4>1, <1>2, <1>3 DEF StartComfyui
    <3>7. QED
      BY <2>2, <3>1, <3>2, <3>3, <3>4, <3>5, <3>6 DEF StartStep
  <2>3. CASE EndRun
    BY <2>3, <1>2, <1>3 DEF EndRun
  <2>4. CASE RequestStop \/ RequestSignals \/ Stop \/ Terminated
    BY <2>4, <1>4 DEF RequestStop, RequestSignals, Stop, Terminated, AfterStop
  <2>5. CASE Terminate \/ EndActiveHook
    BY <2>5, <1>5 DEF Terminate, EndActiveHook
  <2>6. CASE Escalate \/ AuxForces \/ ForceActiveHook
    BY <2>6, MainMoves DEF Escalate, AuxForces, ForceActiveHook
  <2>7. CASE AuxStopped \/ ActiveHookEnded
    BY <2>7, <1>4 DEF AuxStopped, ActiveHookEnded
  <2>8. QED
    BY <2>1, <2>2, <2>3, <2>4, <2>5, <2>6, <2>7
<1>7. ClosedFirst'
  <2>1. bg' = bg
    BY <1>1 DEF deliveryVars
  <2>2. QED
    BY <1>6, <2>1 DEF Closed, DeliveryInv, ClosedFirst
<1>8. QED
  BY <1>1, <1>7

LEMMA StepKeepsDelivery ==
    SupervisionInv /\ DeliveryInv /\ [Next]_vars => DeliveryInv'
<1> SUFFICES ASSUME SupervisionInv, DeliveryInv, [Next]_vars
             PROVE  DeliveryInv'
  OBVIOUS
<1>1. main \in MainType
  BY DEF SupervisionInv, OwnTypes
<1>2. UNCHANGED deliveryVars /\ main' = main => DeliveryInv'
  <2>1. UNCHANGED deliveryVars /\ main' = main => ClosedFirst'
    BY DEF deliveryVars, DeliveryInv, ClosedFirst
  <2>2. QED
    BY <2>1, OthersKeepDelivery
<1>3. CASE CloseDelivery \/ TellWorker
  <2>1. CutPasses => FALSE
    BY <1>3 DEF CutPasses, CloseDelivery, TellWorker, CloseQueues,
       CloseWorker, OnlyOffers
  <2>2. QED
    BY <1>3, <2>1, ClosingKeepsInv
<1>4. CASE (MainStep \/ EndRun) /\ ~(CloseDelivery \/ TellWorker)
  <2>1. UNCHANGED deliveryVars /\ ClosedFirst'
    BY <1>1, <1>4, OnlyTheEndCloses DEF MainStep, StopStep
  <2>2. QED
    BY <2>1, OthersKeepDelivery
<1>5. CASE Starter \/ Cancelled \/ Repeated \/ DeadlinePasses
           \/ (\E p \in Procs : ProcEnds(p)) \/ UNCHANGED vars
  BY <1>2, <1>5 DEF Starter, Cancelled, Repeated, DeadlinePasses, ProcEnds,
     Background, mainVars, vars
<1>6. CASE Monitor
  <2>1. main' = main
    BY <1>6 DEF Monitor, Background, mainVars
  <2>2. CASE MonitorWarns
    BY <2>1, <2>2, CategoriesAreNamed, WarnKeepsInv DEF MonitorWarns
  <2>3. CASE ~MonitorWarns
    BY <1>2, <1>6, <2>1, <2>3 DEF Monitor, Background, MonitorStep,
       MonitorReaps, MonitorCleans, MonitorJudges, MonitorEnds
  <2>4. QED
    BY <2>2, <2>3
<1>7. CASE Worker
  <2>1. main' = main /\ WorkerStep
    BY <1>7 DEF Worker, Background, mainVars
  <2>2. CASE Look \/ Finish \/ Wake
    BY <2>1, <2>2, WorkerMovesKeepInv
  <2>3. CASE Drain
    BY <2>1, <2>3, DrainKeepsInv
  <2>4. CASE DeliverEvent
    BY <2>1, <2>4, DeliverEventKeepsInv
  <2>5. CASE DeliverCount
    BY <2>1, <2>5, DeliverCountKeepsInv
  <2>6. CASE CutOff
    BY <2>1, <2>6, CutOffKeepsInv
  <2>7. QED
    BY <2>1, <2>2, <2>3, <2>4, <2>5, <2>6 DEF WorkerStep
<1>8. CASE Producers
  <2>1. /\ main' = main
        /\ \/ Warn("download") \/ Announce
           \/ \E s \in Scopes : Progress(s) \/ CloseProgress(s)
    BY <1>8 DEF Producers, mainVars
  <2>2. CASE Warn("download")
    BY <2>1, <2>2, CategoriesAreNamed, WarnKeepsInv
  <2>3. CASE Announce
    BY <2>1, <2>3, AnnounceKeepsInv
  <2>4. CASE \E s \in Scopes : Progress(s) \/ CloseProgress(s)
    BY <2>1, <2>4, ProgressKeepsInv
  <2>5. QED
    BY <2>1, <2>2, <2>3, <2>4
<1>9. CASE DeliveryDeadline
  <2>1. CutPasses /\ main' = main
    BY <1>9 DEF DeliveryDeadline, mainVars
  <2>2. QED
    BY <2>1, ClosingKeepsInv
<1>10. QED
  BY <1>3, <1>4, <1>5, <1>6, <1>7, <1>8, <1>9 DEF Next

\* Queues of any size, any number of categories, offers and rounds: a warning
\* that was accepted is in the queues, with the worker, handed over, counted,
\* or was kept back by a cut, and events arrive in the order of their offers
\* (event_delivery.py emit, _drain_once, close).
THEOREM EveryWarningIsAccounted == Spec => []WarningsAccounted
<1>1. Init => SupervisionInv /\ DeliveryInv
  BY InitHolds, DeliveryStarts
<1>2. SupervisionInv /\ DeliveryInv /\ [Next]_vars
        => SupervisionInv' /\ DeliveryInv'
  BY StepKeepsInv, StepKeepsDelivery
<1>3. DeliveryInv => WarningsAccounted
  <2> SUFFICES ASSUME DeliveryInv PROVE WarningsAccounted
    OBVIOUS
  <2>1. ASSUME dworker.at = "exit", ~cut
        PROVE  told = offered
    <3>1. /\ dropped = NoCounts /\ CarriesNothing
          /\ bg.counts = NoCounts /\ bg.warnings = {}
      BY <2>1 DEF DeliveryInv, Accounted, ClosedInOrder, Queue
    <3>2. ASSUME NEW c \in Categories
          PROVE  told[c] = offered[c]
      <4>1. NoCounts[c] = 0
        BY DEF NoCounts
      <4>2. Held(c) = 0
        BY <3>1, <4>1, OfNothing DEF Held, CarriesNothing
      <4>3. /\ offered[c] = told[c] + Held(c) + dropped[c]
            /\ told[c] \in Nat /\ dropped[c] = 0
        BY <3>1, <4>1, HeldTerms DEF DeliveryInv, Accounted
      <4>4. QED
        BY <4>2, <4>3
    <3>3. told \in Counts /\ offered \in Counts
      BY DEF DeliveryInv, DeliveryTypes
    <3>4. QED
      BY <3>2, <3>3 DEF Counts
  <2>2. QED
    BY <2>1 DEF DeliveryInv, Accounted, Numbered, WarningsAccounted
<1>4. QED
  BY <1>1, <1>2, <1>3, PTL DEF Spec

-----------------------------------------------------------------------------
(* The limits of the delivery.                                             *)

Slots == [scope : Scopes, due : BOOLEAN]

\* No queue is longer than it may be, whatever is offered.
QueueLimits ==
    /\ {"progress", "information"} \subseteq DOMAIN bg
    /\ bg.information \in BOOLEAN
    /\ Cardinality(bg.warnings) <= WarningCapacity
    /\ Cardinality(bg.transitions) <= TransitionCapacity
    /\ bg.progress \in Seq(Slots) /\ Len(bg.progress) <= ProgressCapacity

SignalTypes ==
    awake \in BOOLEAN /\ cancel \in BOOLEAN /\ force \in BOOLEAN
      /\ late \in BOOLEAN

\* The slots without the one of a transfer are one less, if it has one.
LEMMA WithoutScopeIsShorter ==
    ASSUME bg.progress \in Seq(Slots), NEW s
    PROVE  /\ WithoutScope(s) \in Seq(Slots)
           /\ Len(WithoutScope(s)) \in Nat
           /\ Len(WithoutScope(s)) <= Len(bg.progress)
           /\ PlacesOf(s) # {} =>
                Len(WithoutScope(s)) = Len(bg.progress) - 1
<1> DEFINE p == bg.progress
<1>1. Len(p) \in Nat /\ DOMAIN p = 1..Len(p)
  BY LenProperties
<1>2. CASE PlacesOf(s) = {}
  BY <1>1, <1>2 DEF WithoutScope
<1>3. CASE PlacesOf(s) # {}
  <2> DEFINE i == CHOOSE i \in PlacesOf(s) : TRUE
  <2>1. i \in PlacesOf(s)
    BY <1>3
  <2>2. i \in 1..Len(p)
    BY <1>1, <2>1 DEF PlacesOf
  <2>3. WithoutScope(s) = SubSeq(p, 1, i - 1) \o SubSeq(p, i + 1, Len(p))
    BY <1>3 DEF WithoutScope
  <2> HIDE DEF i
  <2>4. \A j \in 1..Len(p) : p[j] \in Slots
    BY ElementOfSeq
  <2>5. /\ SubSeq(p, 1, i - 1) \in Seq(Slots)
        /\ Len(SubSeq(p, 1, i - 1)) = i - 1
    <3>1. 1 \in Int /\ i - 1 \in Int /\ \A j \in 1..(i - 1) : p[j] \in Slots
      BY <1>1, <2>2, <2>4
    <3>2. /\ SubSeq(p, 1, i - 1) \in Seq(Slots)
          /\ Len(SubSeq(p, 1, i - 1))
               = IF 1 <= i - 1 THEN (i - 1) - 1 + 1 ELSE 0
      BY <3>1, SubSeqProperties
    <3>3. QED
      BY <2>2, <3>2
  <2>6. /\ SubSeq(p, i + 1, Len(p)) \in Seq(Slots)
        /\ Len(SubSeq(p, i + 1, Len(p))) = Len(p) - i
    <3>1. /\ i + 1 \in Int /\ Len(p) \in Int
          /\ \A j \in (i + 1)..Len(p) : p[j] \in Slots
      BY <1>1, <2>2, <2>4
    <3>2. /\ SubSeq(p, i + 1, Len(p)) \in Seq(Slots)
          /\ Len(SubSeq(p, i + 1, Len(p)))
               = IF i + 1 <= Len(p) THEN Len(p) - (i + 1) + 1 ELSE 0
      BY <3>1, SubSeqProperties
    <3>3. QED
      BY <1>1, <2>2, <3>2
  <2>7. /\ WithoutScope(s) \in Seq(Slots)
        /\ Len(WithoutScope(s)) = (i - 1) + (Len(p) - i)
    BY <2>3, <2>5, <2>6, ConcatProperties
  <2>8. QED
    BY <1>1, <1>3, <2>2, <2>7
<1>4. QED
  BY <1>2, <1>3

\* A new event makes a queue longer by one, where there is room.
LEMMA QueuedKeepsLimit ==
    ASSUME NEW queue, IsFiniteSet(queue), NEW e, NEW capacity \in Nat,
           RoomFor(queue, capacity)
    PROVE  Cardinality(queue \cup {e}) <= capacity
<1>1. Cardinality(queue) \in Nat /\ Cardinality(queue) < capacity
  BY FS_CardinalityType DEF RoomFor
<1>2. \/ Cardinality(queue \cup {e}) = Cardinality(queue)
      \/ Cardinality(queue \cup {e}) = Cardinality(queue) + 1
  BY FS_AddElement
<1>3. QED
  BY <1>1, <1>2

LEMMA WarnKeepsLimits ==
    ASSUME DeliveryTypes, QueueLimits, NEW c \in Categories, Warn(c)
    PROVE  QueueLimits' /\ awake' \in {awake, TRUE}
<1>1. CASE bg.closed
  BY <1>1 DEF Warn, QueueLimits
<1>2. CASE ~bg.closed /\ RoomFor(bg.warnings, WarningCapacity)
  <2> DEFINE e == Queued(offers + 1, c)
  <2> HIDE DEF e
  <2>1. /\ bg' = [bg EXCEPT !.warnings = @ \cup {e}, !.next = @ + 1]
        /\ awake' = TRUE
    BY <1>2 DEF Warn, Warned, e
  <2>2. /\ DOMAIN bg' = DOMAIN bg
        /\ bg'.warnings = bg.warnings \cup {e}
        /\ bg'.transitions = bg.transitions
        /\ bg'.progress = bg.progress /\ bg'.information = bg.information
    BY <2>1 DEF DeliveryTypes, QueueFields, QueueLimits
  <2>3. Cardinality(bg.warnings \cup {e}) <= WarningCapacity
    BY <1>2, QueuedKeepsLimit, CapacitiesPositive DEF DeliveryTypes
  <2>4. QED
    BY <2>1, <2>2, <2>3 DEF QueueLimits
<1>3. CASE ~bg.closed /\ ~RoomFor(bg.warnings, WarningCapacity)
  <2>1. /\ bg' = [bg EXCEPT !.counts[c] = @ + 1]
        /\ awake' = TRUE
    BY <1>3 DEF Warn, Warned
  <2>2. /\ DOMAIN bg' = DOMAIN bg /\ bg'.warnings = bg.warnings
        /\ bg'.transitions = bg.transitions
        /\ bg'.progress = bg.progress /\ bg'.information = bg.information
    BY <2>1 DEF DeliveryTypes, QueueFields, QueueLimits
  <2>3. QED
    BY <2>1, <2>2 DEF QueueLimits
<1>4. QED
  BY <1>1, <1>2, <1>3

LEMMA AnnounceKeepsLimits ==
    ASSUME DeliveryTypes, QueueLimits, Announce
    PROVE  QueueLimits' /\ awake' \in {awake, TRUE}
<1>1. CASE bg.closed \/ ~bg.information
  BY <1>1 DEF Announce, QueueLimits
<1>2. CASE /\ ~bg.closed /\ bg.information
           /\ RoomFor(bg.transitions, TransitionCapacity)
  <2> DEFINE e == Queued(offers + 1, "none")
  <2> HIDE DEF e
  <2>1. /\ bg' = [bg EXCEPT !.next = @ + 1, !.transitions = @ \cup {e}]
        /\ awake' = TRUE
    BY <1>2 DEF Announce, e
  <2>2. /\ DOMAIN bg' = DOMAIN bg /\ bg'.warnings = bg.warnings
        /\ bg'.transitions = bg.transitions \cup {e}
        /\ bg'.progress = bg.progress /\ bg'.information = bg.information
    BY <2>1 DEF DeliveryTypes, QueueFields, QueueLimits
  <2>3. Cardinality(bg.transitions \cup {e}) <= TransitionCapacity
    BY <1>2, QueuedKeepsLimit, CapacitiesPositive DEF DeliveryTypes
  <2>4. QED
    BY <2>1, <2>2, <2>3 DEF QueueLimits
<1>3. CASE /\ ~bg.closed /\ bg.information
           /\ ~RoomFor(bg.transitions, TransitionCapacity)
  <2>1. bg' = [bg EXCEPT !.omitted = @ + 1] /\ awake' = TRUE
    BY <1>3 DEF Announce
  <2>2. /\ DOMAIN bg' = DOMAIN bg /\ bg'.warnings = bg.warnings
        /\ bg'.transitions = bg.transitions
        /\ bg'.progress = bg.progress /\ bg'.information = bg.information
    BY <2>1 DEF DeliveryTypes, QueueFields, QueueLimits
  <2>3. QED
    BY <2>1, <2>2 DEF QueueLimits
<1>4. QED
  BY <1>1, <1>2, <1>3

LEMMA ProgressKeepsLimits ==
    ASSUME DeliveryTypes, QueueLimits, NEW s \in Scopes,
           Progress(s) \/ CloseProgress(s)
    PROVE  QueueLimits' /\ awake' \in {awake, TRUE}
<1>1. /\ bg.progress \in Seq(Slots) /\ Len(bg.progress) <= ProgressCapacity
      /\ Len(bg.progress) \in Nat /\ ProgressCapacity \in Nat
      /\ ProgressCapacity > 0
  BY CapacitiesPositive, LenProperties DEF QueueLimits
<1>2. /\ WithoutScope(s) \in Seq(Slots) /\ Len(WithoutScope(s)) \in Nat
      /\ Len(WithoutScope(s)) <= Len(bg.progress)
      /\ PlacesOf(s) # {} => Len(WithoutScope(s)) = Len(bg.progress) - 1
  BY <1>1, WithoutScopeIsShorter
<1>3. CASE CloseProgress(s)
  <2> DEFINE p == WithoutScope(s)
  <2>1. bg' = [bg EXCEPT !.progress = p] /\ awake' = TRUE
    BY <1>3 DEF CloseProgress
  <2>2. p \in Seq(Slots) /\ Len(p) <= ProgressCapacity
    BY <1>1, <1>2
  <2> HIDE DEF p
  <2>3. /\ DOMAIN bg' = DOMAIN bg /\ bg'.warnings = bg.warnings
        /\ bg'.transitions = bg.transitions
        /\ bg'.progress = p /\ bg'.information = bg.information
    BY <2>1 DEF DeliveryTypes, QueueFields, QueueLimits
  <2>4. QED
    BY <2>1, <2>2, <2>3 DEF QueueLimits
<1>4. CASE Progress(s) /\ (bg.closed \/ ~bg.information)
  BY <1>4 DEF Progress, QueueLimits
<1>5. CASE Progress(s) /\ ~(bg.closed \/ ~bg.information)
  <2> DEFINE held == \E i \in PlacesOf(s) : bg.progress[i].due
             full == /\ PlacesOf(s) = {}
                     /\ Len(bg.progress) >= ProgressCapacity
             rest == IF full THEN Tail(bg.progress) ELSE WithoutScope(s)
  <2>1. /\ awake' = TRUE
        /\ \E due \in BOOLEAN :
             bg' = [bg EXCEPT
                  !.omitted = IF full THEN @ + 1 ELSE @,
                  !.progress = Append(rest, [scope |-> s,
                                             due |-> due \/ held])]
    BY <1>5, Zenon DEF Progress
  <2>2. PICK due \in BOOLEAN :
             bg' = [bg EXCEPT
                  !.omitted = IF full THEN @ + 1 ELSE @,
                  !.progress = Append(rest, [scope |-> s,
                                             due |-> due \/ held])]
    BY <2>1, Zenon
  <2>3. /\ rest \in Seq(Slots) /\ Len(rest) \in Nat
        /\ Len(rest) + 1 <= ProgressCapacity
    <3>1. CASE full
      <4>1. bg.progress # <<>>
        BY <1>1, <3>1, EmptySeq
      <4>2. /\ Tail(bg.progress) \in Seq(Slots)
            /\ Len(Tail(bg.progress)) = Len(bg.progress) - 1
        BY <1>1, <4>1, HeadTailProperties
      <4>3. QED
        BY <1>1, <3>1, <4>1, <4>2, LenProperties
    <3>2. CASE ~full
      BY <1>1, <1>2, <3>2
    <3>3. QED
      BY <3>1, <3>2
  <2> DEFINE newest == [scope |-> s, due |-> due \/ held]
             n == IF full THEN bg.omitted + 1 ELSE bg.omitted
  <2>4. newest \in Slots
    <3>1. (due \/ held) \in BOOLEAN
      OBVIOUS
    <3>2. QED
      BY <3>1 DEF Slots
  <2>5. bg' = [bg EXCEPT !.omitted = n, !.progress = Append(rest, newest)]
    BY <2>2, Zenon
  <2> HIDE DEF rest, newest, n
  <2>6. /\ Append(rest, newest) \in Seq(Slots)
        /\ Len(Append(rest, newest)) = Len(rest) + 1
    BY <2>3, <2>4, AppendProperties
  <2>7. /\ DOMAIN bg' = DOMAIN bg /\ bg'.warnings = bg.warnings
        /\ bg'.transitions = bg.transitions
        /\ bg'.progress = Append(rest, newest)
        /\ bg'.information = bg.information
    BY <2>5 DEF DeliveryTypes, QueueFields, QueueLimits
  <2>8. QED
    BY <2>1, <2>3, <2>6, <2>7 DEF QueueLimits
<1>6. QED
  BY <1>3, <1>4, <1>5

LEMMA DrainKeepsLimits ==
    ASSUME DeliveryTypes, QueueLimits, Drain
    PROVE  QueueLimits' /\ awake' = awake
<1> DEFINE p == IF dworker.final \/ bg.closed THEN <<>>
                ELSE [i \in DOMAIN bg.progress |->
                        [bg.progress[i] EXCEPT !.due = FALSE]]
<1>1. /\ bg' = [bg EXCEPT !.warnings = {}, !.transitions = {},
                          !.counts = NoCounts, !.omitted = 0, !.next = 0,
                          !.progress = p]
      /\ awake' = awake
  BY Zenon DEF Drain, Drained
<1>2. p \in Seq(Slots) /\ Len(p) <= ProgressCapacity
  <2>1. CASE dworker.final \/ bg.closed
    BY <2>1, EmptySeq, CapacitiesPositive
  <2>2. CASE ~(dworker.final \/ bg.closed)
    <3>1. /\ bg.progress \in Seq(Slots) /\ Len(bg.progress) \in Nat
          /\ DOMAIN bg.progress = 1..Len(bg.progress)
          /\ Len(bg.progress) <= ProgressCapacity
      BY LenProperties DEF QueueLimits
    <3>2. \A i \in 1..Len(bg.progress) : bg.progress[i] \in Slots
      BY <3>1, ElementOfSeq
    <3>3. \A e \in Slots : [e EXCEPT !.due = FALSE] \in Slots
      BY DEF Slots
    <3>4. p = [i \in 1..Len(bg.progress) |->
                 [bg.progress[i] EXCEPT !.due = FALSE]]
      BY <2>2, <3>1
    <3> HIDE DEF p
    <3>5. p \in Seq(Slots) /\ Len(p) = Len(bg.progress)
      BY <3>1, <3>2, <3>3, <3>4, IsASeq, LenProperties
    <3>6. QED
      BY <3>1, <3>5
  <2>3. QED
    BY <2>1, <2>2
<1> HIDE DEF p
<1>3. /\ DOMAIN bg' = DOMAIN bg /\ bg'.warnings = {}
      /\ bg'.transitions = {} /\ bg'.progress = p
      /\ bg'.information = bg.information
  BY <1>1 DEF DeliveryTypes, QueueFields, QueueLimits
<1>4. Cardinality({}) = 0
  BY FS_EmptySet
<1>5. QED
  BY <1>1, <1>2, <1>3, <1>4, CapacitiesPositive DEF QueueLimits

\* The close of the queues, and what leaves them alone.
LEMMA OthersKeepLimits ==
    ASSUME DeliveryTypes, QueueLimits,
           bg' = bg \/ bg' = [bg EXCEPT !.closed = TRUE]
    PROVE  QueueLimits'
<1>1. /\ DOMAIN bg' = DOMAIN bg /\ bg'.warnings = bg.warnings
      /\ bg'.transitions = bg.transitions /\ bg'.progress = bg.progress
      /\ bg'.information = bg.information
  BY DEF DeliveryTypes, QueueFields, QueueLimits
<1>2. QED
  BY <1>1 DEF QueueLimits

LEMMA LimitsStart == Init => QueueLimits /\ SignalTypes
<1> SUFFICES ASSUME Init PROVE QueueLimits /\ SignalTypes
  OBVIOUS
<1>1. PICK information \in BOOLEAN :
        bg = [warnings |-> {}, transitions |-> {}, counts |-> NoCounts,
              omitted |-> 0, progress |-> <<>>, next |-> 0,
              closed |-> FALSE, information |-> information]
  BY DEF Init, DeliveryInit
<1>2. Cardinality({}) = 0 /\ <<>> \in Seq(Slots) /\ Len(<<>>) = 0
  BY FS_EmptySet, EmptySeq
<1>3. QueueLimits
  BY <1>1, <1>2, CapacitiesPositive DEF QueueLimits
<1>4. SignalTypes
  BY DEF Init, DeliveryInit, SignalTypes
<1>5. QED
  BY <1>3, <1>4

LEMMA StepKeepsLimits ==
    SupervisionInv /\ DeliveryInv /\ QueueLimits /\ SignalTypes /\ [Next]_vars
      => QueueLimits' /\ SignalTypes'
<1> SUFFICES ASSUME SupervisionInv, DeliveryInv, QueueLimits, SignalTypes,
                    [Next]_vars
             PROVE  QueueLimits' /\ SignalTypes'
  OBVIOUS
<1>1. DeliveryTypes /\ main \in MainType
  BY DEF DeliveryInv, SupervisionInv, OwnTypes
<1>2. ASSUME QueueLimits', awake' \in {awake, TRUE, FALSE},
             UNCHANGED <<cancel, force, late>>
      PROVE  QueueLimits' /\ SignalTypes'
  BY <1>2 DEF SignalTypes
<1>3. CASE CloseDelivery \/ TellWorker
  <2>1. /\ bg' = bg \/ bg' = [bg EXCEPT !.closed = TRUE]
        /\ UNCHANGED <<awake, cancel, force, late>>
    BY <1>3 DEF CloseDelivery, CloseQueues, TellWorker, CloseWorker, envVars
  <2>2. QED
    BY <1>1, <1>2, <2>1, OthersKeepLimits
<1>4. CASE (MainStep \/ EndRun) /\ ~(CloseDelivery \/ TellWorker)
  <2>1. UNCHANGED deliveryVars
    BY <1>1, <1>4, OnlyTheEndCloses DEF MainStep, StopStep
  <2>2. UNCHANGED <<cancel, force, late>>
    <3>1. CASE HookStep
      BY <3>1 DEF HookStep, RunHook, HookResult, CancelHook, HookEscalates,
         HookEnded, StillElse, envVars
    <3>2. CASE StartStep \/ EndRun
      BY <3>2 DEF StartStep, StartSsh, PollCancelled, LookAtSlot, SignalSlot,
         Joined, Abandon, Abandoned, StartComfyui, EndRun, StillElse, envVars
    <3>3. CASE \/ RequestStop \/ RequestSignals \/ Stop \/ Terminate
               \/ Escalate \/ Terminated \/ AuxForces \/ AuxStopped
      BY <3>3 DEF RequestStop, RequestSignals, Stop, Terminate, Escalate,
         Terminated, AuxForces, AuxStopped, StillElse, envVars
    <3>4. CASE EndActiveHook \/ ForceActiveHook \/ ActiveHookEnded \/ Closed
      BY <3>4 DEF EndActiveHook, ForceActiveHook, ActiveHookEnded, Closed,
         StillElse, envVars
    <3>5. QED
      BY <1>4, <3>1, <3>2, <3>3, <3>4 DEF MainStep, StopStep
  <2>3. QED
    BY <1>1, <1>2, <2>1, <2>2, OthersKeepLimits DEF deliveryVars
<1>5. CASE Cancelled \/ Repeated \/ DeadlinePasses
  <2>1. /\ UNCHANGED <<bg, awake>>
        /\ cancel' \in {cancel, TRUE} /\ force' \in {force, TRUE}
        /\ late' \in {late, TRUE}
    BY <1>5 DEF Cancelled, Repeated, DeadlinePasses, deliveryVars
  <2>2. QED
    BY <1>1, <2>1, OthersKeepLimits DEF SignalTypes
<1>6. CASE Monitor
  <2>1. UNCHANGED <<cancel, force, late>>
    BY <1>6 DEF Monitor, Background, envVars
  <2>2. CASE MonitorWarns
    BY <1>1, <1>2, <2>1, <2>2, CategoriesAreNamed, WarnKeepsLimits
       DEF MonitorWarns
  <2>3. CASE ~MonitorWarns
    <3>1. UNCHANGED deliveryVars
      BY <1>6, <2>3 DEF Monitor, Background, MonitorStep, MonitorReaps,
         MonitorCleans, MonitorJudges, MonitorEnds
    <3>2. QED
      BY <1>1, <1>2, <2>1, <3>1, OthersKeepLimits DEF deliveryVars
  <2>4. QED
    BY <2>2, <2>3
<1>7. CASE Worker
  <2>1. UNCHANGED <<cancel, force, late>> /\ WorkerStep
    BY <1>7 DEF Worker, Background, envVars
  <2>2. CASE Drain
    BY <1>1, <1>2, <2>1, <2>2, DrainKeepsLimits
  <2>3. CASE ~Drain
    <3>1. bg' = bg /\ awake' \in {awake, FALSE}
      BY <2>1, <2>3 DEF WorkerStep, Look, DeliverEvent, DeliverCount, CutOff,
         Finish, Wake
    <3>2. QED
      BY <1>1, <1>2, <2>1, <3>1, OthersKeepLimits
  <2>4. QED
    BY <2>2, <2>3
<1>8. CASE Producers
  <2>1. /\ UNCHANGED <<cancel, force, late>>
        /\ \/ Warn("download") \/ Announce
           \/ \E s \in Scopes : Progress(s) \/ CloseProgress(s)
    BY <1>8 DEF Producers
  <2>2. QED
    BY <1>1, <1>2, <2>1, CategoriesAreNamed, WarnKeepsLimits,
       AnnounceKeepsLimits, ProgressKeepsLimits
<1>9. CASE \/ Starter \/ DeliveryDeadline \/ (\E p \in Procs : ProcEnds(p))
           \/ UNCHANGED vars
  <2>1. UNCHANGED <<bg, awake, cancel, force, late>>
    BY <1>9 DEF Starter, DeliveryDeadline, CutPasses, ProcEnds, Background,
       envVars, deliveryVars, vars
  <2>2. QED
    BY <1>1, <1>2, <2>1, OthersKeepLimits
<1>10. QED
  BY <1>3, <1>4, <1>5, <1>6, <1>7, <1>8, <1>9 DEF Next

\* Types, and the limits of the queues: whatever is offered, and however long
\* the worker is busy with the sink, no more warnings, transitions and
\* transfers are kept than their queues have room for (event_delivery.py emit,
\* emit_progress).
THEOREM QueuesAreBounded == Spec => []TypeOK
<1>1. Init => SupervisionInv /\ DeliveryInv /\ QueueLimits /\ SignalTypes
  BY InitHolds, DeliveryStarts, LimitsStart
<1>2. ASSUME SupervisionInv, DeliveryInv, QueueLimits, SignalTypes,
             [Next]_vars
      PROVE  SupervisionInv' /\ DeliveryInv' /\ QueueLimits' /\ SignalTypes'
  BY <1>2, StepKeepsInv, StepKeepsDelivery, StepKeepsLimits
<1>3. SupervisionInv /\ DeliveryInv /\ QueueLimits /\ SignalTypes => TypeOK
  <2> SUFFICES ASSUME SupervisionInv, DeliveryInv, QueueLimits, SignalTypes
               PROVE  TypeOK
    OBVIOUS
  <2>1. OwnTypes /\ DeliveryTypes
    BY DEF SupervisionInv, DeliveryInv
  <2>2. SshTypeOK
    <3>1. DOMAIN Steps = 1..8
      BY DEF Steps
    <3>2. QED
      BY <2>1, <3>1 DEF OwnTypes, StarterType, MonitorType, SshTypeOK
  <2>3. DeliveryTypeOK
    <3>1. /\ Cardinality(bg.warnings) \in Nat
          /\ Cardinality(bg.transitions) \in Nat
      BY <2>1, FS_CardinalityType DEF DeliveryTypes
    <3>2. Len(bg.progress) \in Nat
      BY LenProperties DEF QueueLimits
    <3>3. /\ Cardinality(bg.warnings) \in 0..WarningCapacity
          /\ Cardinality(bg.transitions) \in 0..TransitionCapacity
          /\ Len(bg.progress) \in 0..ProgressCapacity
      BY <3>1, <3>2, CapacitiesPositive DEF QueueLimits
    <3>4. dworker.at \in {"top", "drain", "deliver", "idle", "exit"}
      BY <2>1 DEF DeliveryTypes, WorkerType, DeliveryPlaces
    <3>5. {dclosed, awake, cut, bg.closed, bg.information} \subseteq BOOLEAN
      BY <2>1 DEF DeliveryTypes, QueueLimits, SignalTypes
    <3>6. QED
      BY <3>3, <3>4, <3>5 DEF DeliveryTypeOK
  <2>4. QED
    BY <2>1, <2>2, <2>3 DEF OwnTypes, MainType, SignalTypes, TypeOK
<1>4. QED
  BY <1>1, <1>2, <1>3, PTL DEF Spec

=============================================================================
