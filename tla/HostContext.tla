----------------------------- MODULE HostContext -----------------------------
(***************************************************************************)
(* Host commands that prepare one build context: host/context/service.py   *)
(* (prepare_render_context, _write_context, _check_context), with the      *)
(* admission of local sources (host/context/local_inputs.py,               *)
(* filesystem/admission.py), the private stage (rendering/                 *)
(* final_materializer.py) and the planning of HostPlanning.                *)
(*                                                                         *)
(* Nothing serialises commands: two may prepare the same output while the  *)
(* published versions move and the sources are edited, a rename may fail,  *)
(* the user may interrupt and the process may be killed at any step.       *)
(***************************************************************************)
EXTENDS HostPlanning, FiniteSets, FiniteSetsExt

CONSTANTS
    Runs,             \* the commands that can run at the same time
    Invocations,      \* the invocations the user may start
    InitialOutputs,   \* what the output path holds at first
    MaxStarts,        \* bound: commands started in a behaviour
    MaxMoves,         \* bound: new versions published upstream
    MaxEdits,         \* bound: edits of the local tree
    MaxFaults         \* bound: failed calls, interrupts and kills

ASSUME InvocationsAssumption ==
    Invocations \subseteq [cfg : Configs, policy : Policies,
                           purpose : Purposes, overwrite : BOOLEAN]

VARIABLES
    run,         \* one command: its step and what it holds in memory
    upstream,    \* the version each moving selector names now
    source,      \* the local tree on disk
    output,      \* what is at the output path
    retained,    \* contexts in backup directories nobody will remove
    latest,      \* history: the context published last
    starts, moves, edits, faults

vars == <<run, upstream, source, output, retained, latest,
          starts, moves, edits, faults>>
counters == <<starts, moves, edits, faults>>

MovingKeys == {"uv", "comfyui", "pytorch", "node"}

Nothing == [kind |-> "nothing"]     \* no directory there
Foreign == [kind |-> "foreign"]     \* a directory cdh does not own
Empty == [kind |-> "empty"]         \* a directory with nothing in it

\* A context directory: the plan, the local members copied so far, the lock
\* and the two metadata files that are written last.
Context(plan, files, lock, metadata) ==
    [kind |-> "context", plan |-> plan, files |-> files, lock |-> lock,
     metadata |-> metadata]
AllMetadata == {"lock", "marker"}

\* A context of which every part is there.
IsContext(d) ==
    /\ d.kind = "context"
    /\ d = Context(d.plan, d.files, d.lock, AllMetadata)
    /\ d.plan \in BuildPlans
    /\ IsLock(d.lock)
    /\ DOMAIN d.files \subseteq Members
    /\ \A m \in DOMAIN d.files : d.files[m] \in Contents

Complete(d) == d \in {Nothing, Foreign} \/ IsContext(d)

\* What is at the output at first is whole: a lock that is not is rejected
\* as it is loaded.
ASSUME OutputsAssumption == \A d \in InitialOutputs : Complete(d)

ValidMarker(directory) ==
    directory.kind = "context" /\ "marker" \in directory.metadata

Idle == [pc |-> "idle"]
Begun(invocation) ==
    [pc |-> "uv", invocation |-> invocation,
     existing |-> IF output.kind = "context" THEN output.lock ELSE NoLock,
     uv |-> Unresolved, commit |-> Pinned, cache |-> <<>>,
     tree |-> [m \in Members |-> Absent], lock |-> NoLock,
     stage |-> Nothing, backup |-> Nothing]

Init ==
    /\ run = [r \in Runs |-> Idle]
    /\ upstream = [k \in MovingKeys |-> 1]
    /\ source = [m \in Members |-> Min(Contents)]
    /\ output \in InitialOutputs
    /\ retained = {}
    /\ latest = IF output.kind = "context" THEN output ELSE Nothing
    /\ starts = 0 /\ moves = 0 /\ edits = 0 /\ faults = 0

Cfg(r) == run[r].invocation.cfg
Policy(r) == run[r].invocation.policy
Purpose(r) == run[r].invocation.purpose
At(r, pc) == run[r].pc = pc
RunGraph(r) == Graph(Cfg(r), run[r].uv, run[r].commit)
RunFixed(r) == Fixed(Cfg(r), run[r].tree)
Plan(r) == BuildPlan(Cfg(r), run[r].lock, run[r].tree)

Step(r, command) == run' = [run EXCEPT ![r] = command]
Go(r, pc) == Step(r, [run[r] EXCEPT !.pc = pc])
Disk == <<upstream, source, output, retained, latest>>

CleanupForced(r) ==                                              \* mutant
    /\ UNCHANGED retained
    /\ run' = [run EXCEPT ![r] = Idle]

\* A failure removes the private stage; a backup root is removed only when
\* the previous context is no longer in it.
Cleanup(r) ==
    /\ retained' = IF run[r].backup.kind \in {"nothing", "empty"}
                   THEN retained
                   ELSE retained \cup {run[r].backup}
    /\ run' = [run EXCEPT ![r] = Idle]

Fail(r) == Cleanup(r) /\ UNCHANGED <<upstream, source, output, latest>>

----------------------------------------------------------------------------
(* Planning *)

\* A command begins: the lock of the context at the output is loaded.
Start(r, invocation) ==
    /\ At(r, "idle")
    /\ starts < MaxStarts
    /\ run' = [run EXCEPT ![r] = Begun(invocation)]
    /\ starts' = starts + 1
    /\ UNCHANGED <<Disk, moves, edits, faults>>

AcquiredAnew(r, key, request) ==                                 \* mutant
    Provided(request, IF key \in MovingKeys THEN upstream[key] ELSE Pinned)

\* The caching acquirer: one command asks a provider once per request.
Acquired(r, key, request) ==
    IF <<key, request>> \in DOMAIN run[r].cache
    THEN run[r].cache[<<key, request>>]
    ELSE Provided(request, IF key \in MovingKeys THEN upstream[key]
                           ELSE Pinned)

Remembered(r, key, request) ==
    [k \in DOMAIN run[r].cache \cup {<<key, request>>} |->
        IF k = <<key, request>> THEN Acquired(r, key, request)
        ELSE run[r].cache[k]]

\* The uv image whose catalog the managed interpreter comes from.
ResolveUv(r) ==
    /\ At(r, "uv")
    /\ \/ /\ Kept(run[r].existing, "uv", UvRequest, Policy(r))
          /\ Step(r, [run[r] EXCEPT !.pc = "comfyui",
                             !.uv = run[r].existing["uv"].result])
       \/ /\ ~Kept(run[r].existing, "uv", UvRequest, Policy(r))
          /\ Policy(r) = "locked"
          /\ Step(r, [run[r] EXCEPT !.pc = "comfyui", !.uv = Unresolved])
       \/ /\ ~Kept(run[r].existing, "uv", UvRequest, Policy(r))
          /\ Policy(r) # "locked"
          /\ Step(r, [run[r] EXCEPT !.pc = "comfyui",
                             !.uv = Acquired(r, "uv", UvRequest),
                             !.cache = Remembered(r, "uv", UvRequest)])
    /\ UNCHANGED <<Disk, counters>>

\* The exact ComfyUI source; a locked command has to find it in its lock.
ResolveComfyui(r) ==
    LET request == ComfyuiRequest(Cfg(r)) IN
    /\ At(r, "comfyui")
    /\ \/ /\ Kept(run[r].existing, "comfyui", request, Policy(r))
          /\ Step(r, [run[r] EXCEPT !.pc = "requirements",
                             !.commit = run[r].existing["comfyui"].result])
          /\ UNCHANGED Disk
       \/ /\ ~Kept(run[r].existing, "comfyui", request, Policy(r))
          /\ Policy(r) # "locked"
          /\ Step(r, [run[r] EXCEPT !.pc = "requirements",
                             !.commit = Acquired(r, "comfyui", request),
                             !.cache = Remembered(r, "comfyui", request)])
          /\ UNCHANGED Disk
       \/ /\ ~Kept(run[r].existing, "comfyui", request, Policy(r))
          /\ Policy(r) = "locked"
          /\ Fail(r)
    /\ UNCHANGED counters

\* The requirements of exactly that source.
ResolveRequirements(r) ==
    LET request == RequirementsRequest(run[r].commit)
        kept == Kept(run[r].existing, "requirements", request, Policy(r))
    IN
    /\ At(r, "requirements")
    /\ \/ /\ kept
          /\ Go(r, "admit")
          /\ UNCHANGED Disk
       \/ /\ ~kept /\ Policy(r) # "locked"
          /\ Step(r, [run[r] EXCEPT !.pc = "admit",
                             !.cache = Remembered(r, "requirements", request)])
          /\ UNCHANGED Disk
       \/ /\ ~kept /\ Policy(r) = "locked"
          /\ Fail(r)
    /\ UNCHANGED counters

\* The local tree is enumerated, and its contents read when it is locked.
AdmitLocal(r) ==
    /\ At(r, "admit")
    /\ Step(r, [run[r] EXCEPT !.pc = "reconcile",
                       !.tree = Admitted(Cfg(r), source)])
    /\ UNCHANGED <<Disk, counters>>

\* The lock is reconciled without a write.
Reconcile(r) ==
    LET graph == RunGraph(r)
        answers == [k \in DOMAIN graph |-> Acquired(r, k, graph[k])]
    IN
    /\ At(r, "reconcile")
    /\ \/ /\ Policy(r) # "locked"
          /\ Step(r, [run[r] EXCEPT !.pc = "construct",
                             !.lock = Reconciled(graph, run[r].existing,
                                          Policy(r), answers, RunFixed(r))])
          /\ UNCHANGED Disk
       \/ /\ Policy(r) = "locked"
          /\ AcceptsLocked(graph, run[r].existing, RunFixed(r))
          /\ Step(r, [run[r] EXCEPT !.pc = "construct",
                             !.lock = run[r].existing])
          /\ UNCHANGED Disk
       \/ /\ Policy(r) = "locked"
          /\ ~AcceptsLocked(graph, run[r].existing, RunFixed(r))
          /\ Fail(r)
    /\ UNCHANGED counters

\* What the command does once it has a plan.
Writes(r) == Policy(r) # "locked" /\ Purpose(r) = "apply"
Checks(r) == Purpose(r) = "check"
             \/ (Policy(r) = "locked" /\ Purpose(r) # "dry")

AfterPlan(r) ==
    CASE Checks(r) -> "check"
      [] Writes(r) -> "write"
      [] OTHER -> "done"

\* The build plan is constructed from the graph and the accepted lock.
Construct(r) ==
    /\ At(r, "construct")
    /\ IF Constructible(Cfg(r), RunGraph(r), run[r].lock, run[r].tree)
       THEN Go(r, AfterPlan(r))
       ELSE Go(r, "defect")
    /\ UNCHANGED <<Disk, counters>>

----------------------------------------------------------------------------
(* The private stage *)

\* An output that exists is replaced only on request, and only when it is a
\* context of cdh.
MayReplace(r) ==
    output = Nothing \/ (run[r].invocation.overwrite /\ ValidMarker(output))

BeginStage(r) ==
    /\ At(r, "write")
    /\ \/ /\ MayReplace(r)
          /\ Step(r, [run[r] EXCEPT !.pc = "revalidate",
                             !.stage = Context(Plan(r), <<>>, NoLock, {})])
          /\ UNCHANGED Disk
       \/ ~MayReplace(r) /\ Fail(r)
    /\ UNCHANGED counters

\* The tree still has the members the plan was made for.
Revalidate(r) ==
    /\ At(r, "revalidate")
    /\ \/ /\ SameShape(run[r].tree, source)
          /\ Go(r, "copy")
          /\ UNCHANGED Disk
       \/ ~SameShape(run[r].tree, source) /\ Fail(r)
    /\ UNCHANGED counters

Uncopied(r) == Present(run[r].tree) \ DOMAIN run[r].stage.files

CopiesUnverified(r, m) == source[m] # Absent                     \* mutant

\* A member is read once more; a locked one must be what was admitted.
Copies(r, m) ==
    /\ source[m] # Absent
    /\ Cfg(r).contentLock => source[m] = run[r].tree[m]

WithMember(files, m) ==
    [n \in DOMAIN files \cup {m} |-> IF n = m THEN source[m] ELSE files[n]]

CopyMember(r) ==
    /\ At(r, "copy")
    /\ Uncopied(r) # {}
    /\ LET m == Min(Uncopied(r)) IN
       \/ /\ Copies(r, m)
          /\ Step(r, [run[r] EXCEPT !.stage.files = WithMember(@, m)])
          /\ UNCHANGED Disk
       \/ ~Copies(r, m) /\ Fail(r)
    /\ UNCHANGED counters

\* The tree is enumerated again after the copies; the lock and the marker
\* complete the stage.
CompleteStage(r) ==
    /\ At(r, "copy")
    /\ Uncopied(r) = {}
    /\ \/ /\ SameShape(run[r].tree, source)
          /\ Step(r, [run[r] EXCEPT !.pc = "publish",
                             !.stage.lock = run[r].lock,
                             !.stage.metadata = AllMetadata])
          /\ UNCHANGED Disk
       \/ ~SameShape(run[r].tree, source) /\ Fail(r)
    /\ UNCHANGED counters

----------------------------------------------------------------------------
(* Publication *)

Publish(r) ==
    /\ At(r, "publish")
    /\ IF output = Nothing THEN Go(r, "install")
       ELSE Step(r, [run[r] EXCEPT !.pc = "aside", !.backup = Empty])
    /\ UNCHANGED <<Disk, counters>>

\* What is at the output is renamed into the backup directory; another
\* command may have renamed it away first.
MoveAside(r) ==
    /\ At(r, "aside")
    /\ \/ /\ output # Nothing
          /\ Step(r, [run[r] EXCEPT !.pc = "install", !.backup = output])
          /\ output' = Nothing
          /\ UNCHANGED <<upstream, source, retained, latest>>
       \/ output = Nothing /\ Fail(r)
    /\ UNCHANGED counters

\* The stage is renamed to the output, unless another command was faster:
\* then the restore fails as well and the backup is retained.
Install(r) ==
    /\ At(r, "install")
    /\ \/ /\ output = Nothing
          /\ output' = run[r].stage
          /\ latest' = run[r].stage
          /\ Step(r, [run[r] EXCEPT !.stage = Nothing,
                             !.pc = IF run[r].backup = Nothing THEN "done"
                                    ELSE "drop"])
          /\ UNCHANGED <<upstream, source, retained>>
       \/ output # Nothing /\ Fail(r)
    /\ UNCHANGED counters

\* The replaced context goes with its backup directory.
DropBackup(r) ==
    /\ At(r, "drop")
    /\ Step(r, [run[r] EXCEPT !.pc = "done", !.backup = Nothing])
    /\ UNCHANGED <<Disk, counters>>

Finish(r) ==
    /\ At(r, "done")
    /\ run' = [run EXCEPT ![r] = Idle]
    /\ UNCHANGED <<Disk, counters>>

----------------------------------------------------------------------------
(* Checks, and locked commands *)

\* Everything but the contents of local files is compared with a stage
\* materialised for the purpose and removed afterwards.
TreeMatches(r) ==
    /\ ValidMarker(output)
    /\ output.plan = Plan(r)
    /\ output.lock = run[r].lock
    /\ DOMAIN output.files = Present(run[r].tree)

CheckTree(r) ==
    /\ At(r, "check")
    /\ \/ TreeMatches(r) /\ Go(r, "compare") /\ UNCHANGED Disk
       \/ ~TreeMatches(r) /\ Fail(r)
    /\ UNCHANGED counters

\* Local files: by digest when they are locked, against their sources when
\* they are not and the command is a check.
LocalFilesMatch(r) ==
    /\ output.kind = "context"
    /\ Present(run[r].tree) \subseteq DOMAIN output.files
    /\ \A m \in Present(run[r].tree) :
         IF Cfg(r).contentLock THEN output.files[m] = run[r].tree[m]
         ELSE Purpose(r) = "check" => output.files[m] = source[m]

CompareFiles(r) ==
    /\ At(r, "compare")
    /\ \/ LocalFilesMatch(r) /\ Go(r, "done") /\ UNCHANGED Disk
       \/ ~LocalFilesMatch(r) /\ Fail(r)
    /\ UNCHANGED counters

----------------------------------------------------------------------------
(* Faults and the world outside *)

Running(r) == run[r].pc \notin {"idle", "done", "defect"}

\* A provider, a call of the file system or the user stops the command.
\* While the output is moved aside the context is restored, if it can be.
Abort(r) ==
    /\ Running(r)
    /\ faults < MaxFaults
    /\ faults' = faults + 1
    /\ \/ Fail(r)
       \/ /\ At(r, "install")
          /\ run[r].backup # Nothing
          /\ output = Nothing
          /\ output' = run[r].backup
          /\ run' = [run EXCEPT ![r] = Idle]
          /\ UNCHANGED <<upstream, source, retained, latest>>
       \/ /\ At(r, "drop")
          /\ run' = [run EXCEPT ![r] = Idle]
          /\ UNCHANGED Disk
    /\ UNCHANGED <<starts, moves, edits>>

UpstreamMoves(key) ==
    /\ moves < MaxMoves
    /\ moves' = moves + 1
    /\ upstream' = [upstream EXCEPT ![key] = @ + 1]
    /\ UNCHANGED <<run, source, output, retained, latest,
                   starts, edits, faults>>

EditSource(m, content) ==
    /\ edits < MaxEdits
    /\ source[m] # content
    /\ edits' = edits + 1
    /\ source' = [source EXCEPT ![m] = content]
    /\ UNCHANGED <<run, upstream, output, retained, latest,
                   starts, moves, faults>>

Next ==
    \/ \E r \in Runs :
         \/ \E invocation \in Invocations : Start(r, invocation)
         \/ ResolveUv(r) \/ ResolveComfyui(r) \/ ResolveRequirements(r)
         \/ AdmitLocal(r) \/ Reconcile(r) \/ Construct(r)
         \/ BeginStage(r) \/ Revalidate(r) \/ CopyMember(r)
         \/ CompleteStage(r) \/ Publish(r) \/ MoveAside(r) \/ Install(r)
         \/ DropBackup(r) \/ CheckTree(r) \/ CompareFiles(r)
         \/ Finish(r) \/ Abort(r)
    \/ \E key \in MovingKeys : UpstreamMoves(key)
    \/ \E m \in Members, content \in Contents \cup {Absent} :
         EditSource(m, content)

Spec == Init /\ [][Next]_vars

----------------------------------------------------------------------------
(* Properties *)

Steps == {"idle", "uv", "comfyui", "requirements", "admit", "reconcile",
          "construct", "write", "revalidate", "copy", "publish", "aside",
          "install", "drop", "check", "compare", "done", "defect"}

\* A stage starts with the plan and grows member by member.
IsStage(d) ==
    /\ d.kind = "context"
    /\ d = Context(d.plan, d.files, d.lock, d.metadata)
    /\ d.plan \in BuildPlans
    /\ DOMAIN d.files \subseteq Members
    /\ \A m \in DOMAIN d.files : d.files[m] \in Contents

IsCommand(c) ==
    /\ c.pc \in Steps /\ c.invocation \in Invocations
    /\ c.uv \in Nat /\ c.commit \in Nat /\ c.tree \in Trees
    /\ \A k \in DOMAIN c.cache : c.cache[k] \in Nat
    /\ c.existing = NoLock \/ IsLock(c.existing)
    /\ c.lock = NoLock \/ IsLock(c.lock)
    /\ c.stage = Nothing \/ IsStage(c.stage)
    /\ c.pc \in {"publish", "aside", "install"} => IsContext(c.stage)
    /\ IF c.pc = "aside" THEN c.backup = Empty ELSE Complete(c.backup)

\* Whatever is at the output, was replaced or is kept is whole: its marker
\* lets the next command replace it, its lock is one that loads, and its
\* plan and its members are those of some configuration and tree.
TypeOK ==
    /\ \A r \in Runs : run[r] = Idle \/ IsCommand(run[r])
    /\ upstream \in [MovingKeys -> Nat]
    /\ source \in Trees
    /\ \A d \in retained \cup {output, latest} : Complete(d)

\* A lock that reconciliation accepts is one the build plan can be made
\* from: the versions upstream may move between the identities resolved
\* first and the rest (construct_build_plan, _project_toolchain).
PlanIsConstructed == \A r \in Runs : run[r].pc # "defect"

\* The lock a configuration was resolved to answers every request of it.
Current(cfg, lock, fixed) ==
    /\ {"uv", "comfyui"} \subseteq DOMAIN lock
    /\ AcceptsLocked(Graph(cfg, lock["uv"].result, lock["comfyui"].result),
                     lock, fixed)

Accepted(r) == run[r].pc \in Steps \ {"idle", "uv", "comfyui",
                                      "requirements", "admit", "reconcile"}

\* The default policy reproduces every lock that --locked would accept,
\* whatever is published upstream by now (reconcile_canonical_lock,
\* stable_comfyui_entry).
DefaultReproduces ==
    \A r \in Runs :
        /\ Accepted(r)
        /\ Policy(r) = "default"
        /\ Current(Cfg(r), run[r].existing, RunFixed(r))
        => run[r].lock = run[r].existing

\* The context published last is never lost: it is at the output or kept in
\* a backup directory, whoever else publishes there and wherever a command
\* is interrupted (_write_context, _cleanup_empty_backup_root).
LatestKept ==
    latest = Nothing
    \/ latest \in retained \cup {output}
                  \cup {run[r].backup : r \in {s \in Runs : ~At(s, "idle")}}

\* A context holds the contents the rows of its lock promise.
HoldsPromised(context) ==
    context.plan.cfg.contentLock =>
        \A m \in Members :
            context.lock["tree"].result[m]
              = IF m \in DOMAIN context.files THEN context.files[m]
                ELSE Absent

\* A context a command published holds the contents its own lock promises,
\* although the sources may change while they are copied
\* (_materialize_local_tree); what was there before may have been edited.
PublishedMatchesLock ==
    latest.kind = "context" /\ latest \notin InitialOutputs =>
        HoldsPromised(latest)

=============================================================================
