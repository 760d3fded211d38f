------------------------------ MODULE ImageBuild ------------------------------
(***************************************************************************)
(* One build of an image: the RUN steps rendering/final_renderer.py writes *)
(* and what they execute (container/cli.py): install-comfyui               *)
(* (container/build/comfyui.py, application.py), install-custom-nodes      *)
(* (custom_nodes/orchestrator.py), download-files (downloads.py), the tree *)
(* steps (local_trees.py) and write-final-manifest (manifest/).            *)
(*                                                                         *)
(* Hooks, install scripts and package builds are opaque: each may change   *)
(* any fact of the image, and may leave a process behind that changes one  *)
(* later, until its RUN step ends.  The installer trusts none of them: it  *)
(* verifies the boundary after each, with an observation it may skip when  *)
(* nothing was executed since the last one.                                *)
(***************************************************************************)
EXTENDS ImageObservers

CONSTANTS
    MaxChanges        \* bound: facts changed by what is executed
ASSUME MaxChangesAssumption == MaxChanges \in Nat

VARIABLES
    at,               \* the step of the program that comes next
    turn,             \* of install-custom-nodes: whose boundary comes next
    context,          \* the nodes admitted, prepared and to come
    file,             \* the download that comes next
    outcome,          \* the build: "building", "failed" or "built"
    epoch,            \* of executions, and what each observer saw last
    sealed,           \* the hook content in the sealed descriptor
    leftover,         \* a process somebody left behind is running
    late,             \* history: when such a process changed something
    changes

loop == <<turn, context, file>>
vars == <<plan, img, authority, at, loop, outcome, epoch, sealed, leftover,
          late, changes>>

(**************** The iterations of install-custom-nodes *******************)

\* A node goes through six phases: 0, the boundary it begins with; 1, the
\* hooks before the clone; 2, the preparation of a git or local node; 3, the
\* hooks before the installation; 4, the installation; 5, the hooks after it.
HooksIn(node, phase) ==
    CASE phase = 1 -> node.preClone
      [] phase = 3 -> node.preInstall
      [] phase = 5 -> node.postInstall

\* The boundaries a phase has: one after each thing it executes.
Rounds(node, phase) ==
    CASE phase \in {0, 4} -> 1
      [] phase = 2 -> IF node.kind = "registry" THEN 0 ELSE 1
      [] phase \in {1, 3, 5} -> Len(HooksIn(node, phase))

Begin(n) == [node |-> n, phase |-> 0, round |-> 1]

\* The final verification is the first boundary of a node that is not there.
Final == turn.node > Len(plan.nodes)
Node == plan.nodes[turn.node]
HookFile == HooksIn(Node, turn.phase)[turn.round]

Following(t) ==
    LET node == plan.nodes[t.node]
        later == {k \in (t.phase + 1)..5 : Rounds(node, k) > 0}
    IN  IF t.round < Rounds(node, t.phase) THEN [t EXCEPT !.round = @ + 1]
        ELSE IF later # {}
        THEN [node |-> t.node, round |-> 1,
              phase |-> CHOOSE k \in later : \A l \in later : k <= l]
        ELSE Begin(t.node + 1)

\* What a turn starts with.
Start(phase) ==
    CASE phase = 0 -> "mixed"
      [] phase = 2 -> "prepare"
      [] phase = 4 -> "installNode"
      [] phase \in {1, 3, 5} -> "seal"

From(n) == SubSeq(plan.nodes, n, Len(plan.nodes))

Init ==
    /\ plan \in Plans
    /\ img = [f \in Facts |->
                IF f \in Tools \cup HookFiles \cup {"pip", "dependencies"}
                THEN "planned" ELSE "absent"]
    /\ authority = "none" /\ at = "checkout" /\ outcome = "building"
    /\ turn = Begin(1) /\ context = Context(<<>>, <<>>, From(1)) /\ file = 1
    /\ epoch = [dirty |-> 0, application |-> -1, manager |-> -1]
    /\ sealed = "none" /\ leftover = FALSE /\ late = "no" /\ changes = 0

(******************************* What changes ******************************)

\* A change of one fact by something that is executed: a file of the tree
\* lies in its directory, and the manifest only its writer can make.
Changed(image, f, state) ==
    [g \in DOMAIN image |->
        IF g = f THEN state
        ELSE IF f = "member" /\ g = "tree" /\ image[g] # "planned"
        THEN "other"
        ELSE IF f = "tree" /\ g = "member" /\ state \in {"absent", "link"}
        THEN "absent" ELSE image[g]]
Changes(image) ==
    {Changed(image, f, state) : f \in Facts, state \in States}
        \ {[image EXCEPT !["manifest"] = "planned"]}

Set(facts, state) ==
    [f \in Facts |-> IF f \in facts THEN state ELSE img[f]]

At(step) == outcome = "building" /\ at = step /\ UNCHANGED <<plan, outcome>>
Goes(from, to) == At(from) /\ at' = to
Quiet == UNCHANGED <<leftover, late, changes>>
Kept == UNCHANGED <<authority, epoch, sealed>>

\* Something is executed that should turn the image into this one.
Executed(image) ==
    \/ img' = image /\ UNCHANGED <<leftover, late, changes>>
    \/ /\ changes < MaxChanges /\ changes' = changes + 1
       /\ \/ img' \in Changes(image) /\ UNCHANGED leftover
          \/ img' = image /\ leftover' = TRUE
       /\ UNCHANGED late

\* A process a command left behind changes a fact later: after the last look
\* at the nodes, or while there is one to come.
LastLook ==
    Final /\ at \in {"observeManager", "observeApplication", "endNodes"}
Leftover ==
    /\ outcome = "building" /\ leftover
    /\ img' \in Changes(img) /\ leftover' = FALSE
    /\ late' = IF LastLook THEN "final" ELSE "early"
    /\ UNCHANGED <<plan, authority, at, loop, outcome, epoch, sealed, changes>>

\* Any command may fail by itself; the build then ends.
Fail ==
    /\ outcome = "building" /\ outcome' = "failed"
    /\ UNCHANGED <<plan, img, authority, at, loop, epoch, sealed, leftover,
                   late, changes>>

(******************************* install-comfyui ***************************)

\* _checkout_exact creates the target and clones into it.
Checkout ==
    /\ Goes("checkout", "parse") /\ img["checkout"] = "absent"
    /\ img' = Set({"checkout", "requirements", "managerRequirements"},
                  "planned")
    /\ Quiet /\ Kept /\ UNCHANGED loop

\* _verify_checkout reads the requirements the rest of the command goes by.
Parse ==
    /\ Goes("parse", "group") /\ CheckoutHolds
    /\ authority' = img["managerRequirements"]
    /\ Quiet /\ UNCHANGED <<img, epoch, sealed, loop>>

\* uv pip install, which builds and runs packages.
Install(step, facts, next) ==
    /\ Goes(step, next) /\ Executed(Set(facts, "planned"))
    /\ Kept /\ UNCHANGED loop

InstallPackages ==
    \/ Install("group", {"inventory"}, "verifyGroup")
    \/ Install("extras", {"extras"}, "environment")
    \/ Install("ordinary", {"ordinary"}, "application")
    \/ Install("manager", ManagerFacts \ {"anchor"}, "anchor")

\* What is installed next, if the plan has it.
AfterConstraints == IF plan.extras THEN "extras" ELSE "environment"
AfterApplication == IF plan.manager THEN "manager" ELSE "verifyManager"
AfterEnvironment == IF plan.ordinary THEN "ordinary" ELSE AfterApplication

VerifyStep(step, holds, next) ==
    /\ Goes(step, next) /\ holds
    /\ Quiet /\ Kept /\ UNCHANGED <<img, loop>>

VerifyComfyUI ==
    \/ VerifyStep("verifyGroup", GroupHolds /\ DependenciesHold, "constraints")
    \/ VerifyStep("environment", EnvironmentHolds(FALSE), AfterEnvironment)
    \/ VerifyStep("application", EnvironmentHolds(plan.ordinary),
                  AfterApplication)
    \/ VerifyStep("verifyManager", ManagerHolds(authority), "installed")
    \/ VerifyStep("installed", EnvironmentHolds(plan.ordinary), "endComfyUI")

\* _write_constraints and _write_import_anchor create their file or fail.
WriteFile(step, fact, next) ==
    /\ Goes(step, next) /\ img[fact] = "absent"
    /\ img' = Set({fact}, "planned")
    /\ Quiet /\ Kept /\ UNCHANGED loop

WriteConstraints == WriteFile("constraints", "constraints", AfterConstraints)
WriteAnchor == WriteFile("anchor", "anchor", "verifyManager")

(**************************** install-custom-nodes *************************)

\* The authorities are captured before the first hook, and with that of the
\* manager its state is observed.
Capture ==
    /\ Goes("capture", "mixed") /\ CheckoutHolds
    /\ plan.nodes # <<>> => ManagerHolds(img["managerRequirements"])
    /\ authority' = img["managerRequirements"]
    /\ epoch' = [dirty |-> 0, application |-> -1, manager |-> 0]
    /\ Quiet /\ UNCHANGED <<img, sealed, loop>>

\* _verify_boundary; the last one looks again whatever was observed before.
NotForced == FALSE \* mutant
Forced == Final

Mixed == VerifyStep("mixed", MixedHolds(context), "observeManager")

\* _ObservationEpoch.observe
Skipped(observer) == epoch[observer] = epoch.dirty /\ ~Forced
Seen(observer) == epoch' = [epoch EXCEPT ![observer] = epoch.dirty]

Observe(observer, holds) ==
    /\ \/ Skipped(observer) /\ UNCHANGED epoch
       \/ ~Skipped(observer) /\ holds /\ Seen(observer)
    /\ Quiet /\ UNCHANGED <<img, authority, sealed, file>>

ObserveManager ==
    /\ Goes("observeManager", "observeApplication")
    /\ Observe("manager", plan.nodes # <<>> => ManagerHolds(authority))
    /\ UNCHANGED <<turn, context>>

\* The next turn; a node that begins is still to come.
Proceed ==
    /\ turn' = Following(turn) /\ at' = Start(turn'.phase)
    /\ context' = IF turn'.phase = 0
                  THEN Context(context.admitted, <<>>, From(turn'.node))
                  ELSE context

ObserveApplication ==
    /\ At("observeApplication") /\ Observe("application", ApplicationHolds)
    /\ \/ ~Final /\ Proceed
       \/ Final /\ at' = "endNodes" /\ UNCHANGED <<turn, context>>

NotInvalidated == UNCHANGED epoch \* mutant
Invalidated == epoch' = [epoch EXCEPT !.dirty = @ + 1]

\* run_hook: the file is copied into a descriptor that is then sealed (a
\* process that writes meanwhile can mix contents), its digest is compared,
\* and the descriptor, not the file, is executed.
OpensHook == Regular(HookFile)
SealHook ==
    /\ Goes("seal", "digest") /\ OpensHook /\ Invalidated
    /\ sealed' \in {img[HookFile]} \cup (IF leftover THEN {"other"} ELSE {})
    /\ Quiet /\ UNCHANGED <<img, authority, loop>>

DigestMatches == sealed = "planned"
CheckDigest == VerifyStep("digest", DigestMatches, "hook")

RunHook ==
    /\ Goes("hook", "mixed") /\ Executed(img) /\ sealed' = "none"
    /\ UNCHANGED <<authority, epoch, loop>>

\* The target must not exist: a git node is cloned into it, its commit
\* checked out and its submodules with it; a local node is copied file by file.
Cloned == Set(Repositories(<<Node>>), "planned")
Copied == Set({Node.name}, "planned")
PrepareSource ==
    /\ Goes("prepare", "mixed") /\ img[Node.name] = "absent"
    /\ Executed(IF Node.kind = "git" THEN Cloned ELSE Copied)
    /\ context' = Context(context.admitted, <<Node>>, From(turn.node + 1))
    /\ Invalidated /\ UNCHANGED <<authority, sealed, turn, file>>

\* cm-cli install, or the root requirements and install.py of the node, which
\* add nothing the plan names.
RegistryInstalled == Set({Node.name}, "planned")
SurfacesInstalled == img
InstallSource ==
    /\ Goes("installNode", "mixed")
    /\ Executed(IF Node.kind = "registry" THEN RegistryInstalled
                                          ELSE SurfacesInstalled)
    /\ context' = Context(Append(context.admitted, Node), <<>>,
                          From(turn.node + 1))
    /\ Invalidated /\ UNCHANGED <<authority, sealed, turn, file>>

(************************ Files and the final manifest *********************)

Download == plan.downloads[file]
IsLast == file = Len(plan.downloads)
FirstFile == IF plan.downloads # <<>> THEN "download" ELSE "tree"

\* A file without a locked checksum may have any content.
DownloadFile ==
    /\ Goes("download", "verifyFile")
    /\ \E state \in {"planned"} \cup
                    (IF Download.checksum THEN {} ELSE {"other"}) :
          img' = Set({Download.name}, state)
    /\ Quiet /\ Kept /\ UNCHANGED loop

\* process_file_downloads verifies each file, and all of them again.
VerifyFile(step, again, next) ==
    /\ At(step) /\ DownloadHolds(Download)
    /\ \/ ~IsLast /\ file' = file + 1 /\ at' = again
       \/ IsLast /\ file' = 1 /\ at' = next
    /\ Quiet /\ Kept /\ UNCHANGED <<img, turn, context>>

VerifyFiles ==
    \/ VerifyFile("verifyFile", "download", "recheckFile")
    \/ VerifyFile("recheckFile", "recheckFile", "tree")

\* COPY puts the members where they belong, with the modes of the context.
VerifyTree ==
    VerifyStep("tree", TreeAdmitted, IF plan.tree THEN "copy" ELSE "endFiles")
CopyTree ==
    /\ Goes("copy", "normalize")
    /\ img' = [f \in Facts |-> IF f \in TreeFacts /\ img[f] # "link"
                               THEN "other" ELSE img[f]]
    /\ Quiet /\ Kept /\ UNCHANGED loop
NormalizeTree ==
    /\ Goes("normalize", "endFiles")
    /\ img["tree"] # "link" /\ Regular("member")
    /\ img' = Set(TreeFacts, "planned")
    /\ Quiet /\ Kept /\ UNCHANGED loop

\* render_final_dockerfile: a RUN step ends, and with it its processes.
EndRun ==
    /\ \/ Goes("endComfyUI", "capture")
       \/ Goes("endNodes", FirstFile)
       \/ Goes("endFiles", "evidence")
    /\ leftover' = FALSE /\ late' = "no" /\ authority' = "none"
    /\ UNCHANGED <<img, epoch, sealed, changes, loop>>

VerifyEvidence == VerifyStep("evidence", EvidenceHolds, "write")

WriteManifest ==
    /\ outcome = "building" /\ at = "write" /\ img["manifest"] = "absent"
    /\ img' = Set({"manifest"}, "planned") /\ outcome' = "built"
    /\ Quiet /\ Kept /\ UNCHANGED <<plan, at, loop>>

Next ==
    \/ Checkout \/ Parse \/ InstallPackages \/ VerifyComfyUI
    \/ WriteConstraints \/ WriteAnchor
    \/ Capture \/ Mixed \/ ObserveManager \/ ObserveApplication
    \/ SealHook \/ CheckDigest \/ RunHook \/ PrepareSource \/ InstallSource
    \/ DownloadFile \/ VerifyFiles \/ VerifyTree \/ CopyTree \/ NormalizeTree
    \/ EndRun \/ VerifyEvidence \/ WriteManifest
    \/ Leftover \/ Fail

Spec == Init /\ [][Next]_vars

(******************************** Properties *******************************)

Steps ==
    {"checkout", "parse", "group", "verifyGroup", "constraints", "extras",
     "environment", "ordinary", "application", "manager", "anchor",
     "verifyManager", "installed", "endComfyUI", "capture",
     "mixed", "observeManager", "observeApplication", "seal", "digest",
     "hook", "prepare", "installNode", "endNodes",
     "download", "verifyFile", "recheckFile", "tree", "copy", "normalize",
     "endFiles", "evidence", "write"}

\* Every fact has a state, and an observer has never seen an epoch that is
\* yet to come (orchestrator.py, _ObservationEpoch).
TypeOK ==
    /\ plan \in Plans /\ img \in [Facts -> States]
    /\ authority \in States \cup {"none"}
    /\ at \in Steps
    /\ turn \in [node : 1..(Len(plan.nodes) + 1), phase : 0..5,
              round : Nat \ {0}]
    /\ file \in Nat \ {0}
    /\ outcome \in {"building", "failed", "built"}
    /\ epoch \in [dirty : Nat, application : Int, manager : Int]
    /\ {epoch.application, epoch.manager} \subseteq -1..epoch.dirty
    /\ sealed \in States \cup {"none"}
    /\ leftover \in BOOLEAN /\ late \in {"no", "early", "final"}
    /\ changes \in 0..MaxChanges

\* "Each executed hook establishes its own boundary before another mutation
\* is admitted": whatever was executed before, nothing else is executed for a
\* custom node unless the application, the manager and the nodes are proved
\* to be those of the plan, skipped observations included.
MutatesProvedState ==
    (/\ outcome = "building" /\ late = "no"
     /\ at \in {"seal", "prepare", "installNode"}) =>
        /\ ApplicationHolds /\ ManagerHolds(authority)
        /\ MixedHolds(context)

\* The content of a hook that is executed is the one the plan locked, even
\* when an earlier command or a process it left edits the hook file.
HookRunsLocked ==
    (outcome = "building" /\ at = "hook") => sealed = "planned"

\* When install-custom-nodes ends, all it admitted is as planned, whatever was
\* executed and whatever processes it left did before the last verification.
InstalledIsExact ==
    (outcome = "building" /\ late # "final" /\ at = "endNodes") =>
        /\ MixedHolds(Context(plan.nodes, <<>>, <<>>))
        /\ plan.nodes # <<>> => ManagerHolds(authority)
        /\ ApplicationHolds

\* COPY never meets a link or a special file where a selected tree goes, so it
\* never writes outside it (local_trees.py, validate_local_trees).
CopyMeetsNoLink ==
    (outcome = "building" /\ at = "copy") =>
        \A f \in TreeFacts : img[f] # "link"

\* An image with a final manifest is the planned one, fact by fact: nothing
\* an observer looked at earlier changed unseen until the manifest was written.
\* What no plan pins is there with the content the other facts agree with.
Excluded == {"stray"} \cup (IF plan.manager THEN {} ELSE ManagerFacts)
Unpinned ==
    Names(plan.nodes, "local")
        \cup {d.name : d \in {x \in Range(plan.downloads) : ~x.checksum}}
        \cup (IF plan.manager THEN {"managerRequirements"} ELSE {})
Followed == {"distributions", "managerRequirements"}
AsPlanned ==
    /\ All(Excluded, "absent")
    /\ \A f \in Unpinned : Regular(f)
    /\ plan.manager => img["distributions"] = img["managerRequirements"]
    /\ All(Facts \ (Excluded \cup Unpinned \cup Followed), "planned")
ManifestIsTrue == outcome = "built" => AsPlanned

=============================================================================
