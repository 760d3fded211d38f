--------------------------- MODULE ImageObservers ---------------------------
(***************************************************************************)
(* What a build of an image looks at: the facts a BuildPlan fixes and the  *)
(* observers that compare the image with it (container/build/comfyui.py,   *)
(* application.py, custom_nodes/git.py, registry.py, local.py,             *)
(* orchestrator.py, local_trees.py, manifest/observer.py).                 *)
(*                                                                         *)
(* A fact is one thing an observer reads; the image gives it one of four   *)
(* states.  The content behind a fact (a commit, a version, a digest) is   *)
(* only compared with the plan, so "planned" and "other" are enough.       *)
(***************************************************************************)
EXTENDS Integers, Sequences, FiniteSets, SequencesExt

CONSTANTS
    Plans,            \* the BuildPlans an image is built from
    Gitlinks          \* [repository -> the submodules its commit names]

VARIABLES
    plan,             \* the BuildPlan of this build
    img,              \* the image: the state of every fact
    authority         \* the manager requirements this command has captured

States == {"absent", "planned", "other", "link"}

Names(nodes, kind) == {n.name : n \in {m \in Range(nodes) : m.kind = kind}}
HooksOf(node) ==
    Range(node.preClone) \cup Range(node.preInstall)
        \cup Range(node.postInstall)

\* The repositories a git node consists of: its own and, following the links
\* each commit names, those of its submodules.
Below[r \in DOMAIN Gitlinks] == {r} \cup UNION {Below[c] : c \in Gitlinks[r]}
Repositories(nodes) == UNION {Below[r] : r \in Names(nodes, "git")}

(* What every image has, and what the manager and a selected tree add. *)
Tools == {"cdh", "isolated", "system"}
ManagerFacts == {"importRoot", "anchor", "distributions", "cm-cli"}
FixedFacts ==
    {"checkout", "requirements", "managerRequirements", "stray", "manifest",
     "constraints", "inventory", "dependencies", "pip", "extras", "ordinary",
     "tree", "member"} \cup Tools \cup ManagerFacts

\* What the plan names: none of it is one of the facts above.
NamedFacts(p) ==
    Repositories(p.nodes)
        \cup Names(p.nodes, "local") \cup Names(p.nodes, "registry")
        \cup {d.name : d \in Range(p.downloads)}
        \cup UNION {HooksOf(n) : n \in Range(p.nodes)}

\* A plan the installer admits: node names are distinct, a registry node
\* needs the manager, and only git nodes have hooks before the clone.
IsSequence(s) == s \in Seq(Range(s))
ValidNode(n) ==
    /\ n.kind \in {"git", "registry", "local"}
    /\ \A hooks \in {n.preClone, n.preInstall, n.postInstall} :
          IsSequence(hooks)
    /\ n.kind # "git" => n.preClone = <<>>
ValidPlan(p) ==
    /\ IsSequence(p.nodes) /\ IsSequence(p.downloads)
    /\ \A i, j \in DOMAIN p.nodes :
          p.nodes[i].name = p.nodes[j].name => i = j
    /\ Names(p.nodes, "registry") # {} => p.manager
    /\ \A n \in Range(p.nodes) : ValidNode(n)
    /\ NamedFacts(p) \cap FixedFacts = {}
ASSUME PlansAssumption == \A p \in Plans : ValidPlan(p)

EnvironmentFacts ==
    {"constraints", "inventory", "dependencies", "pip"}
        \cup (IF plan.extras THEN {"extras"} ELSE {})
        \cup (IF plan.ordinary THEN {"ordinary"} ELSE {})
HookFiles == UNION {HooksOf(n) : n \in Range(plan.nodes)}
TreeFacts == IF plan.tree THEN {"tree", "member"} ELSE {}
Facts ==
    {"checkout", "requirements", "managerRequirements", "stray", "manifest"}
        \cup Tools \cup ManagerFacts
        \cup EnvironmentFacts \cup TreeFacts \cup NamedFacts(plan)

All(facts, state) == \A f \in facts : img[f] = state

(***************************** The application *****************************)

Regular(f) == img[f] \in {"planned", "other"}

\* The constraints are a read-only file of root with the content of the plan.
ConstraintsHold == img["constraints"] = "planned"
\* The installed packages have the versions of the plan.
GroupHolds == img["inventory"] = "planned"
ExtrasHold == plan.extras => img["extras"] = "planned"
\* What is installed satisfies the ordinary requirements of ComfyUI.
OrdinaryHolds == plan.ordinary => img["ordinary"] = "planned"
\* pip check
DependenciesHold == img["dependencies"] = "planned"
\* pip and pip3 are the commands of the application interpreter.
PipHolds == img["pip"] = "planned"

\* verify_application_environment, with the ordinary requirements or without
EnvironmentHolds(ordinary) ==
    /\ ConstraintsHold /\ GroupHolds /\ ExtrasHold
    /\ ordinary => OrdinaryHolds
    /\ DependenciesHold /\ PipHolds

\* _verify_checkout: the requirements are those the plan projected, and those
\* of the manager, which no plan pins, can be read.
CheckoutHolds ==
    /\ img["requirements"] = "planned"
    /\ plan.manager => Regular("managerRequirements")

\* _verify_checkout_identity: HEAD, origin, ancestry and the required files.
IdentityHolds ==
    /\ img["checkout"] = "planned"
    /\ Regular("requirements")
    /\ plan.manager => Regular("managerRequirements")

ApplicationHolds ==
    /\ IdentityHolds
    /\ img["requirements"] = "planned"
    /\ EnvironmentHolds(plan.ordinary)

\* The import root is a directory, the anchor the file that was written.
ImportRootHolds == img["importRoot"] = "planned"
AnchorHolds == img["anchor"] = "planned"
\* The distributions are those the requirements name, and the one with the
\* version they name owns the console command.
DistributionsHold(captured) == img["distributions"] = captured
CommandHolds == img["cm-cli"] = "planned"
ManagerAbsent == All(ManagerFacts, "absent")

\* The manager is whole and the one the captured requirements name, or
\* absent when the plan disables it.
ManagerHolds(captured) ==
    IF plan.manager
    THEN /\ ImportRootHolds /\ AnchorHolds /\ CommandHolds
         /\ DistributionsHold(captured)
    ELSE ManagerAbsent

(****************************** Custom nodes *******************************)

\* A git repository is there, with a git directory of its own place ("link"
\* is a linked worktree or a directory elsewhere), and its HEAD is detached at
\* the locked commit.
RepositoryRoot(r) == img[r] # "absent"
OwnGitDirectory(r) == img[r] # "link"
ExactHead(r) == img[r] # "other"

\* So is every submodule its commit names, at any depth.
Provenance(root) ==
    \A r \in Below[root] :
        RepositoryRoot(r) /\ OwnGitDirectory(r) /\ ExactHead(r)

\* Of a local node only the root directory is looked at again.
LocalRoot(n) == Regular(n)

\* The directories of registry nodes under custom_nodes are exactly those of
\* the nodes given, at their versions.
RegistryIdentities ==
    {n \in Names(plan.nodes, "registry") \cup {"stray"} : img[n] # "absent"}
RegistrySet(names) == All(names, "planned") /\ RegistryIdentities = names

\* The nodes that may be there and those that may not be there yet.
Context(admitted, prepared, future) ==
    [admitted |-> admitted, prepared |-> prepared, future |-> future]

HasRegistry == Names(plan.nodes, "registry") # {}

MixedHolds(context) ==
    LET present == context.admitted \o context.prepared IN
    /\ plan.manager => img["managerRequirements"] = authority
    /\ \A n \in Names(present, "git") : Provenance(n)
    /\ \A n \in Names(present, "local") : LocalRoot(n)
    /\ All(Names(context.future, "git") \cup Names(context.future, "local"),
           "absent")
    /\ HasRegistry => RegistrySet(Names(context.admitted, "registry"))

\* observe_custom_node_state: the registry is looked at whatever the plan has.
NodesHold ==
    /\ \A n \in Names(plan.nodes, "git") : Provenance(n)
    /\ \A n \in Names(plan.nodes, "local") : LocalRoot(n)
    /\ RegistrySet(Names(plan.nodes, "registry"))

(********************************** Files **********************************)

\* A required download is a regular file, and its content the one locked.
DownloadHolds(d) ==
    IF d.checksum THEN img[d.name] = "planned"
                  ELSE Regular(d.name)

\* Before the COPY: what exists of a selected tree is of the right kind.
TreeAdmitted ==
    plan.tree =>
        \/ img["tree"] = "absent"
        \/ img["tree"] # "link" /\ img["member"] # "link"

TreeHolds == All(TreeFacts, "planned")
FilesHold == (\A d \in Range(plan.downloads) : DownloadHolds(d)) /\ TreeHolds
HookEvidenceHolds == All(HookFiles, "planned")

\* The environment of cdh, those of comfy-cli and the uv tools, and what the
\* image has outside them: uv, tini, the interpreters.
CdhHolds == img["cdh"] = "planned"
IsolatedHold == img["isolated"] = "planned"
SystemHolds == img["system"] = "planned"

\* _observe_final_manifest re-proves all of it before anything is written.
EvidenceWithoutHooks ==
    /\ ApplicationHolds /\ CheckoutHolds /\ FilesHold \* mutant
    /\ ManagerHolds(img["managerRequirements"]) /\ NodesHold
    /\ CdhHolds /\ IsolatedHold /\ SystemHolds
EvidenceHolds ==
    /\ ApplicationHolds /\ CheckoutHolds
    /\ ManagerHolds(img["managerRequirements"])
    /\ CdhHolds /\ IsolatedHold /\ SystemHolds
    /\ FilesHold /\ NodesHold /\ HookEvidenceHolds

=============================================================================
