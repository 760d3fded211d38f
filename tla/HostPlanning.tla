---------------------------- MODULE HostPlanning ----------------------------
(***************************************************************************)
(* How a host command turns a configuration and an accepted lock into the  *)
(* next lock: config/planning/request.py (the request graph, the stability *)
(* of a selector), config/planning/resolver.py (reconciliation and its     *)
(* three policies), host/planning/authority.py (the identities resolved    *)
(* first because later requests depend on them) and the acceptance checks  *)
(* of config/planning/build_plan.py.                                       *)
(*                                                                         *)
(* A request is its selector and the identities it depends on; it stands   *)
(* for its own digest.  An entry of the lock is the request it answers and *)
(* the result a provider returned.  A lock is a function from keys to      *)
(* entries.  One key stands for the requests of its kind: "uv" for the OCI *)
(* images, "pytorch" for the Python groups, "node" for a published custom  *)
(* node, "tree" for the content-locked local inputs and hooks.             *)
(***************************************************************************)
EXTENDS Naturals, Sequences

CONSTANTS
    Members,      \* the member paths of the configured local tree
    Contents      \* the contents a member may have

ASSUME MembersAssumption == Members \subseteq Nat /\ Members # {}
ASSUME ContentsAssumption == Contents \subseteq Nat \ {0} /\ Contents # {}

\* A configuration: the selectors of ComfyUI and of the custom node, and
\* whether the local tree is content locked.
Configs == [comfyui : {"latest", "pin"}, node : {"latest", "pin", "none"},
            contentLock : BOOLEAN]

Policies == {"default", "locked", "upgrade"}
Purposes == {"apply", "check", "dry"}

Absent == 0                                  \* no file at a member's path
Trees == [Members -> Contents \cup {Absent}]
NoLock == <<>>                               \* no config.lock.toml
Unresolved == 0                              \* the descriptor of zeros
Pinned == 0                                  \* what an exact selector names

----------------------------------------------------------------------------
(* Requests *)

Request(selector, deps) == [selector |-> selector, deps |-> deps]

UvRequest == Request("latest", <<>>)
ComfyuiRequest(cfg) == Request(cfg.comfyui, <<>>)
RequirementsRequest(commit) == Request("exact", <<commit>>)

\* The interpreter comes from the catalog of the uv image.
PythonRequest(uv) == Request("exact", <<uv>>)

\* A group of packages is resolved by the uv image, with the requirements of
\* the commit as members.
GroupRequest(uv, commit) == Request("latest", <<uv, commit>>)

\* A published custom node is requested by its selector; a local one needs
\* no provider.
NodeRequest(cfg) == Request(cfg.node, <<>>)
NodeKeys(cfg) == IF cfg.node = "none" THEN {} ELSE {"node"}

GraphKeys(cfg) ==
    {"uv", "python", "comfyui", "requirements", "pytorch"} \cup NodeKeys(cfg)

\* Every request of a configuration, given the identities resolved first.
Graph(cfg, uv, commit) ==
    [key \in GraphKeys(cfg) |->
        CASE key = "uv" -> UvRequest
          [] key = "python" -> PythonRequest(uv)
          [] key = "comfyui" -> ComfyuiRequest(cfg)
          [] key = "requirements" -> RequirementsRequest(commit)
          [] key = "pytorch" -> GroupRequest(uv, commit)
          [] key = "node" -> NodeRequest(cfg)]

Moving(request) == request.selector = "latest"

----------------------------------------------------------------------------
(* Entries *)

Entry(request, result) == [request |-> request, result |-> result]

\* A local row is the digest of what it locks; no provider answers it.
LocalRow(tree) == Entry(Request("local", <<>>), tree)

\* A lock has every entry an image needs, and none it does not know.
RequiredKeys == {"uv", "python", "comfyui", "requirements", "pytorch"}

IsLock(lock) ==
    /\ lock = [key \in DOMAIN lock |-> lock[key]]
    /\ RequiredKeys \subseteq DOMAIN lock
    /\ DOMAIN lock \subseteq RequiredKeys \cup {"node", "tree"}
    /\ \A key \in DOMAIN lock \ {"tree"} : lock[key].result \in Nat
    /\ "tree" \in DOMAIN lock => lock["tree"].result \in Trees

\* A result is one its request can have: the interpreter is bound to the
\* catalog of its uv image, the requirements to their commit.
Matches(request, result) ==
    CASE request.selector = "exact" -> result = Head(request.deps)
      [] request.selector = "pin" -> result = Pinned
      [] OTHER -> result # Pinned

Satisfies(lock, key, request) ==
    /\ key \in DOMAIN lock
    /\ lock[key].request = request
    /\ Matches(request, lock[key].result)

\* The candidate a selector names.
Selected(request, published) ==
    IF request.selector = "pin" THEN Pinned ELSE published

\* What a provider answers: an exact request determines its result.
Provided(request, published) ==
    IF request.selector = "exact" THEN Head(request.deps)
    ELSE Selected(request, published)

\* The rows of content-locked local inputs are the admitted facts.
FixedKeys(cfg) == IF cfg.contentLock THEN {"tree"} ELSE {}

Fixed(cfg, tree) == [key \in FixedKeys(cfg) |-> LocalRow(tree)]

----------------------------------------------------------------------------
(* Policies *)

\* An entry is kept unless an upgrade refreshes its moving selector.
Kept(lock, key, request, policy) ==
    /\ Satisfies(lock, key, request)
    /\ ~(policy = "upgrade" /\ Moving(request))

----------------------------------------------------------------------------
(* Reconciliation *)

\* The identities a lock is assembled from.
Rows(graph, fixed) == DOMAIN graph \cup DOMAIN fixed

\* The default and upgrade policies: keep what still answers its request,
\* take the answer of a provider for the rest, replace the local rows.
Reconciled(graph, lock, policy, answers, fixed) ==
    [key \in Rows(graph, fixed) |->
        IF key \notin DOMAIN graph THEN fixed[key]
        ELSE IF Kept(lock, key, graph[key], policy) THEN lock[key]
        ELSE Entry(graph[key], answers[key])]

\* The locked policy accepts the lock as it is or not at all.
AcceptsLocked(graph, lock, fixed) ==
    /\ lock # NoLock
    /\ DOMAIN lock = Rows(graph, fixed)
    /\ \A key \in DOMAIN graph : Satisfies(lock, key, graph[key])
    /\ \A key \in DOMAIN fixed : lock[key] = fixed[key]

----------------------------------------------------------------------------
(* Local trees *)

\* The members an enumeration finds, without their contents.
ShapeOf(tree) ==
    [m \in Members |-> IF tree[m] = Absent THEN Absent
                       ELSE CHOOSE c \in Contents : TRUE]

\* The facts admission records: contents are read of a locked tree only.
Admitted(cfg, tree) == IF cfg.contentLock THEN tree ELSE ShapeOf(tree)

\* A second enumeration compares paths and kinds, never contents.
SameShape(left, right) ==
    \A m \in Members : (left[m] = Absent) <=> (right[m] = Absent)

Present(tree) == {m \in Members : tree[m] # Absent}

----------------------------------------------------------------------------
(* The build plan: every phase takes its identities from the accepted lock *)

Toolchain(lock) ==
    [uv |-> lock["uv"].result, python |-> lock["python"].result]

\* The exact packages of a group.
PackageGroup(lock) == lock["pytorch"].result

Application(lock) ==
    [comfyui |-> lock["comfyui"].result,
     requirements |-> lock["requirements"].result,
     pytorch |-> PackageGroup(lock)]

CustomNode(lock) == lock["node"].result

CustomNodes(cfg, lock) ==
    IF cfg.node = "none" THEN {} ELSE {CustomNode(lock)}

\* A locked tree is taken from its row, an unlocked one from its admission.
Files(cfg, lock, tree) ==
    IF cfg.contentLock THEN lock["tree"].result ELSE tree

BuildPlan(cfg, lock, tree) ==
    [cfg |-> cfg, toolchain |-> Toolchain(lock),
     application |-> Application(lock), nodes |-> CustomNodes(cfg, lock),
     files |-> Files(cfg, lock, tree)]

\* The versions of tools and images, the packages of groups, the commits of
\* sources and the inventories of local trees, phase by phase.
ToolchainPhases == [uv : Nat, python : Nat]
PackageGroups == Nat
ApplicationPhases ==
    [comfyui : Nat, requirements : Nat, pytorch : PackageGroups]
CustomNodesPhases == SUBSET Nat
FilesPhases == Trees

BuildPlans ==
    [cfg : Configs, toolchain : ToolchainPhases,
     application : ApplicationPhases, nodes : CustomNodesPhases,
     files : FilesPhases]

\* What the construction demands of an accepted lock; a failure is a defect
\* of the program, not a diagnostic.
AnswersGraph(graph, lock) ==
    \A key \in DOMAIN graph : Satisfies(lock, key, graph[key])

\* The admission a locked row came from is the one the plan is made with.
RowIsFresh(cfg, lock, tree) ==
    cfg.contentLock => "tree" \in DOMAIN lock /\ lock["tree"].result = tree

\* Every entry is taken by a phase.
NothingUnused(cfg, graph, lock) ==
    DOMAIN lock = DOMAIN graph \cup FixedKeys(cfg)

\* The phases belong together.
PhasesAgree(plan) ==
    /\ plan.toolchain.python = plan.toolchain.uv
    /\ plan.application.requirements = plan.application.comfyui

Constructible(cfg, graph, lock, tree) ==
    /\ AnswersGraph(graph, lock)
    /\ RowIsFresh(cfg, lock, tree)
    /\ NothingUnused(cfg, graph, lock)
    /\ PhasesAgree(BuildPlan(cfg, lock, tree))

=============================================================================
