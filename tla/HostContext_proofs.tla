-------------------------- MODULE HostContext_proofs --------------------------
(***************************************************************************)
(* The host commands for any number of commands, publications, edits and   *)
(* faults: the lock a command has accepted always yields a build plan, the *)
(* context published last is never lost, what is published holds what its  *)
(* lock promises, every lock and context on the disk is one that loads,    *)
(* and the default policy reproduces a lock that is current.               *)
(*                                                                         *)
(* The first needs to know where the two identities came from that were    *)
(* resolved first, because the lock is reconciled with requests made from  *)
(* them while the selectors move (Resolved): an identity that is kept then *)
(* is kept again, and one that was acquired is answered from the cache.    *)
(* The third needs the first: a stage is filled from the tree its own lock *)
(* was made from (Filled).  The last needs Resolved too: the requests of a *)
(* command are those its lock was made for.                                *)
(***************************************************************************)
EXTENDS HostContext, WellFoundedInduction, TLAPS

-----------------------------------------------------------------------------
(* The invariant.                                                          *)

Fields == {"pc", "invocation", "existing", "uv", "commit", "cache", "tree",
           "lock", "stage", "backup"}

\* Once the uv image is resolved, once the ComfyUI commit is, once the lock
\* is accepted, while a stage is filled, and when it is complete.
AfterUv == Steps \ {"idle", "uv"}
AfterComfyui == AfterUv \ {"comfyui"}
AfterLock == AfterComfyui \ {"requirements", "admit", "reconcile"}
Filling == {"revalidate", "copy"}
Publishing == {"publish", "aside", "install"}

\* An identity comes from the lock if that still answers the request, and
\* otherwise from a provider whose answer is remembered.
Resolved(c, key, request, identity) ==
    IF Kept(c.existing, key, request, c.invocation.policy)
    THEN identity = c.existing[key].result
    ELSE c.invocation.policy # "locked" =>
           /\ <<key, request>> \in DOMAIN c.cache
           /\ identity = c.cache[<<key, request>>]

\* What is remembered answers its request.
CacheSound(c) ==
    \A k \in DOMAIN c.cache : k = <<k[1], k[2]>> /\ Matches(k[2], c.cache[k])

\* The lock, the tree and the graph of the command yield a plan.
LockSound(c) ==
    Constructible(c.invocation.cfg,
                  Graph(c.invocation.cfg, c.uv, c.commit), c.lock, c.tree)

ContextFields == {"kind", "plan", "files", "lock", "metadata"}

\* What has been copied is what was admitted.
Filled(c) ==
    /\ c.stage.kind = "context" /\ DOMAIN c.stage = ContextFields
    /\ c.stage.plan.cfg = c.invocation.cfg
    /\ DOMAIN c.stage.files \subseteq Present(c.tree)
    /\ c.invocation.cfg.contentLock =>
         \A m \in DOMAIN c.stage.files : c.stage.files[m] = c.tree[m]

CommandInv(c) ==
    /\ DOMAIN c = Fields
    /\ c.invocation \in Invocations
    /\ c.pc \in Steps \ {"idle", "defect"}
    /\ CacheSound(c)
    /\ c.pc \in AfterUv => Resolved(c, "uv", UvRequest, c.uv)
    /\ c.pc \in AfterComfyui =>
         /\ Resolved(c, "comfyui", ComfyuiRequest(c.invocation.cfg), c.commit)
         /\ c.invocation.policy = "locked" =>
              Kept(c.existing, "comfyui", ComfyuiRequest(c.invocation.cfg),
                   "locked")
    /\ c.pc \in AfterLock => LockSound(c)
    /\ c.pc \in Filling => Filled(c)
    /\ c.pc \in Publishing =>
         c.stage.kind = "context" /\ HoldsPromised(c.stage)

CommandsInv ==
    /\ DOMAIN run = Runs
    /\ \A r \in Runs : run[r] = Idle \/ CommandInv(run[r])

UpstreamInv == upstream \in [MovingKeys -> Nat \ {0}]

\* A context that was there at first, or one that keeps its promises.
Published(d) ==
    d.kind = "context" /\ (d \in InitialOutputs \/ HoldsPromised(d))

\* The context published last is at the output, was retained, or is in the
\* backup of a command that has yet to install its own.
LatestInv ==
    /\ latest = Nothing \/ Published(latest)
    /\ \/ latest = Nothing
       \/ latest \in retained \cup {output}
       \/ \E r \in Runs : run[r].pc = "install" /\ run[r].backup = latest

HostInv == CommandsInv /\ UpstreamInv /\ LatestInv

-----------------------------------------------------------------------------
(* Requests and what answers them.                                         *)

LEMMA RequestParts ==
    ASSUME NEW s, NEW d
    PROVE  Request(s, d).selector = s /\ Request(s, d).deps = d
BY DEF Request

LEMMA GraphFacts ==
    ASSUME NEW cfg, NEW uv, NEW commit
    PROVE  /\ DOMAIN Graph(cfg, uv, commit) = GraphKeys(cfg)
           /\ Graph(cfg, uv, commit)["uv"] = UvRequest
           /\ Graph(cfg, uv, commit)["python"] = Request("exact", <<uv>>)
           /\ Graph(cfg, uv, commit)["comfyui"] = ComfyuiRequest(cfg)
           /\ Graph(cfg, uv, commit)["requirements"] =
                RequirementsRequest(commit)
           /\ Graph(cfg, uv, commit)["pytorch"] =
                Request("latest", <<uv, commit>>)
           /\ "node" \in GraphKeys(cfg) =>
                Graph(cfg, uv, commit)["node"] = Request(cfg.node, <<>>)
<1>1. /\ {"uv", "python", "comfyui", "requirements", "pytorch"}
           \subseteq GraphKeys(cfg)
      /\ GraphKeys(cfg) \subseteq {"uv", "python", "comfyui", "requirements",
                                   "pytorch", "node"}
  BY DEF GraphKeys, NodeKeys
<1>3. DOMAIN Graph(cfg, uv, commit) = GraphKeys(cfg)
  BY DEF Graph, PythonRequest, GroupRequest, NodeRequest
<1>4. \A key \in GraphKeys(cfg) :
        Graph(cfg, uv, commit)[key] =
          CASE key = "uv" -> UvRequest
            [] key = "python" -> Request("exact", <<uv>>)
            [] key = "comfyui" -> ComfyuiRequest(cfg)
            [] key = "requirements" -> RequirementsRequest(commit)
            [] key = "pytorch" -> Request("latest", <<uv, commit>>)
            [] key = "node" -> Request(cfg.node, <<>>)
  BY DEF Graph, PythonRequest, GroupRequest, NodeRequest
<1>5. Graph(cfg, uv, commit)["uv"] = UvRequest
  BY <1>1, <1>4
<1>6. Graph(cfg, uv, commit)["python"] = Request("exact", <<uv>>)
  BY <1>1, <1>4
<1>7. Graph(cfg, uv, commit)["comfyui"] = ComfyuiRequest(cfg)
  BY <1>1, <1>4
<1>8. Graph(cfg, uv, commit)["requirements"] = RequirementsRequest(commit)
  BY <1>1, <1>4
<1>9. Graph(cfg, uv, commit)["pytorch"] = Request("latest", <<uv, commit>>)
  BY <1>1, <1>4
<1>10. "node" \in GraphKeys(cfg) =>
         Graph(cfg, uv, commit)["node"] = Request(cfg.node, <<>>)
  BY <1>4
<1>11. QED
  BY <1>3, <1>5, <1>6, <1>7, <1>8, <1>9, <1>10

LEMMA GraphRoots ==
    \A cfg, uv, commit :
        /\ DOMAIN Graph(cfg, uv, commit) = GraphKeys(cfg)
        /\ Graph(cfg, uv, commit)["uv"] = UvRequest
        /\ Graph(cfg, uv, commit)["comfyui"] = ComfyuiRequest(cfg)
BY GraphFacts

\* Every request for a moving selector is for a key that moves.
LEMMA MovingRequests ==
    ASSUME NEW cfg \in Configs, NEW uv, NEW commit,
           NEW key \in GraphKeys(cfg)
    PROVE  \/ key \in MovingKeys
           \/ Graph(cfg, uv, commit)[key].selector = "exact"
<1>1. key \in {"uv", "python", "comfyui", "requirements", "pytorch", "node"}
  BY DEF GraphKeys, NodeKeys
<1>2. CASE key \in {"uv", "comfyui", "pytorch", "node"}
  BY <1>2 DEF MovingKeys
<1>3. CASE key = "python"
  <2>1. Graph(cfg, uv, commit)[key] = Request("exact", <<uv>>)
    BY <1>3, GraphFacts
  <2>2. QED
    BY <2>1, RequestParts
<1>4. CASE key = "requirements"
  <2>1. Graph(cfg, uv, commit)[key] = RequirementsRequest(commit)
    BY <1>4, GraphFacts
  <2>2. QED
    BY <2>1, RequestParts DEF RequirementsRequest
<1>5. QED
  BY <1>1, <1>2, <1>3, <1>4

LEMMA MatchesFacts ==
    ASSUME NEW request, NEW result
    PROVE  /\ request.selector = "exact" =>
                (Matches(request, result) <=> result = Head(request.deps))
           /\ request.selector = "pin" =>
                (Matches(request, result) <=> result = Pinned)
           /\ request.selector \notin {"exact", "pin"} =>
                (Matches(request, result) <=> result # Pinned)
<1>1. CASE request.selector = "exact"
  BY <1>1 DEF Matches
<1>2. CASE request.selector = "pin"
  BY <1>2 DEF Matches
<1>3. CASE request.selector \notin {"exact", "pin"}
  BY <1>3 DEF Matches
<1>4. QED
  BY <1>1, <1>2, <1>3

\* A provider's answer is one the request can have.
LEMMA ProvidedMatches ==
    ASSUME NEW request, NEW published,
           published # Pinned \/ request.selector \in {"exact", "pin"}
    PROVE  Matches(request, Provided(request, published))
<1>1. CASE request.selector = "exact"
  BY <1>1, MatchesFacts DEF Provided, Selected
<1>2. CASE request.selector = "pin"
  BY <1>2, MatchesFacts DEF Provided, Selected
<1>3. CASE request.selector \notin {"exact", "pin"}
  <2>1. Provided(request, published) = published
    BY <1>3 DEF Provided, Selected
  <2>2. QED
    BY <1>3, <2>1, MatchesFacts
<1>4. QED
  BY <1>1, <1>2, <1>3

\* What the acquirer returns answers the request.
LEMMA AcquiredMatches ==
    ASSUME UpstreamInv, NEW r \in Runs, CacheSound(run[r]),
           NEW key, NEW request,
           key \in MovingKeys \/ request.selector = "exact"
    PROVE  Matches(request, Acquired(r, key, request))
<1>1. CASE <<key, request>> \in DOMAIN run[r].cache
  <2> DEFINE k == <<key, request>>
  <2>1. k \in DOMAIN run[r].cache /\ k[2] = request
    BY <1>1
  <2>2. Matches(k[2], run[r].cache[k])
    BY <2>1 DEF CacheSound
  <2>3. Acquired(r, key, request) = run[r].cache[k]
    BY <1>1 DEF Acquired
  <2>4. QED
    BY <2>1, <2>2, <2>3
<1>2. CASE <<key, request>> \notin DOMAIN run[r].cache
  <2>1. key \in MovingKeys => upstream[key] # Pinned
    BY DEF UpstreamInv, Pinned
  <2>2. QED
    BY <1>2, <2>1, ProvidedMatches DEF Acquired
<1>3. QED
  BY <1>1, <1>2

\* Exact requests have one answer.
LEMMA ExactAnswers ==
    ASSUME NEW cfg \in Configs, NEW uv, NEW commit, NEW lock,
           AnswersGraph(Graph(cfg, uv, commit), lock)
    PROVE  /\ lock["python"].result = uv
           /\ lock["requirements"].result = commit
<1> DEFINE graph == Graph(cfg, uv, commit)
<1>1. graph["python"] = Request("exact", <<uv>>)
  BY GraphFacts
<1>2. graph["requirements"] = Request("exact", <<commit>>)
  <2>1. graph["requirements"] = RequirementsRequest(commit)
    BY GraphFacts
  <2>2. QED
    BY <2>1 DEF RequirementsRequest
<1>3. DOMAIN graph = GraphKeys(cfg)
  BY GraphFacts
<1>4. /\ Matches(Request("exact", <<uv>>), lock["python"].result)
      /\ Matches(Request("exact", <<commit>>), lock["requirements"].result)
  BY <1>1, <1>2, <1>3 DEF AnswersGraph, Satisfies, GraphKeys
<1>5. \A d : /\ Request("exact", d).selector = "exact"
             /\ Request("exact", d).deps = d
  BY RequestParts
<1>6. /\ lock["python"].result = Head(<<uv>>)
      /\ lock["requirements"].result = Head(<<commit>>)
  BY <1>4, <1>5, MatchesFacts
<1>7. QED
  BY <1>6

\* Both ways to a lock lead to one the plan can be made from, as soon as it
\* answers the graph and its first two entries are what the graph was made
\* from.
LEMMA AnswersConstruct ==
    ASSUME NEW cfg \in Configs, NEW uv, NEW commit, NEW tree, NEW lock,
           AnswersGraph(Graph(cfg, uv, commit), lock),
           lock["uv"].result = uv, lock["comfyui"].result = commit,
           DOMAIN lock = GraphKeys(cfg) \cup FixedKeys(cfg),
           cfg.contentLock =>
              lock["tree"] = LocalRow(tree)
    PROVE  Constructible(cfg, Graph(cfg, uv, commit), lock, tree)
<1>1. DOMAIN Graph(cfg, uv, commit) = GraphKeys(cfg)
  BY GraphFacts
<1>2. RowIsFresh(cfg, lock, tree)
  BY DEF RowIsFresh, FixedKeys, Entry, LocalRow
<1>3. NothingUnused(cfg, Graph(cfg, uv, commit), lock)
  BY <1>1 DEF NothingUnused
<1>4. PhasesAgree(BuildPlan(cfg, lock, tree))
  BY ExactAnswers DEF PhasesAgree, BuildPlan, Toolchain, Application,
     PackageGroup
<1>5. QED
  BY <1>2, <1>3, <1>4 DEF Constructible

-----------------------------------------------------------------------------
(* Reconciliation.                                                         *)

LEMMA FixedFacts ==
    ASSUME NEW cfg \in Configs, NEW tree
    PROVE  /\ DOMAIN Fixed(cfg, tree) = FixedKeys(cfg)
           /\ cfg.contentLock =>
                Fixed(cfg, tree)["tree"] = LocalRow(tree)
           /\ FixedKeys(cfg) \subseteq {"tree"}
           /\ cfg.contentLock => "tree" \in FixedKeys(cfg)
           /\ "tree" \notin GraphKeys(cfg)
BY DEF Fixed, FixedKeys, GraphKeys, NodeKeys, LocalRow

\* What the default and upgrade policies reconcile yields a plan.
LEMMA ReconciledConstructs ==
    ASSUME UpstreamInv, NEW r \in Runs, CommandInv(run[r]),
           run[r].pc = "reconcile", Policy(r) # "locked",
           NEW answers,
           answers = [k \in DOMAIN RunGraph(r) |->
                        Acquired(r, k, RunGraph(r)[k])]
    PROVE  Constructible(Cfg(r), RunGraph(r),
                         Reconciled(RunGraph(r), run[r].existing, Policy(r),
                                    answers, RunFixed(r)),
                         run[r].tree)
<1> DEFINE c == run[r]
           cfg == c.invocation.cfg
           policy == c.invocation.policy
           graph == Graph(cfg, c.uv, c.commit)
           fixed == Fixed(cfg, c.tree)
           lock == Reconciled(graph, c.existing, policy, answers, fixed)
<1>1. /\ Cfg(r) = cfg /\ Policy(r) = policy /\ RunGraph(r) = graph
      /\ RunFixed(r) = fixed
  BY DEF Cfg, Policy, RunGraph, RunFixed
<1>2. /\ cfg \in Configs
      /\ CacheSound(c)
      /\ Resolved(c, "uv", UvRequest, c.uv)
      /\ Resolved(c, "comfyui", ComfyuiRequest(cfg), c.commit)
  BY InvocationsAssumption
     DEF CommandInv, AfterUv, AfterComfyui, Steps
<1>3. /\ DOMAIN graph = GraphKeys(cfg)
      /\ graph["uv"] = UvRequest /\ graph["comfyui"] = ComfyuiRequest(cfg)
      /\ "uv" \in GraphKeys(cfg) /\ "comfyui" \in GraphKeys(cfg)
  BY GraphRoots DEF GraphKeys
<1>4. /\ DOMAIN fixed = FixedKeys(cfg)
      /\ cfg.contentLock =>
           fixed["tree"] = LocalRow(c.tree)
      /\ cfg.contentLock => "tree" \in FixedKeys(cfg)
      /\ "tree" \notin GraphKeys(cfg)
  BY <1>2, FixedFacts
<1>5. ASSUME NEW key \in GraphKeys(cfg)
      PROVE  Matches(graph[key], answers[key])
  <2>1. key \in MovingKeys \/ graph[key].selector = "exact"
    BY <1>2, MovingRequests
  <2>2. Matches(graph[key], Acquired(r, key, graph[key]))
    BY <1>2, <2>1, AcquiredMatches
  <2>3. answers[key] = Acquired(r, key, graph[key])
    BY <1>1, <1>3
  <2>4. QED
    BY <2>2, <2>3
<1> HIDE DEF graph, fixed
<1>6. /\ DOMAIN lock = GraphKeys(cfg) \cup FixedKeys(cfg)
      /\ \A key \in GraphKeys(cfg) :
           lock[key] = IF Kept(c.existing, key, graph[key], policy)
                       THEN c.existing[key]
                       ELSE Entry(graph[key], answers[key])
      /\ \A key \in FixedKeys(cfg) \ GraphKeys(cfg) : lock[key] = fixed[key]
  BY <1>3, <1>4 DEF Reconciled, Rows
<1> HIDE DEF lock
<1>7. AnswersGraph(graph, lock)
  <2>1. SUFFICES ASSUME NEW key \in GraphKeys(cfg)
                 PROVE  Satisfies(lock, key, graph[key])
    BY <1>3 DEF AnswersGraph
  <2>2. key \in DOMAIN lock
    BY <1>6
  <2>3. CASE Kept(c.existing, key, graph[key], policy)
    <3>1. lock[key] = c.existing[key]
      BY <1>6, <2>3
    <3>2. QED
      BY <2>2, <2>3, <3>1 DEF Kept, Satisfies
  <2>4. CASE ~Kept(c.existing, key, graph[key], policy)
    <3>1. lock[key] = Entry(graph[key], answers[key])
      BY <1>6, <2>4
    <3>2. lock[key].request = graph[key] /\ lock[key].result = answers[key]
      BY <3>1 DEF Entry
    <3>3. QED
      BY <1>5, <2>2, <3>2 DEF Satisfies
  <2>5. QED
    BY <2>3, <2>4
\* The two identities resolved first are found again.
<1>8. ASSUME NEW key \in {"uv", "comfyui"}, NEW request, NEW identity,
             graph[key] = request, Resolved(c, key, request, identity)
      PROVE  lock[key].result = identity
  <2>1. key \in GraphKeys(cfg)
    BY DEF GraphKeys
  <2>2. CASE Kept(c.existing, key, request, policy)
    BY <1>6, <1>8, <2>1, <2>2 DEF Resolved
  <2>3. CASE ~Kept(c.existing, key, request, policy)
    <3>1. /\ <<key, request>> \in DOMAIN c.cache
          /\ identity = c.cache[<<key, request>>]
      BY <1>1, <1>8, <2>3 DEF Resolved
    <3>2. answers[key] = Acquired(r, key, request)
      BY <1>1, <1>3, <1>8, <2>1
    <3>3. answers[key] = identity
      BY <3>1, <3>2 DEF Acquired
    <3>4. lock[key] = Entry(request, answers[key])
      BY <1>6, <1>8, <2>1, <2>3
    <3>5. QED
      BY <3>3, <3>4 DEF Entry
  <2>4. QED
    BY <2>2, <2>3
<1>9. lock["uv"].result = c.uv
  BY <1>2, <1>3, <1>8
<1>10. lock["comfyui"].result = c.commit
  BY <1>2, <1>3, <1>8
<1>11. cfg.contentLock => lock["tree"] = LocalRow(c.tree)
  BY <1>4, <1>6
<1>12. Constructible(cfg, graph, lock, c.tree)
  BY <1>2, <1>6, <1>7, <1>9, <1>10, <1>11, AnswersConstruct DEF graph
<1>13. QED
  BY <1>1, <1>12 DEF lock

\* And so does a lock that the locked policy accepts.
LEMMA AcceptedConstructs ==
    ASSUME NEW r \in Runs, CommandInv(run[r]),
           run[r].pc = "reconcile", Policy(r) = "locked",
           AcceptsLocked(RunGraph(r), run[r].existing, RunFixed(r))
    PROVE  Constructible(Cfg(r), RunGraph(r), run[r].existing, run[r].tree)
<1> DEFINE c == run[r]
           cfg == c.invocation.cfg
           graph == Graph(cfg, c.uv, c.commit)
           fixed == Fixed(cfg, c.tree)
           lock == c.existing
<1>1. /\ Cfg(r) = cfg /\ RunGraph(r) = graph /\ RunFixed(r) = fixed
      /\ c.invocation.policy = "locked"
  BY DEF Cfg, Policy, RunGraph, RunFixed
<1>2. /\ cfg \in Configs
      /\ Resolved(c, "uv", UvRequest, c.uv)
      /\ Resolved(c, "comfyui", ComfyuiRequest(cfg), c.commit)
  BY InvocationsAssumption
     DEF CommandInv, AfterUv, AfterComfyui, Steps
<1>3. /\ DOMAIN graph = GraphKeys(cfg)
      /\ graph["uv"] = UvRequest /\ graph["comfyui"] = ComfyuiRequest(cfg)
  BY GraphRoots
<1>4. /\ DOMAIN fixed = FixedKeys(cfg)
      /\ cfg.contentLock =>
           fixed["tree"] = LocalRow(c.tree)
      /\ cfg.contentLock => "tree" \in FixedKeys(cfg)
  BY <1>2, FixedFacts
<1> HIDE DEF graph, fixed
<1>5. /\ DOMAIN lock = GraphKeys(cfg) \cup FixedKeys(cfg)
      /\ \A key \in GraphKeys(cfg) : Satisfies(lock, key, graph[key])
      /\ \A key \in FixedKeys(cfg) : lock[key] = fixed[key]
  BY <1>1, <1>3, <1>4 DEF AcceptsLocked, Rows
<1>6. AnswersGraph(graph, lock)
  BY <1>3, <1>5 DEF AnswersGraph
<1>7. /\ Satisfies(lock, "uv", UvRequest)
      /\ Satisfies(lock, "comfyui", ComfyuiRequest(cfg))
  BY <1>3, <1>5 DEF GraphKeys
<1>8. lock["uv"].result = c.uv /\ lock["comfyui"].result = c.commit
  BY <1>1, <1>2, <1>7 DEF Resolved, Kept
<1>9. cfg.contentLock => lock["tree"] = LocalRow(c.tree)
  BY <1>4, <1>5
<1>10. Constructible(cfg, graph, lock, c.tree)
  BY <1>2, <1>5, <1>6, <1>8, <1>9, AnswersConstruct DEF graph
<1>11. QED
  BY <1>1, <1>10

-----------------------------------------------------------------------------
(* The steps of a command.                                                 *)

LEMMA StepEffect ==
    ASSUME DOMAIN run = Runs, NEW r \in Runs, NEW q, Step(r, q)
    PROVE  /\ DOMAIN run' = Runs /\ run'[r] = q
           /\ \A s \in Runs \ {r} : run'[s] = run[s]
BY DEF Step

LEMMA IdleFacts == /\ Idle.pc = "idle"
                   /\ Nothing.kind = "nothing" /\ Empty.kind = "empty"
BY DEF Idle, Nothing, Empty

\* A running command is one the invariant speaks of.
LEMMA RunningCommand ==
    ASSUME CommandsInv, NEW r \in Runs, run[r].pc # "idle"
    PROVE  CommandInv(run[r])
BY IdleFacts DEF CommandsInv

LEMMA CommandsStep ==
    ASSUME CommandsInv, NEW r \in Runs, NEW q, Step(r, q),
           q = Idle \/ CommandInv(q)
    PROVE  CommandsInv'
<1>1. DOMAIN run = Runs
  BY DEF CommandsInv
<1>2. /\ DOMAIN run' = Runs /\ run'[r] = q
      /\ \A s \in Runs \ {r} : run'[s] = run[s]
  BY <1>1, StepEffect
<1>3. \A s \in Runs : run'[s] = Idle \/ CommandInv(run'[s])
  BY <1>2 DEF CommandsInv
<1>4. QED
  BY <1>2, <1>3 DEF CommandsInv

\* A step that touches nothing on the disk and holds no replaced context.
LEMMA QuietStep ==
    ASSUME HostInv, NEW r \in Runs, NEW q, Step(r, q),
           q = Idle \/ CommandInv(q),
           UNCHANGED <<upstream, output, retained, latest>>,
           run[r].pc # "install"
    PROVE  HostInv'
<1>1. DOMAIN run = Runs
  BY DEF HostInv, CommandsInv
<1>2. CommandsInv'
  BY CommandsStep DEF HostInv
<1>3. UpstreamInv'
  BY DEF HostInv, UpstreamInv
<1>4. \A s \in Runs : run[s].pc = "install" => run'[s] = run[s]
  BY <1>1, StepEffect
<1>5. LatestInv'
  BY <1>4 DEF HostInv, LatestInv
<1>6. QED
  BY <1>2, <1>3, <1>5 DEF HostInv

\* A failure keeps what was moved aside.
LEMMA FailKeeps ==
    ASSUME HostInv, NEW r \in Runs, Fail(r)
    PROVE  HostInv'
<1>1. /\ Step(r, Idle)
      /\ retained' = IF run[r].backup.kind \in {"nothing", "empty"}
                     THEN retained ELSE retained \cup {run[r].backup}
      /\ UNCHANGED <<upstream, source, output, latest>>
  BY DEF Fail, Cleanup, Step
<1>2. DOMAIN run = Runs
  BY DEF HostInv, CommandsInv
<1>3. CommandsInv'
  BY <1>1, CommandsStep DEF HostInv
<1>4. UpstreamInv'
  BY <1>1 DEF HostInv, UpstreamInv
<1>5. LatestInv'
  <2>1. CASE latest = Nothing
    BY <1>1, <2>1 DEF LatestInv
  <2>2. CASE latest # Nothing
    <3>1. Published(latest)
      BY <2>2 DEF HostInv, LatestInv
    <3>2. CASE latest \in retained \cup {output}
      BY <1>1, <3>1, <3>2 DEF LatestInv
    <3>3. ASSUME NEW s \in Runs, run[s].pc = "install",
                 run[s].backup = latest
          PROVE  LatestInv'
      <4>1. CASE s = r
        <5>1. latest \in retained'
          BY <1>1, <3>1, <3>3, <4>1 DEF Published
        <5>2. QED
          BY <1>1, <3>1, <5>1 DEF LatestInv
      <4>2. CASE s # r
        <5>1. run'[s] = run[s]
          BY <1>1, <1>2, <4>2, StepEffect
        <5>2. QED
          BY <1>1, <3>1, <3>3, <5>1 DEF LatestInv
      <4>3. QED
        BY <4>1, <4>2
    <3>4. QED
      BY <2>2, <3>2, <3>3 DEF HostInv, LatestInv
  <2>3. QED
    BY <2>1, <2>2
<1>6. QED
  BY <1>3, <1>4, <1>5 DEF HostInv

-----------------------------------------------------------------------------
(* Planning.                                                               *)

LEMMA StartKeeps ==
    ASSUME HostInv, NEW r \in Runs, NEW invocation \in Invocations,
           Start(r, invocation)
    PROVE  HostInv'
<1> DEFINE q == Begun(invocation)
<1>1. /\ Step(r, q) /\ run[r].pc = "idle"
      /\ UNCHANGED <<upstream, output, retained, latest>>
  BY DEF Start, Step, At, Disk
<1>2. /\ DOMAIN q = Fields /\ q.pc = "uv"
      /\ q.invocation = invocation /\ q.cache = <<>>
  BY DEF Begun, Fields
<1>3. CacheSound(q)
  <2>1. DOMAIN <<>> = {}
    OBVIOUS
  <2>2. QED
    BY <1>2, <2>1 DEF CacheSound
<1> HIDE DEF q
<1>4. CommandInv(q)
  BY <1>2, <1>3 DEF CommandInv, Steps, AfterUv, AfterComfyui, AfterLock,
     Filling, Publishing
<1>5. QED
  BY <1>1, <1>4, QuietStep

\* A step of the planning: what was resolved stays resolved.
LEMMA PlanningStep ==
    ASSUME HostInv, NEW r \in Runs, NEW q, Step(r, q),
           UNCHANGED <<upstream, output, retained, latest>>,
           run[r].pc \in {"uv", "comfyui", "requirements", "admit",
                          "reconcile"},
           DOMAIN q = Fields,
           q.invocation = run[r].invocation, q.existing = run[r].existing,
           q.pc \in {"comfyui", "requirements", "admit", "reconcile",
                     "construct"},
           CacheSound(q),
           Resolved(q, "uv", UvRequest, q.uv),
           q.pc # "comfyui" =>
             /\ Resolved(q, "comfyui", ComfyuiRequest(q.invocation.cfg),
                         q.commit)
             /\ q.invocation.policy = "locked" =>
                  Kept(q.existing, "comfyui",
                       ComfyuiRequest(q.invocation.cfg), "locked"),
           q.pc = "construct" => LockSound(q)
    PROVE  HostInv'
<1>1. CommandInv(run[r])
  BY RunningCommand DEF HostInv
<1>2. CommandInv(q)
  BY <1>1 DEF CommandInv, Steps, AfterUv, AfterComfyui, AfterLock,
     Filling, Publishing
<1>3. QED
  BY <1>2, QuietStep

\* The cache with one more answer.
LEMMA CacheGrows ==
    ASSUME NEW r \in Runs, CacheSound(run[r]), NEW key, NEW request,
           Matches(request, Acquired(r, key, request))
    PROVE  /\ <<key, request>> \in DOMAIN Remembered(r, key, request)
           /\ Remembered(r, key, request)[<<key, request>>] =
                Acquired(r, key, request)
           /\ \A k \in DOMAIN run[r].cache :
                /\ k \in DOMAIN Remembered(r, key, request)
                /\ Remembered(r, key, request)[k] = run[r].cache[k]
           /\ \A k \in DOMAIN Remembered(r, key, request) :
                /\ k = <<k[1], k[2]>>
                /\ Matches(k[2], Remembered(r, key, request)[k])
<1> DEFINE new == <<key, request>>
           cache == Remembered(r, key, request)
<1>1. new = <<new[1], new[2]>> /\ new[2] = request
  OBVIOUS
<1> HIDE DEF new
<1>2. /\ DOMAIN cache = DOMAIN run[r].cache \cup {new}
      /\ \A k \in DOMAIN cache :
           cache[k] = IF k = new THEN Acquired(r, key, request)
                      ELSE run[r].cache[k]
  BY DEF Remembered, new
<1> HIDE DEF cache
<1>3. \A k \in DOMAIN run[r].cache : cache[k] = run[r].cache[k]
  <2>1. new \in DOMAIN run[r].cache =>
          Acquired(r, key, request) = run[r].cache[new]
    BY DEF Acquired, new
  <2>2. QED
    BY <1>2, <2>1
<1>4. \A k \in DOMAIN cache : k = <<k[1], k[2]>> /\ Matches(k[2], cache[k])
  <2> SUFFICES ASSUME NEW k \in DOMAIN cache
               PROVE  k = <<k[1], k[2]>> /\ Matches(k[2], cache[k])
    OBVIOUS
  <2>1. CASE k = new
    BY <1>1, <1>2, <2>1
  <2>2. CASE k # new
    BY <1>2, <2>2 DEF CacheSound
  <2>3. QED
    BY <2>1, <2>2
<1>5. QED
  BY <1>2, <1>3, <1>4 DEF new, cache

\* What was resolved stays so with a larger cache.
LEMMA ResolvedStays ==
    ASSUME NEW c, NEW q, NEW key, NEW request, NEW identity,
           Resolved(c, key, request, identity),
           q.existing = c.existing, q.invocation = c.invocation,
           \A k \in DOMAIN c.cache : k \in DOMAIN q.cache
                                       /\ q.cache[k] = c.cache[k]
    PROVE  Resolved(q, key, request, identity)
BY DEF Resolved

LEMMA ResolveUvKeeps ==
    ASSUME HostInv, NEW r \in Runs, ResolveUv(r)
    PROVE  HostInv'
<1> DEFINE c == run[r]
<1>1. /\ c.pc = "uv" /\ CommandInv(c) /\ CacheSound(c) /\ DOMAIN c = Fields
      /\ UpstreamInv
      /\ UNCHANGED <<upstream, output, retained, latest>>
      /\ Policy(r) = c.invocation.policy
  <2>1. c.pc = "uv"
    BY DEF ResolveUv, At
  <2>2. QED
    BY <2>1, RunningCommand
       DEF HostInv, CommandInv, ResolveUv, Disk, Policy
<1>2. ASSUME Kept(c.existing, "uv", UvRequest, Policy(r)),
             Step(r, [c EXCEPT !.pc = "comfyui",
                               !.uv = c.existing["uv"].result])
      PROVE  HostInv'
  <2> DEFINE q == [c EXCEPT !.pc = "comfyui", !.uv = c.existing["uv"].result]
  <2>1. /\ DOMAIN q = Fields /\ q.pc = "comfyui"
        /\ q.uv = c.existing["uv"].result
        /\ q.invocation = c.invocation /\ q.existing = c.existing
        /\ q.cache = c.cache
    BY <1>1 DEF Fields
  <2>2. Step(r, q)
    BY <1>2
  <2> HIDE DEF q
  <2>3. CacheSound(q) /\ Resolved(q, "uv", UvRequest, q.uv)
    BY <1>1, <1>2, <2>1 DEF CacheSound, Resolved
  <2>4. QED
    BY <1>1, <2>1, <2>2, <2>3, PlanningStep
<1>3. ASSUME ~Kept(c.existing, "uv", UvRequest, Policy(r)),
             Policy(r) = "locked",
             Step(r, [c EXCEPT !.pc = "comfyui", !.uv = Unresolved])
      PROVE  HostInv'
  <2> DEFINE q == [c EXCEPT !.pc = "comfyui", !.uv = Unresolved]
  <2>1. /\ DOMAIN q = Fields /\ q.pc = "comfyui"
        /\ q.invocation = c.invocation /\ q.existing = c.existing
        /\ q.cache = c.cache
    BY <1>1 DEF Fields
  <2>2. Step(r, q)
    BY <1>3
  <2> HIDE DEF q
  <2>3. CacheSound(q) /\ Resolved(q, "uv", UvRequest, q.uv)
    BY <1>1, <1>3, <2>1 DEF CacheSound, Resolved
  <2>4. QED
    BY <1>1, <2>1, <2>2, <2>3, PlanningStep
<1>4. ASSUME Step(r, [c EXCEPT !.pc = "comfyui",
                               !.uv = Acquired(r, "uv", UvRequest),
                               !.cache = Remembered(r, "uv", UvRequest)]),
             ~Kept(c.existing, "uv", UvRequest, Policy(r))
      PROVE  HostInv'
  <2> DEFINE cache == Remembered(r, "uv", UvRequest)
             q == [c EXCEPT !.pc = "comfyui",
                            !.uv = Acquired(r, "uv", UvRequest),
                            !.cache = cache]
  <2>1. /\ DOMAIN q = Fields /\ q.pc = "comfyui"
        /\ q.uv = Acquired(r, "uv", UvRequest)
        /\ q.invocation = c.invocation /\ q.existing = c.existing
        /\ q.cache = cache
    BY <1>1 DEF Fields
  <2>2. Step(r, q)
    BY <1>4
  <2> HIDE DEF q
  <2>3. /\ <<"uv", UvRequest>> \in DOMAIN cache
        /\ cache[<<"uv", UvRequest>>] = Acquired(r, "uv", UvRequest)
        /\ \A k \in DOMAIN cache :
             k = <<k[1], k[2]>> /\ Matches(k[2], cache[k])
    <3>1. "uv" \in MovingKeys
      BY DEF MovingKeys
    <3>2. Matches(UvRequest, Acquired(r, "uv", UvRequest))
      BY <1>1, <3>1, AcquiredMatches
    <3>3. QED
      BY <1>1, <3>2, CacheGrows
  <2> HIDE DEF cache
  <2>4. CacheSound(q)
    BY <2>1, <2>3 DEF CacheSound
  <2>5. Resolved(q, "uv", UvRequest, q.uv)
    BY <1>1, <1>4, <2>1, <2>3 DEF Resolved
  <2>6. QED
    BY <1>1, <2>1, <2>2, <2>4, <2>5, PlanningStep
<1>5. QED
  BY <1>2, <1>3, <1>4 DEF ResolveUv

LEMMA ResolveComfyuiKeeps ==
    ASSUME HostInv, NEW r \in Runs, ResolveComfyui(r)
    PROVE  HostInv'
<1> DEFINE c == run[r]
           cfg == c.invocation.cfg
           request == ComfyuiRequest(cfg)
<1>1. /\ c.pc = "comfyui" /\ CommandInv(c) /\ CacheSound(c)
      /\ DOMAIN c = Fields /\ UpstreamInv
      /\ Resolved(c, "uv", UvRequest, c.uv)
      /\ Policy(r) = c.invocation.policy /\ Cfg(r) = cfg
  <2>1. c.pc = "comfyui"
    BY DEF ResolveComfyui, At
  <2>2. c.pc \in AfterUv
    BY <2>1 DEF AfterUv, Steps
  <2>3. QED
    BY <2>1, <2>2, RunningCommand DEF HostInv, CommandInv, Policy, Cfg
<1>2. ASSUME Kept(c.existing, "comfyui", request, Policy(r)),
             Step(r, [c EXCEPT !.pc = "requirements",
                               !.commit = c.existing["comfyui"].result]),
             UNCHANGED Disk
      PROVE  HostInv'
  <2> DEFINE q == [c EXCEPT !.pc = "requirements",
                            !.commit = c.existing["comfyui"].result]
  <2>1. /\ DOMAIN q = Fields /\ q.pc = "requirements"
        /\ q.commit = c.existing["comfyui"].result
        /\ q.invocation = c.invocation /\ q.existing = c.existing
        /\ q.cache = c.cache /\ q.uv = c.uv
    BY <1>1 DEF Fields
  <2>2. Step(r, q) /\ UNCHANGED <<upstream, output, retained, latest>>
    BY <1>2 DEF Disk
  <2> HIDE DEF q
  <2>3. CacheSound(q) /\ Resolved(q, "uv", UvRequest, q.uv)
    BY <1>1, <2>1 DEF CacheSound, Resolved
  <2>4. /\ Resolved(q, "comfyui", request, q.commit)
        /\ q.invocation.policy = "locked" =>
             Kept(q.existing, "comfyui", request, "locked")
    BY <1>1, <1>2, <2>1 DEF Resolved
  <2>5. q.invocation.cfg = cfg
    BY <2>1
  <2>6. QED
    BY <1>1, <2>1, <2>2, <2>3, <2>4, <2>5, PlanningStep
<1>3. ASSUME ~Kept(c.existing, "comfyui", request, Policy(r)),
             Policy(r) # "locked",
             Step(r, [c EXCEPT !.pc = "requirements",
                               !.commit = Acquired(r, "comfyui", request),
                               !.cache = Remembered(r, "comfyui", request)]),
             UNCHANGED Disk
      PROVE  HostInv'
  <2> DEFINE cache == Remembered(r, "comfyui", request)
             q == [c EXCEPT !.pc = "requirements",
                            !.commit = Acquired(r, "comfyui", request),
                            !.cache = cache]
  <2>1. /\ DOMAIN q = Fields /\ q.pc = "requirements"
        /\ q.commit = Acquired(r, "comfyui", request)
        /\ q.invocation = c.invocation /\ q.existing = c.existing
        /\ q.cache = cache /\ q.uv = c.uv
    BY <1>1 DEF Fields
  <2>2. Step(r, q) /\ UNCHANGED <<upstream, output, retained, latest>>
    BY <1>3 DEF Disk
  <2> HIDE DEF q
  <2>3. /\ <<"comfyui", request>> \in DOMAIN cache
        /\ cache[<<"comfyui", request>>] = Acquired(r, "comfyui", request)
        /\ \A k \in DOMAIN c.cache :
             k \in DOMAIN cache /\ cache[k] = c.cache[k]
        /\ \A k \in DOMAIN cache :
             k = <<k[1], k[2]>> /\ Matches(k[2], cache[k])
    <3>1. "comfyui" \in MovingKeys
      BY DEF MovingKeys
    <3>2. Matches(request, Acquired(r, "comfyui", request))
      BY <1>1, <3>1, AcquiredMatches
    <3>3. QED
      BY <1>1, <3>2, CacheGrows
  <2> HIDE DEF cache
  <2>4. CacheSound(q)
    BY <2>1, <2>3 DEF CacheSound
  <2>5. Resolved(q, "uv", UvRequest, q.uv)
    BY <1>1, <2>1, <2>3, ResolvedStays
  <2>6. /\ Resolved(q, "comfyui", request, q.commit)
        /\ q.invocation.policy # "locked"
    BY <1>1, <1>3, <2>1, <2>3 DEF Resolved
  <2>7. q.invocation.cfg = cfg
    BY <2>1
  <2>8. QED
    BY <1>1, <2>1, <2>2, <2>4, <2>5, <2>6, <2>7, PlanningStep
<1>4. QED
  BY <1>1, <1>2, <1>3, FailKeeps DEF ResolveComfyui

\* What a command knows after its two identities are resolved.
LEMMA AfterResolution ==
    ASSUME HostInv, NEW r \in Runs,
           run[r].pc \in {"requirements", "admit", "reconcile"}
    PROVE  /\ CommandInv(run[r]) /\ CacheSound(run[r])
           /\ DOMAIN run[r] = Fields /\ UpstreamInv
           /\ Resolved(run[r], "uv", UvRequest, run[r].uv)
           /\ Resolved(run[r], "comfyui",
                       ComfyuiRequest(run[r].invocation.cfg), run[r].commit)
           /\ run[r].invocation.policy = "locked" =>
                Kept(run[r].existing, "comfyui",
                     ComfyuiRequest(run[r].invocation.cfg), "locked")
<1>1. CommandInv(run[r])
  BY RunningCommand DEF HostInv
<1>2. run[r].pc \in AfterUv /\ run[r].pc \in AfterComfyui
  BY DEF AfterUv, AfterComfyui, Steps
<1>3. QED
  BY <1>1, <1>2 DEF CommandInv, HostInv

LEMMA ResolveRequirementsKeeps ==
    ASSUME HostInv, NEW r \in Runs, ResolveRequirements(r)
    PROVE  HostInv'
<1> DEFINE c == run[r]
           request == RequirementsRequest(c.commit)
<1>1. c.pc = "requirements"
  BY DEF ResolveRequirements, At
<1>2. /\ CommandInv(c) /\ CacheSound(c) /\ DOMAIN c = Fields /\ UpstreamInv
      /\ Resolved(c, "uv", UvRequest, c.uv)
      /\ Resolved(c, "comfyui", ComfyuiRequest(c.invocation.cfg), c.commit)
      /\ c.invocation.policy = "locked" =>
           Kept(c.existing, "comfyui", ComfyuiRequest(c.invocation.cfg),
                "locked")
  BY <1>1, AfterResolution
<1>3. ASSUME NEW q, Step(r, q), UNCHANGED Disk,
             DOMAIN q = Fields, q.pc = "admit",
             q.invocation = c.invocation, q.existing = c.existing,
             q.uv = c.uv, q.commit = c.commit, CacheSound(q),
             \A k \in DOMAIN c.cache : k \in DOMAIN q.cache
                                         /\ q.cache[k] = c.cache[k]
      PROVE  HostInv'
  <2>1. Resolved(q, "uv", UvRequest, q.uv)
    BY <1>2, <1>3, ResolvedStays
  <2>2. Resolved(q, "comfyui", ComfyuiRequest(q.invocation.cfg), q.commit)
    BY <1>2, <1>3, ResolvedStays
  <2>3. q.invocation.policy = "locked" =>
          Kept(q.existing, "comfyui", ComfyuiRequest(q.invocation.cfg),
               "locked")
    BY <1>2, <1>3
  <2>4. UNCHANGED <<upstream, output, retained, latest>>
    BY <1>3 DEF Disk
  <2>5. QED
    BY <1>1, <1>3, <2>1, <2>2, <2>3, <2>4, PlanningStep
<1>4. CASE Go(r, "admit") /\ UNCHANGED Disk
  <2> DEFINE q == [c EXCEPT !.pc = "admit"]
  <2>1. /\ DOMAIN q = Fields /\ q.pc = "admit" /\ q.cache = c.cache
        /\ q.invocation = c.invocation /\ q.existing = c.existing
        /\ q.uv = c.uv /\ q.commit = c.commit
    BY <1>2 DEF Fields
  <2>2. Step(r, q) /\ UNCHANGED Disk
    BY <1>4 DEF Go
  <2> HIDE DEF q
  <2>3. CacheSound(q)
    BY <1>2, <2>1 DEF CacheSound
  <2>4. QED
    BY <1>3, <2>1, <2>2, <2>3
<1>5. CASE /\ Step(r, [c EXCEPT !.pc = "admit",
                         !.cache = Remembered(r, "requirements", request)])
           /\ UNCHANGED Disk
  <2> DEFINE cache == Remembered(r, "requirements", request)
             q == [c EXCEPT !.pc = "admit", !.cache = cache]
  <2>1. /\ DOMAIN q = Fields /\ q.pc = "admit" /\ q.cache = cache
        /\ q.invocation = c.invocation /\ q.existing = c.existing
        /\ q.uv = c.uv /\ q.commit = c.commit
    BY <1>2 DEF Fields
  <2>2. Step(r, q) /\ UNCHANGED Disk
    BY <1>5
  <2> HIDE DEF q
  <2>3. /\ <<"requirements", request>> \in DOMAIN cache
        /\ cache[<<"requirements", request>>] =
             Acquired(r, "requirements", request)
        /\ \A k \in DOMAIN c.cache :
             k \in DOMAIN cache /\ cache[k] = c.cache[k]
        /\ \A k \in DOMAIN cache :
             k = <<k[1], k[2]>> /\ Matches(k[2], cache[k])
    <3>1. request.selector = "exact"
      BY RequestParts DEF RequirementsRequest
    <3>2. Matches(request, Acquired(r, "requirements", request))
      BY <1>2, <3>1, AcquiredMatches
    <3>3. QED
      BY <1>2, <3>2, CacheGrows
  <2> HIDE DEF cache
  <2>4. CacheSound(q)
    BY <2>1, <2>3 DEF CacheSound
  <2>5. QED
    BY <1>3, <2>1, <2>2, <2>3, <2>4
<1>6. QED
  BY <1>4, <1>5, FailKeeps DEF ResolveRequirements

LEMMA AdmitLocalKeeps ==
    ASSUME HostInv, NEW r \in Runs, AdmitLocal(r)
    PROVE  HostInv'
<1> DEFINE c == run[r]
           q == [c EXCEPT !.pc = "reconcile",
                          !.tree = Admitted(Cfg(r), source)]
<1>1. c.pc = "admit"
  BY DEF AdmitLocal, At
<1>2. /\ CommandInv(c) /\ CacheSound(c) /\ DOMAIN c = Fields
      /\ Resolved(c, "uv", UvRequest, c.uv)
      /\ Resolved(c, "comfyui", ComfyuiRequest(c.invocation.cfg), c.commit)
      /\ c.invocation.policy = "locked" =>
           Kept(c.existing, "comfyui", ComfyuiRequest(c.invocation.cfg),
                "locked")
  BY <1>1, AfterResolution
<1>3. /\ DOMAIN q = Fields /\ q.pc = "reconcile" /\ q.cache = c.cache
      /\ q.invocation = c.invocation /\ q.existing = c.existing
      /\ q.uv = c.uv /\ q.commit = c.commit
  BY <1>2 DEF Fields
<1>4. Step(r, q) /\ UNCHANGED <<upstream, output, retained, latest>>
  BY DEF AdmitLocal, Disk
<1> HIDE DEF q
<1>5. /\ CacheSound(q) /\ Resolved(q, "uv", UvRequest, q.uv)
      /\ Resolved(q, "comfyui", ComfyuiRequest(q.invocation.cfg), q.commit)
  BY <1>2, <1>3 DEF CacheSound, Resolved
<1>6. q.invocation.policy = "locked" =>
          Kept(q.existing, "comfyui", ComfyuiRequest(q.invocation.cfg),
               "locked")
  BY <1>2, <1>3
<1>7. QED
  BY <1>1, <1>3, <1>4, <1>5, <1>6, PlanningStep

LEMMA ReconcileKeeps ==
    ASSUME HostInv, NEW r \in Runs, Reconcile(r)
    PROVE  HostInv'
<1> DEFINE c == run[r]
           graph == RunGraph(r)
           answers == [k \in DOMAIN graph |-> Acquired(r, k, graph[k])]
<1>1. c.pc = "reconcile"
  BY DEF Reconcile, At
<1>2. /\ CommandInv(c) /\ CacheSound(c) /\ DOMAIN c = Fields /\ UpstreamInv
      /\ Resolved(c, "uv", UvRequest, c.uv)
      /\ Resolved(c, "comfyui", ComfyuiRequest(c.invocation.cfg), c.commit)
      /\ c.invocation.policy = "locked" =>
           Kept(c.existing, "comfyui", ComfyuiRequest(c.invocation.cfg),
                "locked")
  BY <1>1, AfterResolution
<1>3. ASSUME NEW lock, Constructible(Cfg(r), graph, lock, c.tree),
             Step(r, [c EXCEPT !.pc = "construct", !.lock = lock]),
             UNCHANGED Disk
      PROVE  HostInv'
  <2> DEFINE q == [c EXCEPT !.pc = "construct", !.lock = lock]
  <2>1. /\ DOMAIN q = Fields /\ q.pc = "construct" /\ q.cache = c.cache
        /\ q.invocation = c.invocation /\ q.existing = c.existing
        /\ q.uv = c.uv /\ q.commit = c.commit
        /\ q.lock = lock /\ q.tree = c.tree
    BY <1>2 DEF Fields
  <2>2. Step(r, q) /\ UNCHANGED <<upstream, output, retained, latest>>
    BY <1>3 DEF Disk
  <2> HIDE DEF q
  <2>3. /\ CacheSound(q) /\ Resolved(q, "uv", UvRequest, q.uv)
        /\ Resolved(q, "comfyui", ComfyuiRequest(q.invocation.cfg), q.commit)
    BY <1>2, <2>1 DEF CacheSound, Resolved
  <2>4. q.invocation.policy = "locked" =>
          Kept(q.existing, "comfyui", ComfyuiRequest(q.invocation.cfg),
               "locked")
    BY <1>2, <2>1
  <2>5. LockSound(q)
    <3>1. q.invocation.cfg = Cfg(r)
          /\ Graph(q.invocation.cfg, q.uv, q.commit) = graph
      BY <2>1 DEF Cfg, RunGraph
    <3>2. QED
      BY <1>3, <2>1, <3>1 DEF LockSound
  <2>6. QED
    BY <1>1, <2>1, <2>2, <2>3, <2>4, <2>5, PlanningStep
<1>4. CASE /\ Policy(r) # "locked"
           /\ Step(r, [c EXCEPT !.pc = "construct",
                          !.lock = Reconciled(graph, c.existing, Policy(r),
                                              answers, RunFixed(r))])
           /\ UNCHANGED Disk
  BY <1>1, <1>2, <1>3, <1>4, ReconciledConstructs
<1>5. CASE /\ Policy(r) = "locked"
           /\ AcceptsLocked(graph, c.existing, RunFixed(r))
           /\ Step(r, [c EXCEPT !.pc = "construct", !.lock = c.existing])
           /\ UNCHANGED Disk
  BY <1>1, <1>2, <1>3, <1>5, AcceptedConstructs
<1>6. QED
  BY <1>4, <1>5, FailKeeps DEF Reconcile

-----------------------------------------------------------------------------
(* The private stage.                                                      *)

\* The fields that are settled once the lock is accepted.
Settled == {"invocation", "existing", "uv", "commit", "cache", "tree", "lock"}

\* A command with an accepted lock keeps it to the end.
LEMMA LaterCommand ==
    ASSUME NEW c, CommandInv(c), c.pc \in AfterLock, NEW q,
           DOMAIN q = Fields, \A f \in Settled : q[f] = c[f],
           q.pc \in AfterLock \ {"construct", "defect"},
           q.pc \in Filling => Filled(q),
           q.pc \in Publishing =>
             q.stage.kind = "context" /\ HoldsPromised(q.stage)
    PROVE  CommandInv(q)
<1>1. /\ q.invocation = c.invocation /\ q.existing = c.existing
      /\ q.uv = c.uv /\ q.commit = c.commit /\ q.cache = c.cache
      /\ q.tree = c.tree /\ q.lock = c.lock
  BY DEF Settled
<1>2. AfterLock \subseteq AfterComfyui /\ AfterComfyui \subseteq AfterUv
  BY DEF AfterLock, AfterComfyui
<1>3. c.pc \in AfterUv /\ c.pc \in AfterComfyui
  BY <1>2
<1>4. q.pc \in Steps \ {"idle", "defect"}
  BY DEF AfterLock, AfterComfyui, AfterUv
<1>5. CacheSound(q) /\ LockSound(q)
  BY <1>1 DEF CommandInv, CacheSound, LockSound
<1>6. /\ Resolved(q, "uv", UvRequest, q.uv)
      /\ Resolved(q, "comfyui", ComfyuiRequest(q.invocation.cfg), q.commit)
      /\ q.invocation.policy = "locked" =>
           Kept(q.existing, "comfyui", ComfyuiRequest(q.invocation.cfg),
                "locked")
  BY <1>1, <1>3 DEF CommandInv, Resolved
<1>7. q.invocation \in Invocations
  BY <1>1 DEF CommandInv
<1>8. QED
  BY <1>4, <1>5, <1>6, <1>7 DEF CommandInv

\* A step after that which leaves the disk alone.
LEMMA LaterStep ==
    ASSUME HostInv, NEW r \in Runs, NEW q, Step(r, q),
           UNCHANGED <<upstream, output, retained, latest>>,
           run[r].pc \in AfterLock \ {"install"},
           DOMAIN q = Fields, \A f \in Settled : q[f] = run[r][f],
           q.pc \in AfterLock \ {"construct", "defect"},
           q.pc \in Filling => Filled(q),
           q.pc \in Publishing =>
             q.stage.kind = "context" /\ HoldsPromised(q.stage)
    PROVE  HostInv'
<1>1. run[r].pc # "idle"
  BY DEF AfterLock, AfterComfyui, AfterUv
<1>2. CommandInv(run[r])
  BY <1>1, RunningCommand DEF HostInv
<1>3. CommandInv(q)
  BY <1>2, LaterCommand
<1>4. QED
  BY <1>3, QuietStep

\* The steps from the accepted lock on.
LEMMA LaterPlaces ==
    /\ {"construct", "write", "revalidate", "copy", "publish", "aside",
        "install", "drop", "check", "compare", "done"} \subseteq AfterLock
    /\ "revalidate" \in Filling /\ "copy" \in Filling
    /\ "publish" \in Publishing /\ "aside" \in Publishing
    /\ "install" \in Publishing
BY DEF AfterLock, AfterComfyui, AfterUv, Steps, Filling, Publishing

\* What such a command knows.
LEMMA LaterFacts ==
    ASSUME HostInv, NEW r \in Runs, run[r].pc \in AfterLock
    PROVE  /\ CommandInv(run[r]) /\ DOMAIN run[r] = Fields
           /\ LockSound(run[r]) /\ run[r].pc # "idle"
           /\ run[r].invocation.cfg \in Configs
           /\ run[r].pc \in Filling => Filled(run[r])
           /\ run[r].pc \in Publishing =>
                run[r].stage.kind = "context" /\ HoldsPromised(run[r].stage)
<1>1. run[r].pc # "idle"
  BY DEF AfterLock, AfterComfyui, AfterUv
<1>2. CommandInv(run[r])
  BY <1>1, RunningCommand DEF HostInv
<1>3. run[r].invocation.cfg \in Configs
  BY <1>2, InvocationsAssumption DEF CommandInv
<1>4. QED
  BY <1>1, <1>2, <1>3 DEF CommandInv

\* A step that changes nothing but the place and the backup.
LEMMA PlaceStep ==
    ASSUME HostInv, NEW r \in Runs, NEW pc, NEW q, Step(r, q),
           UNCHANGED <<upstream, output, retained, latest>>,
           run[r].pc \in AfterLock \ {"install"},
           DOMAIN q = Fields, q.pc = pc,
           \A f \in Fields \ {"pc", "backup"} : q[f] = run[r][f],
           pc \in AfterLock \ {"construct", "defect"},
           pc \in Filling => run[r].pc \in Filling,
           pc \in Publishing => run[r].pc \in Publishing
    PROVE  HostInv'
<1>1. /\ run[r].pc \in Filling => Filled(run[r])
      /\ run[r].pc \in Publishing =>
           run[r].stage.kind = "context" /\ HoldsPromised(run[r].stage)
  BY LaterFacts
<1>2. q.stage = run[r].stage /\ q.tree = run[r].tree
      /\ q.invocation = run[r].invocation
  BY DEF Fields
<1>3. \A f \in Settled : q[f] = run[r][f]
  BY DEF Fields, Settled
<1>4. q.pc \in Filling => Filled(q)
  BY <1>1, <1>2 DEF Filled
<1>5. q.pc \in Publishing =>
        q.stage.kind = "context" /\ HoldsPromised(q.stage)
  BY <1>1, <1>2
<1>6. QED
  BY <1>3, <1>4, <1>5, LaterStep

\* Going to another place.
LEMMA GoKeeps ==
    ASSUME HostInv, NEW r \in Runs, NEW pc, Go(r, pc),
           UNCHANGED <<upstream, output, retained, latest>>,
           run[r].pc \in AfterLock \ {"install"},
           pc \in AfterLock \ {"construct", "defect"},
           pc \in Filling => run[r].pc \in Filling,
           pc \in Publishing => run[r].pc \in Publishing
    PROVE  HostInv'
<1> DEFINE q == [run[r] EXCEPT !.pc = pc]
<1>1. DOMAIN run[r] = Fields
  BY LaterFacts
<1>2. /\ DOMAIN q = Fields /\ q.pc = pc
      /\ \A f \in Fields \ {"pc", "backup"} : q[f] = run[r][f]
  BY <1>1 DEF Fields
<1>3. Step(r, q)
  BY DEF Go
<1> HIDE DEF q
<1>4. QED
  BY <1>2, <1>3, PlaceStep

LEMMA ConstructKeeps ==
    ASSUME HostInv, NEW r \in Runs, Construct(r)
    PROVE  HostInv'
<1>1. run[r].pc = "construct" /\ run[r].pc \in AfterLock \ {"install"}
  BY LaterPlaces DEF Construct, At
<1>2. Constructible(Cfg(r), RunGraph(r), run[r].lock, run[r].tree)
  BY <1>1, LaterFacts DEF LockSound, Cfg, RunGraph
<1>3. /\ Go(r, AfterPlan(r))
      /\ UNCHANGED <<upstream, output, retained, latest>>
  BY <1>2 DEF Construct, Disk
<1>4. AfterPlan(r) \in {"check", "write", "done"}
  BY DEF AfterPlan
<1>5. /\ AfterPlan(r) \in AfterLock \ {"construct", "defect"}
      /\ AfterPlan(r) \notin Filling /\ AfterPlan(r) \notin Publishing
  BY <1>4, LaterPlaces DEF Filling, Publishing
<1>6. QED
  BY <1>1, <1>3, <1>5, GoKeeps

LEMMA BeginStageKeeps ==
    ASSUME HostInv, NEW r \in Runs, BeginStage(r)
    PROVE  HostInv'
<1> DEFINE c == run[r]
           stage == Context(Plan(r), <<>>, NoLock, {})
           q == [c EXCEPT !.pc = "revalidate", !.stage = stage]
<1>1. c.pc = "write" /\ c.pc \in AfterLock \ {"install"}
  BY LaterPlaces DEF BeginStage, At
<1>2. DOMAIN c = Fields
  BY <1>1, LaterFacts
<1>3. CASE Step(r, q) /\ UNCHANGED Disk
  <2>1. /\ DOMAIN q = Fields /\ q.pc = "revalidate" /\ q.stage = stage
        /\ \A f \in Fields \ {"pc", "stage"} : q[f] = c[f]
    BY <1>2 DEF Fields
  <2>2. /\ stage.kind = "context" /\ stage.plan.cfg = c.invocation.cfg
        /\ DOMAIN stage.files = {} /\ DOMAIN stage = ContextFields
    BY DEF Context, Plan, BuildPlan, Cfg, ContextFields
  <2>3. /\ Step(r, q)
        /\ UNCHANGED <<upstream, output, retained, latest>>
    BY <1>3 DEF Disk
  <2> HIDE DEF q, stage
  <2>4. \A f \in Settled : q[f] = c[f]
    BY <2>1 DEF Fields, Settled
  <2>5. Filled(q)
    <3>1. q.invocation = c.invocation
      BY <2>1 DEF Fields
    <3>2. QED
      BY <2>1, <2>2, <3>1 DEF Filled
  <2>6. /\ q.pc \in AfterLock \ {"construct", "defect"}
        /\ q.pc \notin Publishing
    BY <2>1, LaterPlaces DEF Publishing
  <2>7. QED
    BY <1>1, <2>1, <2>3, <2>4, <2>5, <2>6, LaterStep
<1>4. QED
  BY <1>3, FailKeeps DEF BeginStage

LEMMA RevalidateKeeps ==
    ASSUME HostInv, NEW r \in Runs, Revalidate(r)
    PROVE  HostInv'
<1>1. /\ run[r].pc \in AfterLock \ {"install"} /\ run[r].pc \in Filling
      /\ "copy" \in AfterLock \ {"construct", "defect"}
      /\ "copy" \notin Publishing
  BY LaterPlaces DEF Revalidate, At, Publishing
<1>2. CASE Go(r, "copy") /\ UNCHANGED Disk
  <2>1. UNCHANGED <<upstream, output, retained, latest>>
    BY <1>2 DEF Disk
  <2>2. QED
    BY <1>1, <1>2, <2>1, GoKeeps
<1>3. QED
  BY <1>2, FailKeeps DEF Revalidate

\* Naturals have a least member.
LEMMA MinIsMember ==
    ASSUME NEW S, S \subseteq Nat, S # {}
    PROVE  Min(S) \in S
<1> DEFINE Less == OpToRel(<, Nat)
<1>1. IsWellFoundedOn(Less, Nat)
  BY NatLessThanWellFounded, Zenon
<1>2. ASSUME NEW p \in Nat, NEW q \in Nat, <<p, q>> \notin Less
      PROVE  q <= p
  BY <1>2 DEF OpToRel
<1> HIDE DEF Less
<1>3. PICK n \in S : \A m \in S : ~ (<<m, n>> \in Less)
  BY <1>1, WFMin
<1>4. ASSUME NEW m \in S
      PROVE  n <= m
  <2>1. <<m, n>> \notin Less /\ m \in Nat /\ n \in Nat
    BY <1>3
  <2>2. QED
    BY <1>2, <2>1
<1>5. \E x \in S : \A y \in S : x <= y
  BY <1>4
<1>6. QED
  BY <1>5 DEF Min

LEMMA CopyMemberKeeps ==
    ASSUME HostInv, NEW r \in Runs, CopyMember(r)
    PROVE  HostInv'
<1> DEFINE c == run[r]
           m == Min(Uncopied(r))
           files == WithMember(c.stage.files, m)
           stage == [c.stage EXCEPT !.files = files]
           q == [c EXCEPT !.stage = stage]
<1>1. c.pc = "copy" /\ c.pc \in AfterLock \ {"install"} /\ c.pc \in Filling
  BY LaterPlaces DEF CopyMember, At
<1>2. DOMAIN c = Fields /\ Filled(c)
  BY <1>1, LaterFacts
<1>3. ASSUME Copies(r, m), Step(r, q), UNCHANGED Disk
      PROVE  HostInv'
  <2>1. m \in Present(c.tree)
    <3>1. Uncopied(r) \subseteq Nat /\ Uncopied(r) # {}
      BY MembersAssumption DEF CopyMember, Uncopied, Present
    <3>2. m \in Uncopied(r)
      BY <3>1, MinIsMember
    <3>3. QED
      BY <3>2 DEF Uncopied
  <2>2. DOMAIN files = DOMAIN c.stage.files \cup {m}
        /\ \A n \in DOMAIN files :
             files[n] = IF n = m THEN source[m] ELSE c.stage.files[n]
    BY DEF WithMember
  <2>3. /\ DOMAIN stage = ContextFields /\ stage.files = files
        /\ stage.kind = "context" /\ stage.plan = c.stage.plan
    BY <1>2 DEF Filled, ContextFields
  <2>4. /\ DOMAIN q = Fields /\ q.pc = c.pc /\ q.stage = stage
        /\ \A f \in Fields \ {"stage"} : q[f] = c[f]
    BY <1>2 DEF Fields
  <2>5. /\ Step(r, q)
        /\ UNCHANGED <<upstream, output, retained, latest>>
    BY <1>3 DEF Disk
  <2>6. c.invocation.cfg.contentLock => source[m] = c.tree[m]
    BY <1>3 DEF Copies, Cfg
  <2> HIDE DEF q, stage, files, m
  <2>7. \A f \in Settled : q[f] = c[f]
    BY <2>4 DEF Fields, Settled
  <2>8. Filled(q)
    <3>1. q.invocation = c.invocation /\ q.tree = c.tree
      BY <2>4 DEF Fields
    <3>2. DOMAIN files \subseteq Present(c.tree)
      BY <1>2, <2>1, <2>2 DEF Filled
    <3>3. c.invocation.cfg.contentLock =>
            \A n \in DOMAIN files : files[n] = c.tree[n]
      BY <1>2, <2>2, <2>6 DEF Filled
    <3>4. c.stage.plan.cfg = c.invocation.cfg
      BY <1>2 DEF Filled
    <3>5. QED
      BY <2>3, <2>4, <3>1, <3>2, <3>3, <3>4 DEF Filled
  <2>9. /\ q.pc \in AfterLock \ {"construct", "defect"}
        /\ q.pc \notin Publishing
    BY <1>1, <2>4 DEF Publishing
  <2>10. QED
    BY <1>1, <2>4, <2>5, <2>7, <2>8, <2>9, LaterStep
<1>4. QED
  <2>1. [c EXCEPT !.stage.files = WithMember(@, m)] = q
    OBVIOUS
  <2>2. QED
    BY <1>3, <2>1, FailKeeps DEF CopyMember

LEMMA CompleteStageKeeps ==
    ASSUME HostInv, NEW r \in Runs, CompleteStage(r)
    PROVE  HostInv'
<1> DEFINE c == run[r]
           stage == [[c.stage EXCEPT !.lock = c.lock]
                       EXCEPT !.metadata = AllMetadata]
           q == [c EXCEPT !.pc = "publish", !.stage = stage]
<1>1. /\ c.pc = "copy" /\ c.pc \in AfterLock \ {"install"}
      /\ c.pc \in Filling /\ Uncopied(r) = {}
  BY LaterPlaces DEF CompleteStage, At
<1>2. DOMAIN c = Fields /\ Filled(c) /\ LockSound(c)
  BY <1>1, LaterFacts
<1>3. ASSUME Step(r, q), UNCHANGED Disk
      PROVE  HostInv'
  <2>1. /\ stage.files = c.stage.files /\ stage.lock = c.lock
        /\ stage.kind = "context" /\ stage.plan = c.stage.plan
    BY <1>2 DEF Filled, ContextFields
  <2>2. /\ DOMAIN q = Fields /\ q.pc = "publish" /\ q.stage = stage
        /\ \A f \in Fields \ {"pc", "stage"} : q[f] = c[f]
    BY <1>2 DEF Fields
  <2>3. /\ Step(r, q)
        /\ UNCHANGED <<upstream, output, retained, latest>>
    BY <1>3 DEF Disk
  <2> HIDE DEF q, stage
  <2>4. \A f \in Settled : q[f] = c[f]
    BY <2>2 DEF Fields, Settled
  <2>5. HoldsPromised(stage)
    <3>1. DOMAIN c.stage.files = Present(c.tree)
      BY <1>1, <1>2 DEF Filled, Uncopied
    <3>2. ASSUME c.invocation.cfg.contentLock, NEW m \in Members
          PROVE  c.lock["tree"].result[m]
                   = IF m \in DOMAIN c.stage.files THEN c.stage.files[m]
                     ELSE Absent
      <4>1. c.lock["tree"].result = c.tree
        BY <1>2, <3>2 DEF LockSound, Constructible, RowIsFresh
      <4>2. CASE m \in Present(c.tree)
        BY <1>2, <3>1, <3>2, <4>1, <4>2 DEF Filled
      <4>3. CASE m \notin Present(c.tree)
        BY <3>1, <4>1, <4>3 DEF Present
      <4>4. QED
        BY <4>2, <4>3
    <3>3. stage.plan.cfg = c.invocation.cfg
      BY <1>2, <2>1 DEF Filled
    <3>4. SUFFICES ASSUME stage.plan.cfg.contentLock, NEW m \in Members
                   PROVE  stage.lock["tree"].result[m]
                            = IF m \in DOMAIN stage.files
                              THEN stage.files[m] ELSE Absent
      BY DEF HoldsPromised
    <3>5. QED
      BY <2>1, <3>2, <3>3, <3>4
  <2>6. /\ q.pc \in AfterLock \ {"construct", "defect"}
        /\ q.pc \notin Filling
    BY <2>2, LaterPlaces DEF Filling
  <2>7. q.stage.kind = "context" /\ HoldsPromised(q.stage)
    BY <2>1, <2>2, <2>5
  <2>8. QED
    BY <1>1, <2>2, <2>3, <2>4, <2>6, <2>7, LaterStep
<1>4. QED
  <2>1. [c EXCEPT !.pc = "publish", !.stage.lock = c.lock,
                  !.stage.metadata = AllMetadata] = q
    BY <1>2 DEF Fields
  <2>2. QED
    BY <1>3, <2>1, FailKeeps DEF CompleteStage

-----------------------------------------------------------------------------
(* Publication.                                                            *)

LEMMA PublishKeeps ==
    ASSUME HostInv, NEW r \in Runs, Publish(r)
    PROVE  HostInv'
<1> DEFINE c == run[r]
           q == [c EXCEPT !.pc = "aside", !.backup = Empty]
<1>1. c.pc = "publish" /\ c.pc \in AfterLock \ {"install"}
      /\ c.pc \in Publishing
      /\ {"aside", "install"} \subseteq AfterLock \ {"construct", "defect"}
      /\ "aside" \notin Filling /\ "install" \notin Filling
      /\ UNCHANGED <<upstream, output, retained, latest>>
  BY LaterPlaces DEF Publish, At, Disk, Filling
<1>2. CASE Go(r, "install")
  BY <1>1, <1>2, GoKeeps
<1>3. CASE Step(r, q)
  <2>1. /\ DOMAIN q = Fields /\ q.pc = "aside"
        /\ \A f \in Fields \ {"pc", "backup"} : q[f] = c[f]
    BY <1>1, LaterFacts DEF Fields
  <2> HIDE DEF q
  <2>2. QED
    BY <1>1, <1>3, <2>1, PlaceStep
<1>4. QED
  BY <1>2, <1>3 DEF Publish

LEMMA MoveAsideKeeps ==
    ASSUME HostInv, NEW r \in Runs, MoveAside(r)
    PROVE  HostInv'
<1> DEFINE c == run[r]
           q == [c EXCEPT !.pc = "install", !.backup = output]
<1>1. c.pc = "aside" /\ c.pc \in AfterLock /\ c.pc \in Publishing
  BY LaterPlaces DEF MoveAside, At
<1>2. /\ CommandInv(c) /\ DOMAIN c = Fields
      /\ c.stage.kind = "context" /\ HoldsPromised(c.stage)
  BY <1>1, LaterFacts
<1>3. ASSUME output # Nothing, Step(r, q), output' = Nothing,
             UNCHANGED <<upstream, source, retained, latest>>
      PROVE  HostInv'
  <2>1. /\ DOMAIN q = Fields /\ q.pc = "install" /\ q.backup = output
        /\ \A f \in Fields \ {"pc", "backup"} : q[f] = c[f]
    BY <1>2 DEF Fields
  <2>2. Step(r, q)
    BY <1>3
  <2> HIDE DEF q
  <2>3. CommandInv(q)
    <3>1. \A f \in Settled : q[f] = c[f]
      BY <2>1 DEF Fields, Settled
    <3>2. q.stage = c.stage
      BY <2>1 DEF Fields
    <3>3. /\ q.pc \in AfterLock \ {"construct", "defect"}
          /\ q.pc \notin Filling
      BY <2>1, LaterPlaces DEF Filling
    <3>4. QED
      BY <1>1, <1>2, <2>1, <3>1, <3>2, <3>3, LaterCommand
  <2>4. CommandsInv'
    BY <2>2, <2>3, CommandsStep DEF HostInv
  <2>5. UpstreamInv'
    BY <1>3 DEF HostInv, UpstreamInv
  <2>6. LatestInv'
    <3>1. \/ latest = Nothing
          \/ Published(latest)
      BY DEF HostInv, LatestInv
    <3>2. run'[r] = q /\ \A s \in Runs \ {r} : run'[s] = run[s]
      BY <2>2, StepEffect DEF HostInv, CommandsInv
    <3>3. \/ latest = Nothing
          \/ latest \in retained
          \/ latest = output
          \/ \E s \in Runs \ {r} : run[s].pc = "install"
                                     /\ run[s].backup = latest
      BY <1>1 DEF HostInv, LatestInv
    <3>4. \/ latest = Nothing
          \/ latest \in retained
          \/ \E s \in Runs : run'[s].pc = "install"
                               /\ run'[s].backup = latest
      BY <2>1, <3>2, <3>3
    <3>5. QED
      BY <1>3, <3>1, <3>4 DEF LatestInv
  <2>7. QED
    BY <2>4, <2>5, <2>6 DEF HostInv
<1>4. QED
  BY <1>3, FailKeeps DEF MoveAside

LEMMA InstallKeeps ==
    ASSUME HostInv, NEW r \in Runs, Install(r)
    PROVE  HostInv'
<1> DEFINE c == run[r]
           pc == IF c.backup = Nothing THEN "done" ELSE "drop"
           q == [c EXCEPT !.stage = Nothing, !.pc = pc]
<1>1. c.pc = "install" /\ c.pc \in AfterLock /\ c.pc \in Publishing
  BY LaterPlaces DEF Install, At
<1>2. /\ CommandInv(c) /\ DOMAIN c = Fields
      /\ c.stage.kind = "context" /\ HoldsPromised(c.stage)
  BY <1>1, LaterFacts
<1>3. ASSUME output' = c.stage, latest' = c.stage, Step(r, q),
             UNCHANGED <<upstream, source, retained>>
      PROVE  HostInv'
  <2>1. /\ DOMAIN q = Fields /\ q.pc \in {"done", "drop"}
        /\ \A f \in Fields \ {"pc", "stage"} : q[f] = c[f]
    BY <1>2 DEF Fields
  <2>2. Step(r, q)
    BY <1>3
  <2> HIDE DEF q
  <2>3. CommandInv(q)
    <3>1. \A f \in Settled : q[f] = c[f]
      BY <2>1 DEF Fields, Settled
    <3>2. /\ q.pc \in AfterLock \ {"construct", "defect"}
          /\ q.pc \notin Filling /\ q.pc \notin Publishing
      BY <2>1, LaterPlaces DEF Filling, Publishing
    <3>3. QED
      BY <1>1, <1>2, <2>1, <3>1, <3>2, LaterCommand
  <2>4. CommandsInv'
    BY <2>2, <2>3, CommandsStep DEF HostInv
  <2>5. UpstreamInv'
    BY <1>3 DEF HostInv, UpstreamInv
  <2>6. LatestInv'
    <3>1. Published(latest')
      BY <1>2, <1>3 DEF Published
    <3>2. latest' \in retained' \cup {output'}
      BY <1>3
    <3>3. QED
      BY <3>1, <3>2 DEF LatestInv
  <2>7. QED
    BY <2>4, <2>5, <2>6 DEF HostInv
<1>4. QED
  BY <1>3, FailKeeps DEF Install

LEMMA DropBackupKeeps ==
    ASSUME HostInv, NEW r \in Runs, DropBackup(r)
    PROVE  HostInv'
<1> DEFINE q == [run[r] EXCEPT !.pc = "done", !.backup = Nothing]
<1>1. /\ run[r].pc \in AfterLock \ {"install"} /\ Step(r, q)
      /\ "done" \in AfterLock \ {"construct", "defect"}
      /\ "done" \notin Filling /\ "done" \notin Publishing
      /\ UNCHANGED <<upstream, output, retained, latest>>
  BY LaterPlaces DEF DropBackup, At, Disk, Filling, Publishing
<1>2. /\ DOMAIN q = Fields /\ q.pc = "done"
      /\ \A f \in Fields \ {"pc", "backup"} : q[f] = run[r][f]
  BY <1>1, LaterFacts DEF Fields
<1> HIDE DEF q
<1>3. QED
  BY <1>1, <1>2, PlaceStep

-----------------------------------------------------------------------------
(* Checks, ends and faults.                                                *)

LEMMA CheckTreeKeeps ==
    ASSUME HostInv, NEW r \in Runs, CheckTree(r)
    PROVE  HostInv'
<1>1. /\ run[r].pc \in AfterLock \ {"install"}
      /\ "compare" \in AfterLock \ {"construct", "defect"}
      /\ "compare" \notin Filling /\ "compare" \notin Publishing
  BY LaterPlaces DEF CheckTree, At, Filling, Publishing
<1>2. CASE Go(r, "compare") /\ UNCHANGED Disk
  <2>1. UNCHANGED <<upstream, output, retained, latest>>
    BY <1>2 DEF Disk
  <2>2. QED
    BY <1>1, <1>2, <2>1, GoKeeps
<1>3. QED
  BY <1>2, FailKeeps DEF CheckTree

LEMMA CompareFilesKeeps ==
    ASSUME HostInv, NEW r \in Runs, CompareFiles(r)
    PROVE  HostInv'
<1>1. /\ run[r].pc \in AfterLock \ {"install"}
      /\ "done" \in AfterLock \ {"construct", "defect"}
      /\ "done" \notin Filling /\ "done" \notin Publishing
  BY LaterPlaces DEF CompareFiles, At, Filling, Publishing
<1>2. CASE Go(r, "done") /\ UNCHANGED Disk
  <2>1. UNCHANGED <<upstream, output, retained, latest>>
    BY <1>2 DEF Disk
  <2>2. QED
    BY <1>1, <1>2, <2>1, GoKeeps
<1>3. QED
  BY <1>2, FailKeeps DEF CompareFiles

LEMMA FinishKeeps ==
    ASSUME HostInv, NEW r \in Runs, Finish(r)
    PROVE  HostInv'
<1>1. /\ Step(r, Idle) /\ run[r].pc # "install"
      /\ UNCHANGED <<upstream, output, retained, latest>>
  BY DEF Finish, Step, At, Disk
<1>2. QED
  BY <1>1, QuietStep

\* The previous context is restored, or the new one has been installed.
LEMMA AbortKeeps ==
    ASSUME HostInv, NEW r \in Runs, Abort(r)
    PROVE  HostInv'
<1>1. DOMAIN run = Runs
  BY DEF HostInv, CommandsInv
<1>2. ASSUME At(r, "install"), run[r].backup # Nothing, output = Nothing,
             output' = run[r].backup, run' = [run EXCEPT ![r] = Idle],
             UNCHANGED <<upstream, source, retained, latest>>
      PROVE  HostInv'
  <2>1. Step(r, Idle)
    BY <1>2 DEF Step
  <2>2. CommandsInv'
    BY <2>1, CommandsStep DEF HostInv
  <2>3. UpstreamInv'
    BY <1>2 DEF HostInv, UpstreamInv
  <2>4. LatestInv'
    <3>1. \A s \in Runs \ {r} : run'[s] = run[s]
      BY <1>1, <2>1, StepEffect
    <3>2. \/ latest = Nothing
          \/ latest \in retained
          \/ latest = run[r].backup
          \/ \E s \in Runs \ {r} : run[s].pc = "install"
                                     /\ run[s].backup = latest
      BY <1>2 DEF HostInv, LatestInv
    <3>3. \/ latest = Nothing
          \/ latest \in retained \cup {output'}
          \/ \E s \in Runs : run'[s].pc = "install"
                               /\ run'[s].backup = latest
      BY <1>2, <3>1, <3>2
    <3>4. \/ latest = Nothing
          \/ Published(latest)
      BY DEF HostInv, LatestInv
    <3>5. QED
      BY <1>2, <3>3, <3>4 DEF LatestInv
  <2>5. QED
    BY <2>2, <2>3, <2>4 DEF HostInv
<1>3. ASSUME At(r, "drop"), run' = [run EXCEPT ![r] = Idle], UNCHANGED Disk
      PROVE  HostInv'
  <2>1. /\ Step(r, Idle) /\ run[r].pc # "install"
        /\ UNCHANGED <<upstream, output, retained, latest>>
    BY <1>3 DEF Step, At, Disk
  <2>2. QED
    BY <2>1, QuietStep
<1>4. QED
  BY <1>2, <1>3, FailKeeps DEF Abort

LEMMA UpstreamMovesKeeps ==
    ASSUME HostInv, NEW key \in MovingKeys, UpstreamMoves(key)
    PROVE  HostInv'
<1>1. /\ upstream' = [upstream EXCEPT ![key] = upstream[key] + 1]
      /\ UNCHANGED <<run, output, retained, latest>>
  BY DEF UpstreamMoves
<1>2. UpstreamInv'
  BY <1>1 DEF HostInv, UpstreamInv
<1>3. CommandsInv'
  BY <1>1 DEF HostInv, CommandsInv
<1>4. LatestInv'
  BY <1>1 DEF HostInv, LatestInv
<1>5. QED
  BY <1>2, <1>3, <1>4 DEF HostInv

\* A step that touches nothing the invariant speaks of.
LEMMA StutterKeeps ==
    ASSUME HostInv, UNCHANGED <<run, upstream, output, retained, latest>>
    PROVE  HostInv'
<1>1. CommandsInv'
  BY DEF HostInv, CommandsInv
<1>2. UpstreamInv'
  BY DEF HostInv, UpstreamInv
<1>3. LatestInv'
  BY DEF HostInv, LatestInv
<1>4. QED
  BY <1>1, <1>2, <1>3 DEF HostInv

-----------------------------------------------------------------------------
(* Every step.                                                             *)

LEMMA InitHolds ==
    ASSUME Init
    PROVE  HostInv
<1>1. CommandsInv
  BY DEF Init, CommandsInv
<1>2. UpstreamInv
  BY DEF Init, UpstreamInv
<1>3. LatestInv
  <2>1. CASE output.kind = "context"
    <3>1. latest = output /\ Published(output)
      BY <2>1 DEF Init, Published
    <3>2. QED
      BY <2>1, <3>1 DEF LatestInv
  <2>2. CASE output.kind # "context"
    BY <2>2 DEF Init, LatestInv
  <2>3. QED
    BY <2>1, <2>2
<1>4. QED
  BY <1>1, <1>2, <1>3 DEF HostInv

LEMMA StepKeeps ==
    ASSUME HostInv, [Next]_vars
    PROVE  HostInv'
<1>1. CASE UNCHANGED vars
  BY <1>1, StutterKeeps DEF vars
<1>2. ASSUME NEW r \in Runs, NEW invocation \in Invocations,
             Start(r, invocation)
      PROVE  HostInv'
  BY <1>2, StartKeeps
<1>3. ASSUME NEW r \in Runs,
             \/ ResolveUv(r) \/ ResolveComfyui(r) \/ ResolveRequirements(r)
             \/ AdmitLocal(r) \/ Reconcile(r) \/ Construct(r)
      PROVE  HostInv'
  BY <1>3, ResolveUvKeeps, ResolveComfyuiKeeps, ResolveRequirementsKeeps,
     AdmitLocalKeeps, ReconcileKeeps, ConstructKeeps
<1>4. ASSUME NEW r \in Runs,
             \/ BeginStage(r) \/ Revalidate(r) \/ CopyMember(r)
             \/ CompleteStage(r) \/ Publish(r) \/ MoveAside(r) \/ Install(r)
             \/ DropBackup(r)
      PROVE  HostInv'
  BY <1>4, BeginStageKeeps, RevalidateKeeps, CopyMemberKeeps,
     CompleteStageKeeps, PublishKeeps, MoveAsideKeeps, InstallKeeps,
     DropBackupKeeps
<1>5. ASSUME NEW r \in Runs,
             CheckTree(r) \/ CompareFiles(r) \/ Finish(r) \/ Abort(r)
      PROVE  HostInv'
  BY <1>5, CheckTreeKeeps, CompareFilesKeeps, FinishKeeps, AbortKeeps
<1>6. CASE \E key \in MovingKeys : UpstreamMoves(key)
  BY <1>6, UpstreamMovesKeeps
<1>7. CASE \E m \in Members, content \in Contents \cup {Absent} :
             EditSource(m, content)
  BY <1>7, StutterKeeps DEF EditSource
<1>8. QED
  BY <1>1, <1>2, <1>3, <1>4, <1>5, <1>6, <1>7 DEF Next

\* Every command that runs, the versions published and the context published
\* last are as described (prepare_render_context, _write_context).
THEOREM InvariantHolds == Spec => []HostInv
<1>1. Init => HostInv
  BY InitHolds
<1>2. HostInv /\ [Next]_vars => HostInv'
  BY StepKeeps
<1>3. QED
  BY <1>1, <1>2, PTL DEF Spec

\* PlanIsConstructed, for any configurations, locks and publications: the
\* lock a command accepts is one construct_build_plan takes.
THEOREM PlansAreConstructed == Spec => []PlanIsConstructed
<1>1. HostInv => PlanIsConstructed
  BY IdleFacts DEF HostInv, CommandsInv, CommandInv, PlanIsConstructed
<1>2. QED
  BY <1>1, InvariantHolds, PTL

\* LatestKept, for any number of commands, failures and kills: the context
\* published last is at the output or in a directory nobody removes
\* (_write_context, _cleanup_empty_backup_root).
THEOREM LatestIsKept == Spec => []LatestKept
<1>1. HostInv => LatestKept
  <2> SUFFICES ASSUME HostInv
               PROVE  LatestKept
    OBVIOUS
  <2>1. CASE latest = Nothing \/ latest \in retained \cup {output}
    BY <2>1 DEF LatestKept
  <2>2. ASSUME NEW r \in Runs, run[r].pc = "install", run[r].backup = latest
        PROVE  LatestKept
    <3>1. r \in {s \in Runs : ~At(s, "idle")}
      BY <2>2 DEF At
    <3>2. latest \in {run[s].backup : s \in {s \in Runs : ~At(s, "idle")}}
      BY <2>2, <3>1
    <3>3. QED
      BY <3>2 DEF LatestKept
  <2>3. QED
    BY <2>1, <2>2 DEF HostInv, LatestInv
<1>2. QED
  BY <1>1, InvariantHolds, PTL

\* PublishedMatchesLock, for any tree, edited at any moment: a published
\* context holds the contents its lock promises (_materialize_local_tree).
THEOREM PublishedHoldsPromised == Spec => []PublishedMatchesLock
<1>1. HostInv => PublishedMatchesLock
  BY IdleFacts DEF HostInv, LatestInv, Published, PublishedMatchesLock
<1>2. QED
  BY <1>1, InvariantHolds, PTL

-----------------------------------------------------------------------------
(* Types.                                                                  *)

KindsDiffer == /\ Nothing.kind = "nothing" /\ Empty.kind = "empty"
               /\ Foreign.kind = "foreign"

LEMMA Kinds == KindsDiffer
BY DEF KindsDiffer, Nothing, Empty, Foreign

\* What a running command holds is typed.
LEMMA TypedCommand ==
    ASSUME HostInv, TypeOK, NEW r \in Runs, run[r].pc # "idle"
    PROVE  /\ IsCommand(run[r]) /\ CommandInv(run[r])
           /\ DOMAIN run[r] = Fields
           /\ Cfg(r) \in Configs
<1>1. CommandInv(run[r])
  BY RunningCommand DEF HostInv
<1>2. IsCommand(run[r])
  BY IdleFacts DEF TypeOK
<1>3. Cfg(r) \in Configs
  BY <1>1, InvocationsAssumption DEF CommandInv, Cfg
<1>4. QED
  BY <1>1, <1>2, <1>3 DEF CommandInv

\* A step that leaves everything outside the command as typed as it was.
LEMMA TypedStep ==
    ASSUME HostInv, TypeOK, NEW r \in Runs, NEW q, Step(r, q),
           q = Idle \/ IsCommand(q),
           UNCHANGED <<upstream, source>>,
           \A d \in retained' \cup {output', latest'} : Complete(d)
    PROVE  TypeOK'
<1>1. /\ DOMAIN run' = Runs /\ run'[r] = q
      /\ \A s \in Runs \ {r} : run'[s] = run[s]
  BY StepEffect DEF HostInv, CommandsInv
<1>2. \A s \in Runs : run'[s] = Idle \/ IsCommand(run'[s])
  BY <1>1 DEF TypeOK
<1>3. QED
  BY <1>2 DEF TypeOK

LEMMA TypedQuietStep ==
    ASSUME HostInv, TypeOK, NEW r \in Runs, NEW q, Step(r, q),
           q = Idle \/ IsCommand(q), UNCHANGED Disk
    PROVE  TypeOK'
<1>1. /\ UNCHANGED <<upstream, source>>
      /\ retained' = retained /\ output' = output /\ latest' = latest
  BY DEF Disk
<1>2. \A d \in retained' \cup {output', latest'} : Complete(d)
  BY <1>1 DEF TypeOK
<1>3. QED
  BY <1>1, <1>2, TypedStep

LEMMA TypedFailure ==
    ASSUME HostInv, TypeOK, NEW r \in Runs, run[r].pc # "idle", Fail(r)
    PROVE  TypeOK'
<1>1. /\ Step(r, Idle)
      /\ retained' = IF run[r].backup.kind \in {"nothing", "empty"}
                     THEN retained ELSE retained \cup {run[r].backup}
      /\ UNCHANGED <<upstream, source, output, latest>>
  BY DEF Fail, Cleanup, Step
<1>2. IsCommand(run[r])
  BY TypedCommand
<1>3. run[r].backup.kind \notin {"nothing", "empty"} =>
        Complete(run[r].backup)
  BY <1>2, Kinds DEF IsCommand, KindsDiffer
<1>4. \A d \in retained' \cup {output', latest'} : Complete(d)
  BY <1>1, <1>3 DEF TypeOK
<1>5. QED
  BY <1>1, <1>4, TypedStep

\* Going to a place where nothing more is asked of the command.
LEMMA TypedGo ==
    ASSUME HostInv, TypeOK, NEW r \in Runs, run[r].pc # "idle",
           run[r].pc # "aside", NEW pc, Go(r, pc), pc \in Steps,
           pc # "aside",
           pc \in {"publish", "install"} => IsContext(run[r].stage),
           UNCHANGED Disk
    PROVE  TypeOK'
<1> DEFINE c == run[r]
           q == [c EXCEPT !.pc = pc]
<1>1. IsCommand(c) /\ DOMAIN c = Fields
  BY TypedCommand
<1>2. Step(r, q)
  BY DEF Go
<1>3. q.pc = pc /\ \A f \in Fields \ {"pc"} : q[f] = c[f]
  BY <1>1 DEF Fields
<1>4. /\ q.invocation = c.invocation /\ q.uv = c.uv /\ q.commit = c.commit
      /\ q.tree = c.tree /\ q.cache = c.cache /\ q.existing = c.existing
      /\ q.lock = c.lock /\ q.stage = c.stage /\ q.backup = c.backup
  BY <1>3 DEF Fields
<1> HIDE DEF q
<1>5. IsCommand(q)
  BY <1>1, <1>3, <1>4 DEF IsCommand
<1>6. QED
  BY <1>2, <1>5, TypedQuietStep

-----------------------------------------------------------------------------
(* The types of planning.                                                  *)

LEMMA TypedStart ==
    ASSUME HostInv, TypeOK, NEW r \in Runs, NEW invocation \in Invocations,
           Start(r, invocation)
    PROVE  TypeOK'
<1> DEFINE q == Begun(invocation)
<1>1. Step(r, q) /\ UNCHANGED Disk
  BY DEF Start, Step
<1>2. /\ q.pc = "uv" /\ q.invocation = invocation /\ q.cache = <<>>
      /\ q.uv = 0 /\ q.commit = 0 /\ q.lock = NoLock
      /\ q.tree = [m \in Members |-> Absent]
      /\ q.existing = IF output.kind = "context" THEN output.lock ELSE NoLock
      /\ q.stage = Nothing /\ q.backup = Nothing
  BY DEF Begun, Unresolved, Pinned
<1>3. DOMAIN q.cache = {}
  BY <1>2
<1>4. q.tree \in Trees
  BY <1>2 DEF Trees
<1>5. q.existing = NoLock \/ IsLock(q.existing)
  BY <1>2, Kinds DEF TypeOK, Complete, IsContext, KindsDiffer
<1> HIDE DEF q
<1>6. IsCommand(q)
  BY <1>2, <1>3, <1>4, <1>5 DEF IsCommand, Steps, Complete
<1>7. QED
  BY <1>1, <1>6, TypedQuietStep

\* A provider names versions by numbers.
LEMMA TypedAnswers ==
    ASSUME HostInv, TypeOK, NEW r \in Runs, run[r].pc # "idle", NEW key,
           NEW request,
           request.selector = "exact" => Head(request.deps) \in Nat
    PROVE  /\ Acquired(r, key, request) \in Nat
           /\ \A k \in DOMAIN Remembered(r, key, request) :
                Remembered(r, key, request)[k] \in Nat
<1>1. \A k \in DOMAIN run[r].cache : run[r].cache[k] \in Nat
  BY TypedCommand DEF IsCommand
<1>2. (IF key \in MovingKeys THEN upstream[key] ELSE Pinned) \in Nat
  BY DEF TypeOK, Pinned
<1>3. \A v \in Nat : Provided(request, v) \in Nat
  BY DEF Provided, Selected, Pinned
<1>4. Acquired(r, key, request) \in Nat
  BY <1>1, <1>2, <1>3 DEF Acquired
<1>5. QED
  BY <1>1, <1>4 DEF Remembered

\* What is kept of a lock is one of its entries.
LEMMA KeptIsTyped ==
    ASSUME HostInv, TypeOK, NEW r \in Runs, run[r].pc # "idle",
           NEW key, key # "tree", NEW request, NEW policy,
           Kept(run[r].existing, key, request, policy)
    PROVE  run[r].existing[key].result \in Nat
<1>1. key \in DOMAIN run[r].existing
  BY DEF Kept, Satisfies
<1>2. DOMAIN NoLock = {}
  BY DEF NoLock
<1>3. IsLock(run[r].existing)
  BY <1>1, <1>2, TypedCommand DEF IsCommand
<1>4. QED
  BY <1>1, <1>3 DEF IsLock

\* A step of the resolution.
LEMMA TypedResolution ==
    ASSUME HostInv, TypeOK, NEW r \in Runs,
           run[r].pc \in {"uv", "comfyui", "requirements"},
           NEW q, Step(r, q), UNCHANGED Disk,
           q.pc \in {"comfyui", "requirements", "admit"},
           q.uv \in Nat, q.commit \in Nat,
           \A k \in DOMAIN q.cache : q.cache[k] \in Nat,
           \A f \in {"invocation", "existing", "tree", "lock", "stage",
                     "backup"} : q[f] = run[r][f]
    PROVE  TypeOK'
<1>1. IsCommand(run[r])
  BY TypedCommand
<1>2. IsCommand(q)
  BY <1>1 DEF IsCommand, Steps
<1>3. QED
  BY <1>2, TypedQuietStep

LEMMA TypedResolveUv ==
    ASSUME HostInv, TypeOK, NEW r \in Runs, ResolveUv(r)
    PROVE  TypeOK'
<1> DEFINE c == run[r]
           Others == {"invocation", "existing", "tree", "lock", "stage",
                      "backup"}
<1>1. c.pc = "uv" /\ IsCommand(c) /\ DOMAIN c = Fields
  BY TypedCommand DEF ResolveUv, At
<1>2. UvRequest.selector # "exact"
  BY DEF UvRequest, Request
<1>3. ASSUME NEW uv \in Nat,
             Step(r, [c EXCEPT !.pc = "comfyui", !.uv = uv]), UNCHANGED Disk
      PROVE  TypeOK'
  <2> DEFINE q == [c EXCEPT !.pc = "comfyui", !.uv = uv]
  <2>1. /\ q.pc = "comfyui" /\ q.uv = uv /\ q.commit = c.commit
        /\ q.cache = c.cache /\ \A f \in Others : q[f] = c[f]
    BY <1>1 DEF Fields
  <2> HIDE DEF q
  <2>2. QED
    BY <1>1, <1>3, <2>1, TypedResolution DEF IsCommand, q
<1>4. ASSUME Step(r, [c EXCEPT !.pc = "comfyui",
                          !.uv = Acquired(r, "uv", UvRequest),
                          !.cache = Remembered(r, "uv", UvRequest)]),
             UNCHANGED Disk
      PROVE  TypeOK'
  <2> DEFINE q == [c EXCEPT !.pc = "comfyui",
                            !.uv = Acquired(r, "uv", UvRequest),
                            !.cache = Remembered(r, "uv", UvRequest)]
  <2>1. /\ q.pc = "comfyui" /\ q.uv = Acquired(r, "uv", UvRequest)
        /\ q.commit = c.commit /\ q.cache = Remembered(r, "uv", UvRequest)
        /\ \A f \in Others : q[f] = c[f]
    BY <1>1 DEF Fields
  <2>2. Step(r, q)
    BY <1>4
  <2> HIDE DEF q
  <2>3. /\ q.uv \in Nat
        /\ \A k \in DOMAIN q.cache : q.cache[k] \in Nat
    BY <1>1, <1>2, <2>1, TypedAnswers
  <2>4. QED
    BY <1>1, <1>4, <2>1, <2>2, <2>3, TypedResolution DEF IsCommand
<1>5. CASE Kept(c.existing, "uv", UvRequest, Policy(r))
  BY <1>1, <1>3, <1>5, KeptIsTyped DEF ResolveUv
<1>6. CASE ~Kept(c.existing, "uv", UvRequest, Policy(r))
  BY <1>3, <1>4, <1>6 DEF ResolveUv, Unresolved
<1>7. QED
  BY <1>5, <1>6

LEMMA TypedResolveComfyui ==
    ASSUME HostInv, TypeOK, NEW r \in Runs, ResolveComfyui(r)
    PROVE  TypeOK'
<1> DEFINE c == run[r]
           request == ComfyuiRequest(Cfg(r))
           Others == {"invocation", "existing", "tree", "lock", "stage",
                      "backup"}
<1>1. /\ c.pc = "comfyui" /\ IsCommand(c) /\ DOMAIN c = Fields
      /\ Cfg(r) \in Configs
  BY TypedCommand DEF ResolveComfyui, At
<1>2. request.selector # "exact"
  BY <1>1 DEF ComfyuiRequest, Request, Configs
<1>3. ASSUME NEW commit \in Nat,
             Step(r, [c EXCEPT !.pc = "requirements", !.commit = commit]),
             UNCHANGED Disk
      PROVE  TypeOK'
  <2> DEFINE q == [c EXCEPT !.pc = "requirements", !.commit = commit]
  <2>1. /\ q.pc = "requirements" /\ q.commit = commit /\ q.uv = c.uv
        /\ q.cache = c.cache /\ \A f \in Others : q[f] = c[f]
    BY <1>1 DEF Fields
  <2> HIDE DEF q
  <2>2. QED
    BY <1>1, <1>3, <2>1, TypedResolution DEF IsCommand, q
<1>4. ASSUME Step(r, [c EXCEPT !.pc = "requirements",
                          !.commit = Acquired(r, "comfyui", request),
                          !.cache = Remembered(r, "comfyui", request)]),
             UNCHANGED Disk
      PROVE  TypeOK'
  <2> DEFINE q == [c EXCEPT !.pc = "requirements",
                            !.commit = Acquired(r, "comfyui", request),
                            !.cache = Remembered(r, "comfyui", request)]
  <2>1. /\ q.pc = "requirements" /\ q.uv = c.uv
        /\ q.commit = Acquired(r, "comfyui", request)
        /\ q.cache = Remembered(r, "comfyui", request)
        /\ \A f \in Others : q[f] = c[f]
    BY <1>1 DEF Fields
  <2>2. Step(r, q)
    BY <1>4
  <2> HIDE DEF q, request
  <2>3. /\ q.commit \in Nat
        /\ \A k \in DOMAIN q.cache : q.cache[k] \in Nat
    BY <1>1, <1>2, <2>1, TypedAnswers
  <2>4. QED
    BY <1>1, <1>4, <2>1, <2>2, <2>3, TypedResolution DEF IsCommand
<1>5. CASE Kept(c.existing, "comfyui", request, Policy(r))
  BY <1>1, <1>3, <1>5, KeptIsTyped DEF ResolveComfyui
<1>6. CASE ~Kept(c.existing, "comfyui", request, Policy(r))
  BY <1>1, <1>4, <1>6, TypedFailure DEF ResolveComfyui
<1>7. QED
  BY <1>5, <1>6

LEMMA TypedResolveRequirements ==
    ASSUME HostInv, TypeOK, NEW r \in Runs, ResolveRequirements(r)
    PROVE  TypeOK'
<1> DEFINE c == run[r]
           request == RequirementsRequest(c.commit)
           Others == {"invocation", "existing", "tree", "lock", "stage",
                      "backup"}
<1>1. c.pc = "requirements" /\ IsCommand(c) /\ DOMAIN c = Fields
  BY TypedCommand DEF ResolveRequirements, At
<1>2. Head(request.deps) \in Nat
  BY <1>1 DEF RequirementsRequest, Request, IsCommand
<1>3. CASE Go(r, "admit") /\ UNCHANGED Disk
  BY <1>1, <1>3, TypedGo DEF Steps
<1>4. CASE /\ Step(r, [c EXCEPT !.pc = "admit",
                          !.cache = Remembered(r, "requirements", request)])
           /\ UNCHANGED Disk
  <2> DEFINE q == [c EXCEPT !.pc = "admit",
                            !.cache = Remembered(r, "requirements", request)]
  <2>1. /\ q.pc = "admit" /\ q.uv = c.uv /\ q.commit = c.commit
        /\ q.cache = Remembered(r, "requirements", request)
        /\ \A f \in Others : q[f] = c[f]
    BY <1>1 DEF Fields
  <2>2. Step(r, q)
    BY <1>4
  <2> HIDE DEF q, request
  <2>3. \A k \in DOMAIN q.cache : q.cache[k] \in Nat
    BY <1>1, <1>2, <2>1, TypedAnswers
  <2>4. QED
    BY <1>1, <1>4, <2>1, <2>2, <2>3, TypedResolution DEF IsCommand
<1>5. QED
  BY <1>1, <1>3, <1>4, TypedFailure DEF ResolveRequirements

LEMMA TypedAdmitLocal ==
    ASSUME HostInv, TypeOK, NEW r \in Runs, AdmitLocal(r)
    PROVE  TypeOK'
<1> DEFINE c == run[r]
           tree == Admitted(Cfg(r), source)
           q == [c EXCEPT !.pc = "reconcile", !.tree = tree]
<1>1. c.pc = "admit" /\ IsCommand(c) /\ DOMAIN c = Fields
  BY TypedCommand DEF AdmitLocal, At
<1>2. tree \in Trees
  <2>1. source \in Trees /\ (CHOOSE k \in Contents : TRUE) \in Contents
    BY ContentsAssumption DEF TypeOK
  <2>2. ShapeOf(source) \in Trees
    BY <2>1 DEF ShapeOf, Trees
  <2>3. QED
    BY <2>1, <2>2 DEF Admitted
<1>3. Step(r, q) /\ UNCHANGED Disk
  BY DEF AdmitLocal
<1>4. /\ q.pc = "reconcile" /\ q.tree = tree
      /\ \A f \in Fields \ {"pc", "tree"} : q[f] = c[f]
  BY <1>1 DEF Fields
<1>5. /\ q.invocation = c.invocation /\ q.uv = c.uv /\ q.commit = c.commit
      /\ q.cache = c.cache /\ q.existing = c.existing
      /\ q.lock = c.lock /\ q.stage = c.stage /\ q.backup = c.backup
  BY <1>4 DEF Fields
<1> HIDE DEF q, tree
<1>6. IsCommand(q)
  BY <1>1, <1>2, <1>4, <1>5 DEF IsCommand, Steps
<1>7. QED
  BY <1>3, <1>6, TypedQuietStep

\* What the default and upgrade policies make is a lock.
LEMMA ReconciledIsLock ==
    ASSUME HostInv, TypeOK, NEW r \in Runs, run[r].pc = "reconcile"
    PROVE  LET graph == RunGraph(r)
               answers == [k \in DOMAIN graph |-> Acquired(r, k, graph[k])]
           IN  IsLock(Reconciled(graph, run[r].existing, Policy(r), answers,
                                 RunFixed(r)))
<1> DEFINE c == run[r]
           cfg == Cfg(r)
           graph == RunGraph(r)
           fixed == RunFixed(r)
           answers == [k \in DOMAIN graph |-> Acquired(r, k, graph[k])]
           lock == Reconciled(graph, c.existing, Policy(r), answers, fixed)
<1>1. IsCommand(c) /\ cfg \in Configs
  BY TypedCommand
<1>2. /\ DOMAIN graph = GraphKeys(cfg)
      /\ graph["uv"] = UvRequest
      /\ graph["python"] = Request("exact", <<c.uv>>)
      /\ graph["comfyui"] = ComfyuiRequest(cfg)
      /\ graph["requirements"] = RequirementsRequest(c.commit)
      /\ graph["pytorch"] = Request("latest", <<c.uv, c.commit>>)
      /\ "node" \in GraphKeys(cfg) => graph["node"] = Request(cfg.node, <<>>)
  BY GraphFacts DEF RunGraph
<1>3. /\ DOMAIN fixed = FixedKeys(cfg) /\ FixedKeys(cfg) \subseteq {"tree"}
      /\ "tree" \notin GraphKeys(cfg)
      /\ "tree" \in FixedKeys(cfg) => fixed["tree"] = LocalRow(c.tree)
  <2>1. "tree" \in FixedKeys(cfg) => cfg.contentLock
    BY DEF FixedKeys
  <2>2. QED
    BY <1>1, <2>1, FixedFacts DEF RunFixed
<1>4. /\ RequiredKeys \subseteq GraphKeys(cfg)
      /\ GraphKeys(cfg) \subseteq RequiredKeys \cup {"node"}
  BY DEF GraphKeys, NodeKeys, RequiredKeys
<1>5. \A key \in GraphKeys(cfg) :
        graph[key].selector = "exact" => Head(graph[key].deps) \in Nat
  <2> SUFFICES ASSUME NEW key \in GraphKeys(cfg),
                      graph[key].selector = "exact"
               PROVE  Head(graph[key].deps) \in Nat
    OBVIOUS
  <2>1. graph[key] \in {Request("exact", <<c.uv>>),
                        RequirementsRequest(c.commit)}
    <3>1. /\ UvRequest.selector # "exact"
          /\ ComfyuiRequest(cfg).selector # "exact"
          /\ Request("latest", <<c.uv, c.commit>>).selector # "exact"
          /\ "node" \in GraphKeys(cfg) =>
               Request(cfg.node, <<>>).selector # "exact"
      BY <1>1 DEF UvRequest, ComfyuiRequest, Request, Configs
    <3>2. key \in {"uv", "python", "comfyui", "requirements", "pytorch",
                   "node"}
      BY <1>4 DEF RequiredKeys
    <3>3. QED
      BY <1>2, <3>1, <3>2
  <2>2. Head(<<c.uv>>) \in Nat /\ Head(<<c.commit>>) \in Nat
    BY <1>1 DEF IsCommand
  <2>3. QED
    BY <2>1, <2>2 DEF RequirementsRequest, Request
<1>6. \A key \in GraphKeys(cfg) : answers[key] \in Nat
  BY <1>2, <1>5, TypedAnswers
<1>7. \A key \in GraphKeys(cfg) :
        Kept(c.existing, key, graph[key], Policy(r)) =>
          c.existing[key].result \in Nat
  BY <1>3, KeptIsTyped
<1> HIDE DEF answers, graph, fixed
<1>8. /\ lock = [key \in DOMAIN lock |-> lock[key]]
      /\ DOMAIN lock = GraphKeys(cfg) \cup FixedKeys(cfg)
      /\ \A key \in GraphKeys(cfg) :
           lock[key] = IF Kept(c.existing, key, graph[key], Policy(r))
                       THEN c.existing[key]
                       ELSE Entry(graph[key], answers[key])
      /\ "tree" \in FixedKeys(cfg) => lock["tree"] = LocalRow(c.tree)
  BY <1>2, <1>3 DEF Reconciled, Rows
<1> HIDE DEF lock
<1>9. \A key \in GraphKeys(cfg) : lock[key].result \in Nat
  BY <1>6, <1>7, <1>8 DEF Entry
<1>10. "tree" \in DOMAIN lock => lock["tree"].result \in Trees
  BY <1>1, <1>3, <1>8 DEF LocalRow, Entry, IsCommand
<1>11. QED
  BY <1>3, <1>4, <1>8, <1>9, <1>10
     DEF IsLock, lock, graph, answers, fixed

LEMMA TypedReconcile ==
    ASSUME HostInv, TypeOK, NEW r \in Runs, Reconcile(r)
    PROVE  TypeOK'
<1> DEFINE c == run[r]
           graph == RunGraph(r)
           answers == [k \in DOMAIN graph |-> Acquired(r, k, graph[k])]
<1>1. c.pc = "reconcile" /\ IsCommand(c) /\ DOMAIN c = Fields
  BY TypedCommand DEF Reconcile, At
<1>2. ASSUME NEW lock, lock = NoLock \/ IsLock(lock),
             Step(r, [c EXCEPT !.pc = "construct", !.lock = lock]),
             UNCHANGED Disk
      PROVE  TypeOK'
  <2> DEFINE q == [c EXCEPT !.pc = "construct", !.lock = lock]
  <2>1. /\ q.pc = "construct" /\ q.lock = lock
        /\ \A f \in Fields \ {"pc", "lock"} : q[f] = c[f]
    BY <1>1 DEF Fields
  <2>2. /\ q.invocation = c.invocation /\ q.uv = c.uv
        /\ q.commit = c.commit /\ q.cache = c.cache /\ q.tree = c.tree
        /\ q.existing = c.existing /\ q.stage = c.stage
        /\ q.backup = c.backup
    BY <2>1 DEF Fields
  <2>3. Step(r, q)
    BY <1>2
  <2> HIDE DEF q
  <2>4. IsCommand(q)
    BY <1>1, <1>2, <2>1, <2>2 DEF IsCommand, Steps
  <2>5. QED
    BY <1>2, <2>3, <2>4, TypedQuietStep
<1>3. CASE /\ Policy(r) # "locked"
           /\ Step(r, [c EXCEPT !.pc = "construct",
                          !.lock = Reconciled(graph, c.existing, Policy(r),
                                              answers, RunFixed(r))])
           /\ UNCHANGED Disk
  BY <1>1, <1>2, <1>3, ReconciledIsLock
<1>4. CASE /\ Step(r, [c EXCEPT !.pc = "construct", !.lock = c.existing])
           /\ UNCHANGED Disk
  BY <1>1, <1>2, <1>4 DEF IsCommand
<1>5. CASE Fail(r)
  BY <1>1, <1>5, TypedFailure
<1>6. QED
  BY <1>3, <1>4, <1>5 DEF Reconcile

LEMMA TypedConstruct ==
    ASSUME HostInv, TypeOK, NEW r \in Runs, Construct(r)
    PROVE  TypeOK'
<1>1. run[r].pc = "construct"
  BY DEF Construct, At
<1>2. PICK pc \in {"check", "write", "done", "defect"} : Go(r, pc)
  BY DEF Construct, AfterPlan
<1>3. UNCHANGED Disk
  BY DEF Construct
<1>4. pc \in Steps /\ pc \notin {"aside", "publish", "install"}
  BY DEF Steps
<1>5. QED
  BY <1>1, <1>2, <1>3, <1>4, TypedGo

-----------------------------------------------------------------------------
(* The types of the stage and of the publication.                          *)

\* The plan of an accepted lock.
LEMMA PlanIsTyped ==
    ASSUME HostInv, TypeOK, NEW r \in Runs, run[r].pc \in AfterLock
    PROVE  IsLock(run[r].lock) /\ Plan(r) \in BuildPlans
<1> DEFINE c == run[r]
           cfg == Cfg(r)
           lock == c.lock
<1>1. LockSound(c) /\ IsCommand(c) /\ cfg \in Configs
  BY LaterFacts, TypedCommand
<1>2. /\ AnswersGraph(Graph(cfg, c.uv, c.commit), lock)
      /\ NothingUnused(cfg, Graph(cfg, c.uv, c.commit), lock)
  BY <1>1 DEF LockSound, Constructible, Cfg
<1>3. DOMAIN lock = GraphKeys(cfg) \cup FixedKeys(cfg)
  BY <1>2, GraphFacts DEF NothingUnused
<1>4. /\ RequiredKeys \subseteq GraphKeys(cfg)
      /\ cfg.node # "none" => "node" \in GraphKeys(cfg)
      /\ cfg.contentLock => "tree" \in FixedKeys(cfg)
  BY DEF GraphKeys, NodeKeys, FixedKeys, RequiredKeys
<1>5. IsLock(lock)
  <2>1. lock # NoLock
    BY <1>3, <1>4 DEF NoLock, RequiredKeys
  <2>2. QED
    BY <1>1, <2>1 DEF IsCommand
<1>6. \A key \in RequiredKeys : lock[key].result \in Nat
  BY <1>3, <1>4, <1>5 DEF IsLock, RequiredKeys
<1>7. Toolchain(lock) \in ToolchainPhases
  BY <1>6 DEF Toolchain, ToolchainPhases, RequiredKeys
<1>8. Application(lock) \in ApplicationPhases
  BY <1>6 DEF Application, ApplicationPhases, PackageGroup, PackageGroups,
     RequiredKeys
<1>9. CustomNodes(cfg, lock) \in CustomNodesPhases
  <2>1. cfg.node # "none" => lock["node"].result \in Nat
    BY <1>3, <1>4, <1>5 DEF IsLock
  <2>2. QED
    BY <2>1 DEF CustomNodes, CustomNode, CustomNodesPhases
<1>10. Files(cfg, lock, c.tree) \in FilesPhases
  <2>1. cfg.contentLock => lock["tree"].result \in Trees
    BY <1>3, <1>4, <1>5 DEF IsLock
  <2>2. QED
    BY <1>1, <2>1 DEF Files, FilesPhases, IsCommand
<1>11. Plan(r) \in BuildPlans
  BY <1>1, <1>7, <1>8, <1>9, <1>10 DEF Plan, BuildPlan, BuildPlans
<1>12. QED
  BY <1>5, <1>11

\* A step of a command whose lock is accepted and that changes only what is
\* said.
LEMMA TypedLater ==
    ASSUME HostInv, TypeOK, NEW r \in Runs, run[r].pc \in AfterLock,
           NEW q, q.pc \in Steps, \A f \in Settled : q[f] = run[r][f],
           q.stage = Nothing \/ IsStage(q.stage),
           q.pc \in {"publish", "aside", "install"} => IsContext(q.stage),
           IF q.pc = "aside" THEN q.backup = Empty ELSE Complete(q.backup)
    PROVE  IsCommand(q)
<1>1. IsCommand(run[r])
  BY LaterFacts, TypedCommand
<1>2. /\ q.invocation = run[r].invocation /\ q.existing = run[r].existing
      /\ q.uv = run[r].uv /\ q.commit = run[r].commit
      /\ q.cache = run[r].cache /\ q.tree = run[r].tree
      /\ q.lock = run[r].lock
  BY DEF Settled
<1>3. QED
  BY <1>1, <1>2 DEF IsCommand

LEMMA TypedBeginStage ==
    ASSUME HostInv, TypeOK, NEW r \in Runs, BeginStage(r)
    PROVE  TypeOK'
<1> DEFINE c == run[r]
           stage == Context(Plan(r), <<>>, NoLock, {})
           q == [c EXCEPT !.pc = "revalidate", !.stage = stage]
<1>1. c.pc = "write" /\ c.pc \in AfterLock /\ c.pc # "idle"
  BY LaterPlaces DEF BeginStage, At
<1>2. IsCommand(c) /\ DOMAIN c = Fields
  BY <1>1, TypedCommand
<1>3. CASE Step(r, q) /\ UNCHANGED Disk
  <2>1. /\ q.pc = "revalidate" /\ q.stage = stage /\ q.backup = c.backup
        /\ \A f \in Settled : q[f] = c[f]
    BY <1>2 DEF Fields, Settled
  <2>2. IsStage(stage)
    <3>1. Plan(r) \in BuildPlans
      BY <1>1, PlanIsTyped
    <3>2. DOMAIN <<>> = {}
      OBVIOUS
    <3>3. QED
      BY <3>1, <3>2 DEF IsStage, Context
  <2>3. Step(r, q)
    BY <1>3
  <2> HIDE DEF q, stage
  <2>4. Complete(q.backup)
    BY <1>1, <1>2, <2>1 DEF IsCommand
  <2>5. IsCommand(q)
    BY <1>1, <2>1, <2>2, <2>4, TypedLater DEF Steps
  <2>6. QED
    BY <1>3, <2>3, <2>5, TypedQuietStep
<1>4. QED
  BY <1>1, <1>3, TypedFailure DEF BeginStage

LEMMA TypedRevalidate ==
    ASSUME HostInv, TypeOK, NEW r \in Runs, Revalidate(r)
    PROVE  TypeOK'
<1>1. run[r].pc = "revalidate"
  BY DEF Revalidate, At
<1>2. CASE Go(r, "copy") /\ UNCHANGED Disk
  BY <1>1, <1>2, TypedGo DEF Steps
<1>3. QED
  BY <1>1, <1>2, TypedFailure DEF Revalidate

LEMMA TypedCopyMember ==
    ASSUME HostInv, TypeOK, NEW r \in Runs, CopyMember(r)
    PROVE  TypeOK'
<1> DEFINE c == run[r]
           m == Min(Uncopied(r))
           files == WithMember(c.stage.files, m)
           stage == [c.stage EXCEPT !.files = files]
           q == [c EXCEPT !.stage = stage]
<1>1. c.pc = "copy" /\ c.pc \in AfterLock /\ c.pc \in Filling /\ c.pc # "idle"
  BY LaterPlaces DEF CopyMember, At
<1>2. IsCommand(c) /\ DOMAIN c = Fields /\ Filled(c)
  BY <1>1, TypedCommand, LaterFacts
<1>3. m \in Members
  <2>1. Uncopied(r) \subseteq Members /\ Uncopied(r) # {}
    BY DEF CopyMember, Uncopied, Present
  <2>2. QED
    BY <2>1, MembersAssumption, MinIsMember
<1>4. CASE Copies(r, m) /\ Step(r, q) /\ UNCHANGED Disk
  <2>1. source[m] \in Contents
    BY <1>3, <1>4 DEF Copies, TypeOK, Trees
  <2>2. IsStage(c.stage)
    BY <1>2, Kinds DEF IsCommand, Filled, KindsDiffer
  <2>3. /\ DOMAIN files \subseteq Members
        /\ \A n \in DOMAIN files : files[n] \in Contents
    BY <1>3, <2>1, <2>2 DEF IsStage, WithMember
  <2>4. /\ stage.kind = "context" /\ stage.plan = c.stage.plan
        /\ stage.files = files
        /\ stage = Context(stage.plan, stage.files, stage.lock,
                           stage.metadata)
    <3>1. c.stage = [kind |-> "context", plan |-> c.stage.plan,
                     files |-> c.stage.files, lock |-> c.stage.lock,
                     metadata |-> c.stage.metadata]
      BY <2>2 DEF IsStage, Context
    <3> HIDE DEF files
    <3>2. stage = [kind |-> "context", plan |-> c.stage.plan,
                   files |-> files, lock |-> c.stage.lock,
                   metadata |-> c.stage.metadata]
      BY <3>1
    <3>3. QED
      BY <3>2 DEF Context
  <2>5. Step(r, q)
    BY <1>4
  <2> HIDE DEF stage, files
  <2>6. IsStage(stage)
    BY <2>2, <2>3, <2>4 DEF IsStage
  <2>7. /\ q.pc = c.pc /\ q.stage = stage /\ q.backup = c.backup
        /\ \A f \in Settled : q[f] = c[f]
    BY <1>2 DEF Fields, Settled
  <2> HIDE DEF q
  <2>8. Complete(q.backup)
    BY <1>1, <1>2, <2>7 DEF IsCommand
  <2>9. IsCommand(q)
    BY <1>1, <2>6, <2>7, <2>8, TypedLater DEF Steps
  <2>10. QED
    BY <1>4, <2>5, <2>9, TypedQuietStep
<1>5. CASE Fail(r)
  BY <1>1, <1>5, TypedFailure
<1>6. QED
  BY <1>4, <1>5 DEF CopyMember

LEMMA TypedCompleteStage ==
    ASSUME HostInv, TypeOK, NEW r \in Runs, CompleteStage(r)
    PROVE  TypeOK'
<1> DEFINE c == run[r]
           stage == [c.stage EXCEPT !.lock = c.lock,
                                    !.metadata = AllMetadata]
           q == [c EXCEPT !.pc = "publish", !.stage = stage]
<1>1. c.pc = "copy" /\ c.pc \in AfterLock /\ c.pc \in Filling /\ c.pc # "idle"
  BY LaterPlaces DEF CompleteStage, At
<1>2. IsCommand(c) /\ DOMAIN c = Fields /\ Filled(c)
  BY <1>1, TypedCommand, LaterFacts
<1>3. CASE /\ Step(r, [c EXCEPT !.pc = "publish", !.stage.lock = c.lock,
                                !.stage.metadata = AllMetadata])
           /\ UNCHANGED Disk
  <2>1. IsStage(c.stage) /\ IsLock(c.lock)
    BY <1>1, <1>2, PlanIsTyped, Kinds DEF IsCommand, Filled, KindsDiffer
  <2>2. stage = Context(c.stage.plan, c.stage.files, c.lock, AllMetadata)
    <3> DEFINE locked == Context(c.stage.plan, c.stage.files, c.lock,
                                 c.stage.metadata)
    <3>1. c.stage = Context(c.stage.plan, c.stage.files, c.stage.lock,
                            c.stage.metadata)
      BY <2>1 DEF IsStage
    <3>2. [c.stage EXCEPT !.lock = c.lock] = locked
      BY <3>1 DEF Context
    <3>3. [locked EXCEPT !.metadata = AllMetadata]
            = Context(c.stage.plan, c.stage.files, c.lock, AllMetadata)
      BY DEF Context
    <3>4. stage = [[c.stage EXCEPT !.lock = c.lock]
                     EXCEPT !.metadata = AllMetadata]
      OBVIOUS
    <3>5. QED
      BY <3>2, <3>3, <3>4
  <2>3. q = [c EXCEPT !.pc = "publish", !.stage.lock = c.lock,
                      !.stage.metadata = AllMetadata]
    BY <1>2 DEF Fields
  <2>4. Step(r, q)
    BY <1>3, <2>3
  <2> HIDE DEF stage
  <2>5. /\ stage.kind = "context" /\ stage.plan = c.stage.plan
        /\ stage.files = c.stage.files /\ stage.lock = c.lock
        /\ stage.metadata = AllMetadata
    BY <2>2 DEF Context
  <2>6. IsStage(stage) /\ IsContext(stage)
    BY <2>1, <2>2, <2>5 DEF IsStage, IsContext
  <2>7. /\ q.pc = "publish" /\ q.stage = stage /\ q.backup = c.backup
        /\ \A f \in Settled : q[f] = c[f]
    BY <1>2 DEF Fields, Settled
  <2> HIDE DEF q
  <2>8. Complete(q.backup)
    BY <1>1, <1>2, <2>7 DEF IsCommand
  <2>9. IsCommand(q)
    BY <1>1, <2>6, <2>7, <2>8, TypedLater DEF Steps
  <2>10. QED
    BY <1>3, <2>4, <2>9, TypedQuietStep
<1>4. CASE Fail(r)
  BY <1>1, <1>4, TypedFailure
<1>5. QED
  BY <1>3, <1>4 DEF CompleteStage

LEMMA TypedPublish ==
    ASSUME HostInv, TypeOK, NEW r \in Runs, Publish(r)
    PROVE  TypeOK'
<1> DEFINE c == run[r]
           q == [c EXCEPT !.pc = "aside", !.backup = Empty]
<1>1. c.pc = "publish" /\ c.pc \in AfterLock /\ c.pc # "idle"
  BY LaterPlaces DEF Publish, At
<1>2. IsCommand(c) /\ DOMAIN c = Fields
  BY <1>1, TypedCommand
<1>3. UNCHANGED Disk
  BY DEF Publish
<1>4. CASE Go(r, "install")
  BY <1>1, <1>2, <1>3, <1>4, TypedGo DEF Steps, IsCommand
<1>5. CASE Step(r, q)
  <2>1. /\ q.pc = "aside" /\ q.stage = c.stage /\ q.backup = Empty
        /\ \A f \in Settled : q[f] = c[f]
    BY <1>2 DEF Fields, Settled
  <2> HIDE DEF q
  <2>2. IsContext(q.stage) /\ (q.stage = Nothing \/ IsStage(q.stage))
    BY <1>1, <1>2, <2>1 DEF IsCommand
  <2>3. IsCommand(q)
    BY <1>1, <2>1, <2>2, TypedLater DEF Steps
  <2>4. QED
    BY <1>3, <1>5, <2>3, TypedQuietStep
<1>6. QED
  BY <1>4, <1>5 DEF Publish

LEMMA TypedMoveAside ==
    ASSUME HostInv, TypeOK, NEW r \in Runs, MoveAside(r)
    PROVE  TypeOK'
<1> DEFINE c == run[r]
           q == [c EXCEPT !.pc = "install", !.backup = output]
<1>1. c.pc = "aside" /\ c.pc \in AfterLock /\ c.pc # "idle"
  BY LaterPlaces DEF MoveAside, At
<1>2. IsCommand(c) /\ DOMAIN c = Fields
  BY <1>1, TypedCommand
<1>3. CASE /\ Step(r, q) /\ output' = Nothing
           /\ UNCHANGED <<upstream, source, retained, latest>>
  <2>1. /\ q.pc = "install" /\ q.stage = c.stage /\ q.backup = output
        /\ \A f \in Settled : q[f] = c[f]
    BY <1>2 DEF Fields, Settled
  <2> HIDE DEF q
  <2>2. IsContext(q.stage) /\ (q.stage = Nothing \/ IsStage(q.stage))
    BY <1>1, <1>2, <2>1 DEF IsCommand
  <2>3. Complete(output) /\ Complete(Nothing)
    BY DEF TypeOK, Complete
  <2>4. IsCommand(q)
    BY <1>1, <2>1, <2>2, <2>3, TypedLater DEF Steps
  <2>5. \A d \in retained' \cup {output', latest'} : Complete(d)
    BY <1>3, <2>3 DEF TypeOK
  <2>6. QED
    BY <1>3, <2>4, <2>5, TypedStep
<1>4. CASE Fail(r)
  BY <1>1, <1>4, TypedFailure
<1>5. QED
  BY <1>3, <1>4 DEF MoveAside

LEMMA TypedInstall ==
    ASSUME HostInv, TypeOK, NEW r \in Runs, Install(r)
    PROVE  TypeOK'
<1> DEFINE c == run[r]
           pc == IF c.backup = Nothing THEN "done" ELSE "drop"
           q == [c EXCEPT !.stage = Nothing, !.pc = pc]
<1>1. c.pc = "install" /\ c.pc \in AfterLock /\ c.pc # "idle"
  BY LaterPlaces DEF Install, At
<1>2. IsCommand(c) /\ DOMAIN c = Fields
  BY <1>1, TypedCommand
<1>3. CASE /\ output' = c.stage /\ latest' = c.stage
           /\ Step(r, q) /\ UNCHANGED <<upstream, source, retained>>
  <2>1. /\ q.pc \in {"done", "drop"} /\ q.stage = Nothing
        /\ q.backup = c.backup /\ \A f \in Settled : q[f] = c[f]
    BY <1>2 DEF Fields, Settled
  <2> HIDE DEF q
  <2>2. Complete(q.backup) /\ Complete(c.stage)
    BY <1>1, <1>2, <2>1 DEF IsCommand, Complete
  <2>3. IsCommand(q)
    BY <1>1, <2>1, <2>2, TypedLater DEF Steps
  <2>4. \A d \in retained' \cup {output', latest'} : Complete(d)
    BY <1>3, <2>2 DEF TypeOK
  <2>5. QED
    BY <1>3, <2>3, <2>4, TypedStep
<1>4. CASE Fail(r)
  BY <1>1, <1>4, TypedFailure
<1>5. QED
  BY <1>3, <1>4 DEF Install

LEMMA TypedDropBackup ==
    ASSUME HostInv, TypeOK, NEW r \in Runs, DropBackup(r)
    PROVE  TypeOK'
<1> DEFINE c == run[r]
           q == [c EXCEPT !.pc = "done", !.backup = Nothing]
<1>1. c.pc = "drop" /\ c.pc \in AfterLock /\ c.pc # "idle"
  BY LaterPlaces DEF DropBackup, At
<1>2. IsCommand(c) /\ DOMAIN c = Fields
  BY <1>1, TypedCommand
<1>3. Step(r, q) /\ UNCHANGED Disk
  BY DEF DropBackup
<1>4. /\ q.pc = "done" /\ q.stage = c.stage /\ q.backup = Nothing
      /\ \A f \in Settled : q[f] = c[f]
  BY <1>2 DEF Fields, Settled
<1> HIDE DEF q
<1>5. q.stage = Nothing \/ IsStage(q.stage)
  BY <1>2, <1>4 DEF IsCommand
<1>6. IsCommand(q)
  BY <1>1, <1>4, <1>5, TypedLater DEF Steps, Complete
<1>7. QED
  BY <1>3, <1>6, TypedQuietStep

LEMMA TypedCheck ==
    ASSUME HostInv, TypeOK, NEW r \in Runs, CheckTree(r) \/ CompareFiles(r)
    PROVE  TypeOK'
<1>1. run[r].pc \in {"check", "compare"}
  BY DEF CheckTree, CompareFiles, At
<1>2. ASSUME NEW pc \in {"compare", "done"}, Go(r, pc), UNCHANGED Disk
      PROVE  TypeOK'
  BY <1>1, <1>2, TypedGo DEF Steps
<1>3. CASE Fail(r)
  BY <1>1, <1>3, TypedFailure
<1>4. QED
  BY <1>2, <1>3 DEF CheckTree, CompareFiles

LEMMA TypedFinish ==
    ASSUME HostInv, TypeOK, NEW r \in Runs, Finish(r)
    PROVE  TypeOK'
<1>1. Step(r, Idle) /\ UNCHANGED Disk
  BY DEF Finish, Step
<1>2. QED
  BY <1>1, TypedQuietStep

LEMMA TypedAbort ==
    ASSUME HostInv, TypeOK, NEW r \in Runs, Abort(r)
    PROVE  TypeOK'
<1>1. run[r].pc # "idle"
  BY DEF Abort, Running
<1>2. CASE Fail(r)
  BY <1>1, <1>2, TypedFailure
<1>3. CASE /\ At(r, "install") /\ output' = run[r].backup
           /\ run' = [run EXCEPT ![r] = Idle]
           /\ UNCHANGED <<upstream, source, retained, latest>>
  <2>1. Complete(run[r].backup)
    BY <1>1, <1>3, TypedCommand DEF IsCommand, At
  <2>2. \A d \in retained' \cup {output', latest'} : Complete(d)
    BY <1>3, <2>1 DEF TypeOK
  <2>3. Step(r, Idle)
    BY <1>3 DEF Step
  <2>4. QED
    BY <1>3, <2>2, <2>3, TypedStep
<1>4. CASE run' = [run EXCEPT ![r] = Idle] /\ UNCHANGED Disk
  BY <1>4, TypedQuietStep DEF Step
<1>5. QED
  BY <1>2, <1>3, <1>4 DEF Abort

LEMMA TypedWorld ==
    ASSUME TypeOK,
           \/ \E key \in MovingKeys : UpstreamMoves(key)
           \/ \E m \in Members, content \in Contents \cup {Absent} :
                EditSource(m, content)
           \/ UNCHANGED vars
    PROVE  TypeOK'
<1>1. ASSUME NEW key \in MovingKeys, UpstreamMoves(key)
      PROVE  TypeOK'
  <2>1. upstream' \in [MovingKeys -> Nat]
    BY <1>1 DEF UpstreamMoves, TypeOK
  <2>2. QED
    BY <1>1, <2>1 DEF UpstreamMoves, TypeOK
<1>2. ASSUME NEW m \in Members, NEW content \in Contents \cup {Absent},
             EditSource(m, content)
      PROVE  TypeOK'
  <2>1. source' \in Trees
    BY <1>2 DEF EditSource, TypeOK, Trees
  <2>2. QED
    BY <1>2, <2>1 DEF EditSource, TypeOK
<1>3. CASE UNCHANGED vars
  BY <1>3 DEF vars, TypeOK
<1>4. QED
  BY <1>1, <1>2, <1>3

\* Whatever a command holds, puts at the output or leaves behind is of the
\* form the code reads back: locks that load, plans of a configuration,
\* contexts with every part (CanonicalLock, BuildPlan, _write_context).
THEOREM TypesHold == Spec => []TypeOK
<1>1. Init => TypeOK
  <2> SUFFICES ASSUME Init
               PROVE  TypeOK
    OBVIOUS
  <2>1. Min(Contents) \in Contents
    <3>1. Contents \subseteq Nat /\ Contents # {}
      BY ContentsAssumption
    <3>2. QED
      BY <3>1, MinIsMember
  <2>2. source \in Trees
    BY <2>1 DEF Init, Trees
  <2>3. upstream \in [MovingKeys -> Nat]
    BY DEF Init
  <2>4. \A d \in retained \cup {output, latest} : Complete(d)
    BY OutputsAssumption DEF Init, Complete
  <2>5. \A r \in Runs : run[r] = Idle
    BY DEF Init
  <2>6. QED
    BY <2>2, <2>3, <2>4, <2>5 DEF TypeOK
<1>2. HostInv /\ TypeOK /\ [Next]_vars => TypeOK'
  <2> SUFFICES ASSUME HostInv, TypeOK, [Next]_vars
               PROVE  TypeOK'
    OBVIOUS
  <2>1. ASSUME NEW r \in Runs, NEW invocation \in Invocations,
               Start(r, invocation)
        PROVE  TypeOK'
    BY <2>1, TypedStart
  <2>2. ASSUME NEW r \in Runs,
               \/ ResolveUv(r) \/ ResolveComfyui(r) \/ ResolveRequirements(r)
               \/ AdmitLocal(r) \/ Reconcile(r) \/ Construct(r)
        PROVE  TypeOK'
    BY <2>2, TypedResolveUv, TypedResolveComfyui, TypedResolveRequirements,
       TypedAdmitLocal, TypedReconcile, TypedConstruct
  <2>3. ASSUME NEW r \in Runs,
               \/ BeginStage(r) \/ Revalidate(r) \/ CopyMember(r)
               \/ CompleteStage(r) \/ Publish(r) \/ MoveAside(r)
               \/ Install(r) \/ DropBackup(r)
        PROVE  TypeOK'
    BY <2>3, TypedBeginStage, TypedRevalidate, TypedCopyMember,
       TypedCompleteStage, TypedPublish, TypedMoveAside, TypedInstall,
       TypedDropBackup
  <2>4. ASSUME NEW r \in Runs,
               CheckTree(r) \/ CompareFiles(r) \/ Finish(r) \/ Abort(r)
        PROVE  TypeOK'
    BY <2>4, TypedCheck, TypedFinish, TypedAbort
  <2>5. QED
    BY <2>1, <2>2, <2>3, <2>4, TypedWorld DEF Next
<1>3. QED
  BY <1>1, <1>2, InvariantHolds, PTL DEF Spec
-----------------------------------------------------------------------------
(* The default policy reproduces a current lock.                           *)

\* DefaultReproduces of one command.
Reproduces(c) ==
    /\ c.pc \in AfterLock
    /\ c.invocation.policy = "default"
    /\ Current(c.invocation.cfg, c.existing,
               Fixed(c.invocation.cfg, c.tree))
    => c.lock = c.existing

AllReproduce == \A r \in Runs : Reproduces(run[r])

LEMMA ReproducesAll == AllReproduce => DefaultReproduces
<1> SUFFICES ASSUME AllReproduce, NEW r \in Runs, Accepted(r),
                    Policy(r) = "default",
                    Current(Cfg(r), run[r].existing, RunFixed(r))
             PROVE  run[r].lock = run[r].existing
  BY DEF DefaultReproduces
<1>1. run[r].pc \in AfterLock
  BY DEF Accepted, AfterLock, AfterComfyui, AfterUv
<1>2. QED
  BY <1>1 DEF AllReproduce, Reproduces, Policy, Cfg, RunFixed

\* A lock that answers every request of its configuration is reconciled to
\* itself: the identities resolved first are those of the lock, so that the
\* requests are those it answers.
LEMMA ReconciledReproduces ==
    ASSUME NEW c, c.invocation.cfg \in Configs,
           c.invocation.policy = "default",
           Resolved(c, "uv", UvRequest, c.uv),
           Resolved(c, "comfyui", ComfyuiRequest(c.invocation.cfg), c.commit),
           c.existing = NoLock \/ IsLock(c.existing),
           Current(c.invocation.cfg, c.existing,
                   Fixed(c.invocation.cfg, c.tree)),
           NEW answers
    PROVE  Reconciled(Graph(c.invocation.cfg, c.uv, c.commit), c.existing,
                      "default", answers, Fixed(c.invocation.cfg, c.tree))
             = c.existing
<1> DEFINE cfg == c.invocation.cfg
           lock == c.existing
           fixed == Fixed(cfg, c.tree)
           held == Graph(cfg, lock["uv"].result, lock["comfyui"].result)
           graph == Graph(cfg, c.uv, c.commit)
           result == Reconciled(graph, lock, "default", answers, fixed)
<1>1. AcceptsLocked(held, lock, fixed)
  BY DEF Current
<1>2. /\ DOMAIN held = GraphKeys(cfg) /\ held["uv"] = UvRequest
      /\ held["comfyui"] = ComfyuiRequest(cfg)
      /\ "uv" \in GraphKeys(cfg) /\ "comfyui" \in GraphKeys(cfg)
  <2>1. /\ DOMAIN held = GraphKeys(cfg) /\ held["uv"] = UvRequest
        /\ held["comfyui"] = ComfyuiRequest(cfg)
    BY GraphRoots, Zenon
  <2>2. "uv" \in GraphKeys(cfg) /\ "comfyui" \in GraphKeys(cfg)
    BY DEF GraphKeys
  <2>3. QED
    BY <2>1, <2>2
<1>3. /\ lock # NoLock /\ DOMAIN lock = Rows(held, fixed)
      /\ \A key \in DOMAIN held : Satisfies(lock, key, held[key])
      /\ \A key \in DOMAIN fixed : lock[key] = fixed[key]
  BY <1>1 DEF AcceptsLocked
<1>4. lock = [key \in DOMAIN lock |-> lock[key]]
  BY <1>3 DEF IsLock
<1>5. Satisfies(lock, "uv", UvRequest)
      /\ Satisfies(lock, "comfyui", ComfyuiRequest(cfg))
  BY <1>2, <1>3
<1>6. \A key, request :
        Satisfies(lock, key, request) => Kept(lock, key, request, "default")
  BY DEF Kept
<1>7. c.uv = lock["uv"].result /\ c.commit = lock["comfyui"].result
  BY <1>5, <1>6 DEF Resolved
<1>8. graph = held
  BY <1>7
<1> HIDE DEF held, graph, fixed, lock
<1>9. DOMAIN result = Rows(held, fixed)
  BY <1>8 DEF Reconciled
<1>10. ASSUME NEW key \in Rows(held, fixed)
       PROVE  result[key] = lock[key]
  <2>1. result[key] = IF key \notin DOMAIN graph THEN fixed[key]
                      ELSE IF Kept(lock, key, graph[key], "default")
                           THEN lock[key]
                      ELSE Entry(graph[key], answers[key])
    BY <1>8, <1>10 DEF Reconciled
  <2>2. CASE key \in DOMAIN held
    BY <1>3, <1>6, <1>8, <2>1, <2>2
  <2>3. CASE key \notin DOMAIN held
    BY <1>3, <1>8, <1>10, <2>1, <2>3 DEF Rows
  <2>4. QED
    BY <2>2, <2>3
<1>11. result = [key \in Rows(held, fixed) |-> result[key]]
  BY <1>8 DEF Reconciled
<1> HIDE DEF result
<1>12. result = lock
  BY <1>3, <1>4, <1>10, <1>11
<1>13. QED
  BY <1>12 DEF result, graph, lock, fixed

LEMMA ReproducesStep ==
    ASSUME HostInv, AllReproduce, NEW r \in Runs, NEW q, Step(r, q),
           \/ q.pc \notin AfterLock
           \/ /\ run[r].pc \in AfterLock
              /\ \A f \in Settled : q[f] = run[r][f]
           \/ Reproduces(q)
    PROVE  AllReproduce'
<1>1. DOMAIN run = Runs
  BY DEF HostInv, CommandsInv
<1>2. /\ run'[r] = q /\ \A s \in Runs \ {r} : run'[s] = run[s]
  BY <1>1, StepEffect
<1>3. Reproduces(q)
  <2>1. CASE /\ run[r].pc \in AfterLock
             /\ \A f \in Settled : q[f] = run[r][f]
    <3>1. /\ q.invocation = run[r].invocation
          /\ q.existing = run[r].existing
          /\ q.tree = run[r].tree /\ q.lock = run[r].lock
      BY <2>1 DEF Settled
    <3>2. QED
      BY <2>1, <3>1 DEF AllReproduce, Reproduces
  <2>2. CASE q.pc \notin AfterLock
    BY <2>2 DEF Reproduces
  <2>3. QED
    BY <2>1, <2>2
<1>4. QED
  BY <1>2, <1>3 DEF AllReproduce

\* The places a command goes to before its lock is accepted.
LEMMA EarlierPlaces ==
    /\ "idle" \notin AfterLock /\ "uv" \notin AfterLock
    /\ "comfyui" \notin AfterLock /\ "requirements" \notin AfterLock
    /\ "admit" \notin AfterLock /\ "reconcile" \notin AfterLock
BY DEF AfterLock, AfterComfyui, AfterUv

LEMMA ReproducesFailure ==
    ASSUME HostInv, AllReproduce, NEW r \in Runs,
           run' = [run EXCEPT ![r] = Idle]
    PROVE  AllReproduce'
<1>1. Step(r, Idle)
  BY DEF Step
<1>2. QED
  BY <1>1, ReproducesStep, EarlierPlaces, IdleFacts

\* The steps before the lock is accepted.
LEMMA ReproducesPlanning ==
    ASSUME HostInv, AllReproduce, NEW r \in Runs,
           \/ \E invocation \in Invocations : Start(r, invocation)
           \/ ResolveUv(r) \/ ResolveComfyui(r) \/ ResolveRequirements(r)
           \/ AdmitLocal(r)
    PROVE  AllReproduce'
<1> DEFINE c == run[r]
<1>1. ASSUME NEW invocation \in Invocations, Start(r, invocation)
      PROVE  AllReproduce'
  <2> DEFINE q == Begun(invocation)
  <2>1. q.pc = "uv" /\ Step(r, q)
    BY <1>1 DEF Begun, Start, Step
  <2> HIDE DEF q
  <2>2. QED
    BY <2>1, ReproducesStep, EarlierPlaces
<1>2. ASSUME c.pc # "idle"
      PROVE  DOMAIN c = Fields
  BY <1>2, RunningCommand DEF HostInv, CommandInv
<1>3. ASSUME NEW pc, pc \notin AfterLock, NEW q, q.pc = pc, Step(r, q)
      PROVE  AllReproduce'
  BY <1>3, ReproducesStep
<1>4. ASSUME Fail(r)
      PROVE  AllReproduce'
  BY <1>4, ReproducesFailure DEF Fail, Cleanup
<1>5. ASSUME ResolveUv(r)
      PROVE  AllReproduce'
  <2>1. c.pc = "uv" /\ DOMAIN c = Fields
    BY <1>2, <1>5 DEF ResolveUv, At
  <2>2. \E uv, cache :
          Step(r, [c EXCEPT !.pc = "comfyui", !.uv = uv])
          \/ Step(r, [c EXCEPT !.pc = "comfyui", !.uv = uv,
                               !.cache = cache])
    BY <1>5 DEF ResolveUv
  <2>3. PICK uv, cache :
          Step(r, [c EXCEPT !.pc = "comfyui", !.uv = uv])
          \/ Step(r, [c EXCEPT !.pc = "comfyui", !.uv = uv,
                               !.cache = cache])
    BY <2>2
  <2>4. \E q : q.pc = "comfyui" /\ Step(r, q)
    BY <2>1, <2>3 DEF Fields
  <2>5. QED
    BY <1>3, <2>4, EarlierPlaces
<1>6. ASSUME ResolveComfyui(r), ~Fail(r)
      PROVE  AllReproduce'
  <2>1. c.pc = "comfyui" /\ DOMAIN c = Fields
    BY <1>2, <1>6 DEF ResolveComfyui, At
  <2>2. \E commit, cache :
          Step(r, [c EXCEPT !.pc = "requirements", !.commit = commit])
          \/ Step(r, [c EXCEPT !.pc = "requirements", !.commit = commit,
                               !.cache = cache])
    BY <1>6 DEF ResolveComfyui
  <2>3. PICK commit, cache :
          Step(r, [c EXCEPT !.pc = "requirements", !.commit = commit])
          \/ Step(r, [c EXCEPT !.pc = "requirements", !.commit = commit,
                               !.cache = cache])
    BY <2>2
  <2>4. \E q : q.pc = "requirements" /\ Step(r, q)
    BY <2>1, <2>3 DEF Fields
  <2>5. QED
    BY <1>3, <2>4, EarlierPlaces
<1>7. ASSUME ResolveRequirements(r), ~Fail(r)
      PROVE  AllReproduce'
  <2>1. c.pc = "requirements" /\ DOMAIN c = Fields
    BY <1>2, <1>7 DEF ResolveRequirements, At
  <2>2. \E cache :
          Go(r, "admit")
          \/ Step(r, [c EXCEPT !.pc = "admit", !.cache = cache])
    BY <1>7 DEF ResolveRequirements
  <2>3. PICK cache :
          Go(r, "admit")
          \/ Step(r, [c EXCEPT !.pc = "admit", !.cache = cache])
    BY <2>2
  <2>4. \E q : q.pc = "admit" /\ Step(r, q)
    BY <2>1, <2>3 DEF Fields, Go
  <2>5. QED
    BY <1>3, <2>4, EarlierPlaces
<1>8. ASSUME AdmitLocal(r)
      PROVE  AllReproduce'
  <2> DEFINE q == [c EXCEPT !.pc = "reconcile",
                            !.tree = Admitted(Cfg(r), source)]
  <2>1. c.pc = "admit" /\ DOMAIN c = Fields
    BY <1>2, <1>8 DEF AdmitLocal, At
  <2>2. q.pc = "reconcile" /\ Step(r, q)
    BY <1>8, <2>1 DEF Fields, AdmitLocal
  <2> HIDE DEF q
  <2>3. QED
    BY <1>3, <2>2, EarlierPlaces
<1>9. QED
  BY <1>1, <1>4, <1>5, <1>6, <1>7, <1>8

LEMMA ReproducesReconcile ==
    ASSUME HostInv, TypeOK, AllReproduce, NEW r \in Runs, Reconcile(r)
    PROVE  AllReproduce'
<1> DEFINE c == run[r]
           graph == RunGraph(r)
           answers == [k \in DOMAIN graph |-> Acquired(r, k, graph[k])]
           lock == Reconciled(graph, c.existing, Policy(r), answers,
                              RunFixed(r))
<1>1. c.pc = "reconcile"
  BY DEF Reconcile, At
<1>2. /\ CommandInv(c) /\ DOMAIN c = Fields
      /\ Resolved(c, "uv", UvRequest, c.uv)
      /\ Resolved(c, "comfyui", ComfyuiRequest(c.invocation.cfg), c.commit)
  BY <1>1, AfterResolution
<1>3. IsCommand(c)
  BY <1>1, TypedCommand
<1>4. c.invocation.cfg \in Configs
  BY <1>3, InvocationsAssumption DEF IsCommand
<1>5. ASSUME NEW accepted,
             Step(r, [c EXCEPT !.pc = "construct", !.lock = accepted]),
             /\ Policy(r) = "default"
             /\ Current(Cfg(r), c.existing, RunFixed(r))
             => accepted = c.existing
      PROVE  AllReproduce'
  <2> DEFINE q == [c EXCEPT !.pc = "construct", !.lock = accepted]
  <2>1. /\ q.invocation = c.invocation /\ q.existing = c.existing
        /\ q.tree = c.tree /\ q.lock = accepted
    BY <1>2 DEF Fields
  <2>2. Step(r, q)
    BY <1>5
  <2> HIDE DEF q
  <2>3. Reproduces(q)
    BY <1>5, <2>1 DEF Reproduces, Policy, Cfg, RunFixed
  <2>4. QED
    BY <2>2, <2>3, ReproducesStep
<1>6. CASE /\ Policy(r) # "locked"
           /\ Step(r, [c EXCEPT !.pc = "construct", !.lock = lock])
  <2>1. ASSUME Policy(r) = "default",
               Current(Cfg(r), c.existing, RunFixed(r))
        PROVE  lock = c.existing
    <3>1. /\ c.invocation.policy = "default"
          /\ Current(c.invocation.cfg, c.existing,
                     Fixed(c.invocation.cfg, c.tree))
      BY <2>1 DEF Policy, Cfg, RunFixed
    <3>2. c.existing = NoLock \/ IsLock(c.existing)
      BY <1>3 DEF IsCommand
    <3>3. Reconciled(Graph(c.invocation.cfg, c.uv, c.commit), c.existing,
                     "default", answers, Fixed(c.invocation.cfg, c.tree))
            = c.existing
      BY <1>2, <1>4, <3>1, <3>2, ReconciledReproduces
    <3>4. QED
      BY <2>1, <3>3 DEF RunGraph, RunFixed, Cfg
  <2> HIDE DEF lock
  <2>2. QED
    BY <1>5, <1>6, <2>1
<1>7. CASE /\ Policy(r) = "locked"
           /\ Step(r, [c EXCEPT !.pc = "construct", !.lock = c.existing])
  BY <1>5, <1>7
<1>8. CASE Fail(r)
  BY <1>8, ReproducesFailure DEF Fail, Cleanup
<1>9. QED
  BY <1>6, <1>7, <1>8 DEF Reconcile

\* The steps after it keep the lock.
LEMMA ReproducesLater ==
    ASSUME HostInv, AllReproduce, NEW r \in Runs,
           \/ Construct(r) \/ BeginStage(r) \/ Revalidate(r) \/ CopyMember(r)
           \/ CompleteStage(r) \/ Publish(r) \/ MoveAside(r) \/ Install(r)
           \/ DropBackup(r) \/ CheckTree(r) \/ CompareFiles(r)
           \/ Finish(r) \/ Abort(r)
    PROVE  AllReproduce'
<1> DEFINE c == run[r]
<1>1. ASSUME run' = [run EXCEPT ![r] = Idle]
      PROVE  AllReproduce'
  BY <1>1, ReproducesFailure
<1>2. ASSUME Fail(r)
      PROVE  AllReproduce'
  BY <1>1, <1>2 DEF Fail, Cleanup
<1>3. ASSUME c.pc \in AfterLock, NEW q, Step(r, q),
             \A f \in Settled : q[f] = c[f]
      PROVE  AllReproduce'
  BY <1>3, ReproducesStep
<1>4. ASSUME c.pc \in AfterLock
      PROVE  DOMAIN c = Fields
  BY <1>4, LaterFacts
<1>5. ASSUME c.pc \in AfterLock, NEW pc, Go(r, pc)
      PROVE  AllReproduce'
  <2> DEFINE q == [c EXCEPT !.pc = pc]
  <2>1. Step(r, q) /\ \A f \in Settled : q[f] = c[f]
    BY <1>4, <1>5 DEF Go, Fields, Settled
  <2> HIDE DEF q
  <2>2. QED
    BY <1>3, <1>5, <2>1
<1>6. ASSUME c.pc \in AfterLock, NEW pc, NEW stage,
             Step(r, [c EXCEPT !.pc = pc, !.stage = stage])
      PROVE  AllReproduce'
  <2> DEFINE q == [c EXCEPT !.pc = pc, !.stage = stage]
  <2>1. Step(r, q) /\ \A f \in Settled : q[f] = c[f]
    BY <1>4, <1>6 DEF Fields, Settled
  <2> HIDE DEF q
  <2>2. QED
    BY <1>3, <1>6, <2>1
<1>7. ASSUME c.pc \in AfterLock, NEW pc, NEW backup,
             Step(r, [c EXCEPT !.pc = pc, !.backup = backup])
      PROVE  AllReproduce'
  <2> DEFINE q == [c EXCEPT !.pc = pc, !.backup = backup]
  <2>1. Step(r, q) /\ \A f \in Settled : q[f] = c[f]
    BY <1>4, <1>7 DEF Fields, Settled
  <2> HIDE DEF q
  <2>2. QED
    BY <1>3, <1>7, <2>1
<1>8. ASSUME Construct(r) \/ Revalidate(r) \/ CheckTree(r) \/ CompareFiles(r)
      PROVE  AllReproduce'
  <2>1. c.pc \in AfterLock
    BY <1>8, LaterPlaces
       DEF Construct, Revalidate, CheckTree, CompareFiles, At
  <2>2. Fail(r) \/ \E pc : Go(r, pc)
    BY <1>8 DEF Construct, Revalidate, CheckTree, CompareFiles
  <2>3. QED
    BY <1>2, <1>5, <2>1, <2>2
<1>9. ASSUME BeginStage(r)
      PROVE  AllReproduce'
  <2>1. c.pc \in AfterLock
    BY <1>9, LaterPlaces DEF BeginStage, At
  <2>2. \/ Fail(r)
        \/ Step(r, [c EXCEPT !.pc = "revalidate",
                       !.stage = Context(Plan(r), <<>>, NoLock, {})])
    BY <1>9 DEF BeginStage
  <2>3. QED
    BY <1>2, <1>6, <2>1, <2>2
<1>10. ASSUME CopyMember(r)
       PROVE  AllReproduce'
  <2> DEFINE m == Min(Uncopied(r))
             q == [c EXCEPT !.stage.files = WithMember(@, m)]
  <2>1. c.pc \in AfterLock /\ DOMAIN c = Fields
    BY <1>4, <1>10, LaterPlaces DEF CopyMember, At
  <2>2. Fail(r) \/ Step(r, q)
    BY <1>10 DEF CopyMember
  <2>3. \A f \in Settled : q[f] = c[f]
    BY <2>1 DEF Fields, Settled
  <2> HIDE DEF q
  <2>4. QED
    BY <1>2, <1>3, <2>1, <2>2, <2>3
<1>11. ASSUME CompleteStage(r)
       PROVE  AllReproduce'
  <2> DEFINE q == [c EXCEPT !.pc = "publish", !.stage.lock = c.lock,
                            !.stage.metadata = AllMetadata]
  <2>1. c.pc \in AfterLock /\ DOMAIN c = Fields
    BY <1>4, <1>11, LaterPlaces DEF CompleteStage, At
  <2>2. Fail(r) \/ Step(r, q)
    BY <1>11 DEF CompleteStage
  <2>3. \A f \in Settled : q[f] = c[f]
    BY <2>1 DEF Fields, Settled
  <2> HIDE DEF q
  <2>4. QED
    BY <1>2, <1>3, <2>1, <2>2, <2>3
<1>12. ASSUME Publish(r) \/ MoveAside(r) \/ DropBackup(r)
       PROVE  AllReproduce'
  <2>1. c.pc \in AfterLock
    BY <1>12, LaterPlaces DEF Publish, MoveAside, DropBackup, At
  <2>2. \/ Fail(r) \/ Go(r, "install")
        \/ Step(r, [c EXCEPT !.pc = "aside", !.backup = Empty])
        \/ Step(r, [c EXCEPT !.pc = "install", !.backup = output])
        \/ Step(r, [c EXCEPT !.pc = "done", !.backup = Nothing])
    BY <1>12 DEF Publish, MoveAside, DropBackup
  <2>3. QED
    BY <1>2, <1>5, <1>7, <2>1, <2>2
<1>13. ASSUME Install(r)
       PROVE  AllReproduce'
  <2> DEFINE pc == IF c.backup = Nothing THEN "done" ELSE "drop"
             q == [c EXCEPT !.stage = Nothing, !.pc = pc]
  <2>1. c.pc \in AfterLock /\ DOMAIN c = Fields
    BY <1>4, <1>13, LaterPlaces DEF Install, At
  <2>2. Fail(r) \/ Step(r, q)
    BY <1>13 DEF Install
  <2>3. \A f \in Settled : q[f] = c[f]
    BY <2>1 DEF Fields, Settled
  <2> HIDE DEF q
  <2>4. QED
    BY <1>2, <1>3, <2>1, <2>2, <2>3
<1>14. ASSUME Finish(r) \/ Abort(r)
       PROVE  AllReproduce'
  BY <1>1, <1>2, <1>14 DEF Finish, Abort
<1>15. QED
  BY <1>8, <1>9, <1>10, <1>11, <1>12, <1>13, <1>14

\* DefaultReproduces, for every configuration, every lock and whatever is
\* published while the command runs: a lock that answers the requests of its
\* configuration is what the default policy arrives at
\* (reconcile_canonical_lock, stable_comfyui_entry).
THEOREM CurrentLockIsReproduced == Spec => []DefaultReproduces
<1>1. Init => AllReproduce
  BY IdleFacts, EarlierPlaces DEF Init, AllReproduce, Reproduces
<1>2. HostInv /\ TypeOK /\ AllReproduce /\ [Next]_vars => AllReproduce'
  <2> SUFFICES ASSUME HostInv, TypeOK, AllReproduce, [Next]_vars
               PROVE  AllReproduce'
    OBVIOUS
  <2>1. ASSUME NEW r \in Runs,
               \/ \E invocation \in Invocations : Start(r, invocation)
               \/ ResolveUv(r) \/ ResolveComfyui(r)
               \/ ResolveRequirements(r) \/ AdmitLocal(r) \/ Reconcile(r)
        PROVE  AllReproduce'
    BY <2>1, ReproducesPlanning, ReproducesReconcile
  <2>2. ASSUME NEW r \in Runs,
               \/ Construct(r) \/ BeginStage(r) \/ Revalidate(r)
               \/ CopyMember(r) \/ CompleteStage(r) \/ Publish(r)
               \/ MoveAside(r) \/ Install(r) \/ DropBackup(r)
               \/ CheckTree(r) \/ CompareFiles(r) \/ Finish(r) \/ Abort(r)
        PROVE  AllReproduce'
    BY <2>2, ReproducesLater
  <2>3. ASSUME UNCHANGED run
        PROVE  AllReproduce'
    BY <2>3 DEF AllReproduce
  <2>4. CASE \/ \E key \in MovingKeys : UpstreamMoves(key)
             \/ \E m \in Members, content \in Contents \cup {Absent} :
                  EditSource(m, content)
             \/ UNCHANGED vars
    BY <2>3, <2>4 DEF UpstreamMoves, EditSource, vars
  <2>5. QED
    BY <2>1, <2>2, <2>4 DEF Next
<1>3. QED
  BY <1>1, <1>2, InvariantHolds, TypesHold, ReproducesAll, PTL DEF Spec

=============================================================================
