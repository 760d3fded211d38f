-------------------------- MODULE ImageBuild_proofs --------------------------
(***************************************************************************)
(* A build for any plans, any number of nodes, hooks, submodules, files    *)
(* and changes: the installer never executes anything on top of a state it *)
(* has not proved, runs only hooks the plan locked, ends with exactly the  *)
(* nodes of the plan, and an image with a final manifest is the planned    *)
(* one.                                                                    *)
(*                                                                         *)
(* The first is about skipped observations: an observer that has seen the  *)
(* current epoch need not look again because whatever is executed makes a  *)
(* new epoch first (Observed).  The others follow the program: which nodes *)
(* are admitted at each turn (Admitting), that the final verification      *)
(* skips nothing (FinallyExact), and that no process is left when files    *)
(* are copied and evidence is gathered (NothingRuns).                      *)
(***************************************************************************)
EXTENDS ImageBuild, SequenceTheorems, TLAPS

-----------------------------------------------------------------------------
(* The invariant.                                                          *)

Early ==
    {"checkout", "parse", "group", "verifyGroup", "constraints", "extras",
     "environment", "ordinary", "application", "manager", "anchor",
     "verifyManager", "installed", "endComfyUI"}
Looking == {"mixed", "observeManager", "observeApplication"}
Hooking == {"seal", "digest", "hook"}
Mutating == {"seal", "prepare", "installNode"}
Looping == Looking \cup Hooking \cup Mutating
Downloading == {"download", "verifyFile", "recheckFile"}
Filing ==
    Downloading \cup {"tree", "copy", "normalize", "endFiles", "evidence",
                      "write"}

\* Where the iterations are: a turn that executes something is that of a node
\* of the plan, and the final verification is a node's first boundary.
Turns ==
    /\ at \in Hooking \cup Mutating => turn.node \in 1..Len(plan.nodes)
    /\ at \in Hooking => turn.phase \in {1, 3, 5}
    /\ at = "prepare" => turn.phase = 2
    /\ at = "installNode" => turn.phase = 4
    /\ at = "endNodes" => Final
    /\ Final => turn.phase = 0
    /\ at \in Downloading => file \in 1..Len(plan.downloads)
    /\ at \notin Downloading => file = 1

\* The nodes that are admitted are those before this one, and this one once it
\* is installed.
Before(n) == SubSeq(plan.nodes, 1, n - 1)
Admitting ==
    /\ turn.phase \leq 3 \/ at = "installNode" =>
          context.admitted = Before(turn.node)
    /\ turn.phase > 3 /\ at # "installNode" =>
          context.admitted = Before(turn.node + 1)
    /\ turn.phase = 0 => /\ context.prepared = <<>>
                         /\ context.future = From(turn.node)

\* What an observer has seen in the current epoch still holds.
ManagerIsProved == plan.nodes # <<>> => ManagerHolds(authority)
Observed ==
    /\ at \in Looping \cup {"endNodes"} /\ late = "no" =>
          /\ epoch.manager = epoch.dirty => ManagerIsProved
          /\ epoch.application = epoch.dirty => ApplicationHolds
    /\ at \in Looping \ {"mixed", "digest", "hook"} /\ late = "no" =>
          MixedHolds(context)
    /\ at \in {"observeApplication"} \cup Mutating =>
          epoch.manager = epoch.dirty
    /\ at \in Mutating => epoch.application = epoch.dirty
    /\ at \in {"digest", "hook"} =>
          epoch.manager # epoch.dirty /\ epoch.application # epoch.dirty

\* What the final verification has looked at holds until the RUN step ends.
FinallyExact ==
    LastLook /\ late # "final" =>
        /\ MixedHolds(context)
        /\ at # "observeManager" => ManagerIsProved
        /\ at = "endNodes" => ApplicationHolds

\* No process is left when files are copied and evidence is gathered, so what
\* was verified there holds in the next step.
NothingRuns ==
    /\ at \in Filing => ~leftover
    /\ at = "write" /\ outcome = "building" => EvidenceHolds

\* A tree that is not a directory has no members.
TreeIsDirectory ==
    plan.tree =>
        (img["tree"] \in {"absent", "link"} => img["member"] = "absent")

Inv ==
    /\ TypeOK /\ Turns /\ Admitting /\ Observed /\ FinallyExact
    /\ NothingRuns /\ TreeIsDirectory
    /\ HookRunsLocked /\ CopyMeetsNoLink /\ ManifestIsTrue

-----------------------------------------------------------------------------
(* Typing.                                                                 *)

\* A plan is sequences of nodes and files.
LEMMA PlanIsTyped ==
  ASSUME plan \in Plans
  PROVE  /\ plan.nodes \in Seq(Range(plan.nodes))
         /\ DOMAIN plan.nodes = 1..Len(plan.nodes)
         /\ Len(plan.nodes) \in Nat
         /\ Len(plan.downloads) \in Nat
         /\ DOMAIN plan.downloads = 1..Len(plan.downloads)
         /\ plan.downloads = <<>> <=> Len(plan.downloads) = 0
         /\ \A n \in Range(plan.nodes) : ValidNode(n)
         /\ NamedFacts(plan) \cap FixedFacts = {}
<1>1. ValidPlan(plan)
  BY PlansAssumption
<1>2. /\ plan.nodes \in Seq(Range(plan.nodes))
      /\ plan.downloads \in Seq(Range(plan.downloads))
  BY <1>1 DEF ValidPlan, IsSequence
<1>3. /\ DOMAIN plan.nodes = 1..Len(plan.nodes) /\ Len(plan.nodes) \in Nat
      /\ DOMAIN plan.downloads = 1..Len(plan.downloads)
      /\ Len(plan.downloads) \in Nat
  BY <1>2, LenProperties
<1>4. plan.downloads = <<>> <=> Len(plan.downloads) = 0
  BY <1>2, EmptySeq
<1>5. QED
  BY <1>1, <1>2, <1>3, <1>4 DEF ValidPlan

\* The phases of a node that execute something.
LEMMA RoundsAreCounts ==
  ASSUME NEW node, ValidNode(node)
  PROVE  /\ \A k \in 0..5 : Rounds(node, k) \in Nat
         /\ Rounds(node, 0) = 1 /\ Rounds(node, 4) = 1
         /\ Rounds(node, 2) \in {0, 1}
<1>1. \A k \in {1, 3, 5} : Len(HooksIn(node, k)) \in Nat
  <2>1. \A k \in {1, 3, 5} : IsSequence(HooksIn(node, k))
    BY DEF ValidNode, HooksIn
  <2>2. QED
    BY <2>1, LenProperties DEF IsSequence
<1>2. \A k \in {1, 3, 5} : Rounds(node, k) = Len(HooksIn(node, k))
  BY DEF Rounds
<1>3. /\ Rounds(node, 0) = 1 /\ Rounds(node, 4) = 1
      /\ Rounds(node, 2) \in {0, 1}
  BY DEF Rounds
<1>4. \A k \in 0..5 : k \in {1, 3, 5} \/ k \in {0, 2, 4}
  OBVIOUS
<1>5. QED
  BY <1>1, <1>2, <1>3, <1>4

\* A set of phases has a first.
LEMMA FirstPhase ==
  ASSUME NEW S \in SUBSET (1..5), S # {}
  PROVE  LET k == CHOOSE k \in S : \A l \in S : k <= l
         IN  k \in S /\ \A l \in S : k <= l
<1>1. \E k \in S : \A l \in S : k <= l
  <2>1. CASE 1 \in S
    BY <2>1
  <2>2. CASE 1 \notin S /\ 2 \in S
    BY <2>2
  <2>3. CASE 1 \notin S /\ 2 \notin S /\ 3 \in S
    BY <2>3
  <2>4. CASE 1 \notin S /\ 2 \notin S /\ 3 \notin S /\ 4 \in S
    BY <2>4
  <2>5. CASE S \subseteq {5}
    <3>1. \A k \in S : k = 5
      BY <2>5
    <3>2. PICK k \in S : TRUE
      OBVIOUS
    <3>3. 5 \in S /\ \A l \in S : 5 <= l
      BY <3>1, <3>2
    <3>4. QED
      BY <3>3
  <2>6. \A k \in S : k \in {1, 2, 3, 4, 5}
    OBVIOUS
  <2>7. QED
    BY <2>1, <2>2, <2>3, <2>4, <2>5, <2>6
<1>2. QED
  BY <1>1

\* The next turn is one more round, a later phase of the node, never past its
\* installation, or the next node once this one is installed.
LEMMA FollowingIsLater ==
  ASSUME TypeOK, ~Final, NEW t, t = Following(turn)
  PROVE  /\ t \in [node : 1..(Len(plan.nodes) + 1), phase : 0..5,
                    round : Nat \ {0}]
         /\ \/ /\ t.node = turn.node /\ t.phase = turn.phase
               /\ turn.phase \in {1, 3, 5}
            \/ /\ t.node = turn.node /\ t.phase > turn.phase
               /\ turn.phase < 4 => t.phase <= 4
            \/ t = Begin(turn.node + 1) /\ turn.phase \in {4, 5}
<1> DEFINE node == plan.nodes[turn.node]
           later == {k \in (turn.phase + 1)..5 : Rounds(node, k) > 0}
<1>1. /\ turn.node \in 1..Len(plan.nodes) /\ turn.phase \in 0..5
      /\ turn.round \in Nat \ {0} /\ Len(plan.nodes) \in Nat
      /\ turn = [node |-> turn.node, phase |-> turn.phase,
                 round |-> turn.round]
  BY PlanIsTyped DEF TypeOK, Final
<1>2. ValidNode(node)
  <2>1. node \in Range(plan.nodes)
    BY <1>1, PlanIsTyped DEF TypeOK, Range
  <2>2. QED
    BY <2>1, PlanIsTyped DEF TypeOK
<1>3. /\ \A k \in 0..5 : Rounds(node, k) \in Nat
      /\ Rounds(node, 0) = 1 /\ Rounds(node, 4) = 1
      /\ Rounds(node, 2) \in {0, 1}
  BY <1>2, RoundsAreCounts
<1>4. CASE turn.round < Rounds(node, turn.phase)
  <2>1. t = [turn EXCEPT !.round = @ + 1]
    BY <1>4 DEF Following
  <2>2. turn.phase \in {1, 3, 5}
    <3>1. Rounds(node, turn.phase) > 1
      BY <1>1, <1>3, <1>4
    <3>2. turn.phase \notin {0, 2, 4}
      BY <1>3, <3>1
    <3>3. QED
      BY <1>1, <3>2
  <2>3. t = [node |-> turn.node, phase |-> turn.phase,
             round |-> turn.round + 1]
    BY <1>1, <2>1
  <2>4. QED
    BY <1>1, <2>2, <2>3
<1>5. CASE ~(turn.round < Rounds(node, turn.phase)) /\ later # {}
  <2> DEFINE k == CHOOSE k \in later : \A l \in later : k <= l
  <2>1. t = [node |-> turn.node, round |-> 1, phase |-> k]
    BY <1>5 DEF Following
  <2>2. later \in SUBSET (1..5)
    BY <1>1
  <2>3. k \in later /\ \A l \in later : k <= l
    BY <1>5, <2>2, FirstPhase
  <2> HIDE DEF k
  <2>4. k \in 1..5 /\ k > turn.phase
    BY <1>1, <2>3
  <2>5. turn.phase < 4 => k <= 4
    <3>1. turn.phase < 4 => 4 \in later
      BY <1>1, <1>3
    <3>2. QED
      BY <2>3, <3>1
  <2>6. QED
    BY <1>1, <2>1, <2>4, <2>5
<1>6. CASE ~(turn.round < Rounds(node, turn.phase)) /\ later = {}
  <2>1. t = Begin(turn.node + 1)
    BY <1>6 DEF Following
  <2>2. turn.phase \in {4, 5}
    <3>1. turn.phase < 4 => 4 \in later
      BY <1>1, <1>3
    <3>2. QED
      BY <1>1, <1>6, <3>1
  <2>3. QED
    BY <1>1, <2>1, <2>2 DEF Begin
<1>7. QED
  BY <1>4, <1>5, <1>6

-----------------------------------------------------------------------------
(* What is executed.                                                       *)

Images == [Facts -> States]
TreeOf(image) ==
    plan.tree =>
        (image["tree"] \in {"absent", "link"} => image["member"] = "absent")

\* The names of the plan are not those of a tree.
LEMMA NamedIsNotTree ==
  ASSUME plan \in Plans, NEW f \in NamedFacts(plan)
  PROVE  f \notin {"tree", "member"}
<1>1. {"tree", "member"} \subseteq FixedFacts
  BY DEF FixedFacts
<1>2. NamedFacts(plan) \cap FixedFacts = {}
  BY PlanIsTyped
<1>3. QED
  BY <1>1, <1>2

\* Setting facts gives an image, and a tree that was a directory stays one,
\* unless a member alone is set.
LEMMA SetIsImage ==
  ASSUME img \in Images, TreeOf(img), NEW facts, NEW state \in States
  PROVE  /\ Set(facts, state) \in Images
         /\ facts \cap {"tree", "member"} = {} => TreeOf(Set(facts, state))
         /\ {"tree", "member"} \subseteq facts /\ state = "planned" =>
              TreeOf(Set(facts, state))
<1>1. Set(facts, state) \in Images
  BY DEF Set, Images
<1>2. ASSUME plan.tree
      PROVE  "tree" \in Facts /\ "member" \in Facts
  BY <1>2 DEF Facts, TreeFacts
<1>3. ASSUME facts \cap {"tree", "member"} = {}
      PROVE  TreeOf(Set(facts, state))
  BY <1>2, <1>3 DEF TreeOf, Set
<1>4. ASSUME {"tree", "member"} \subseteq facts, state = "planned"
      PROVE  TreeOf(Set(facts, state))
  BY <1>2, <1>4 DEF TreeOf, Set
<1>5. QED
  BY <1>1, <1>3, <1>4

\* A change gives an image too, and leaves no member without its directory.
LEMMA ChangesAreImages ==
  ASSUME NEW image \in Images, TreeOf(image), NEW new \in Changes(image)
  PROVE  new \in Images /\ TreeOf(new)
<1>1. PICK f \in Facts, state \in States : new = Changed(image, f, state)
  BY DEF Changes
<1>2. DOMAIN image = Facts /\ \A g \in Facts : image[g] \in States
  BY DEF Images
<1>3. /\ DOMAIN new = Facts
      /\ \A g \in Facts :
           new[g] = IF g = f THEN state
                    ELSE IF f = "member" /\ g = "tree" /\ image[g] # "planned"
                    THEN "other"
                    ELSE IF f = "tree" /\ g = "member"
                              /\ state \in {"absent", "link"}
                    THEN "absent" ELSE image[g]
  BY <1>1, <1>2 DEF Changed
<1>4. new \in Images
  <2>1. \A g \in Facts : new[g] \in States
    BY <1>2, <1>3 DEF States
  <2>2. new = [g \in Facts |-> new[g]]
    BY <1>1, <1>2, <1>3 DEF Changed
  <2>3. QED
    BY <2>1, <2>2 DEF Images
<1>5. ASSUME plan.tree, new["tree"] \in {"absent", "link"}
      PROVE  new["member"] = "absent"
  <2>1. "tree" \in Facts /\ "member" \in Facts
    BY <1>5 DEF Facts, TreeFacts
  <2>2. CASE f = "tree"
    BY <1>3, <1>5, <2>1, <2>2
  <2>3. CASE f = "member"
    BY <1>3, <1>5, <2>1, <2>3
  <2>4. CASE f \notin {"tree", "member"}
    BY <1>3, <1>5, <2>1, <2>4 DEF TreeOf
  <2>5. QED
    BY <2>2, <2>3, <2>4
<1>6. QED
  BY <1>4, <1>5 DEF TreeOf

\* So does whatever is executed.
LEMMA ExecutedIsImage ==
  ASSUME TypeOK, NEW image \in Images, TreeOf(image), Executed(image)
  PROVE  /\ img' \in Images /\ TreeOf(img')
         /\ leftover' \in BOOLEAN /\ changes' \in 0..MaxChanges
         /\ late' = late
<1>1. img' = image \/ img' \in Changes(image)
  BY DEF Executed
<1>2. img' \in Images /\ TreeOf(img')
  BY <1>1, ChangesAreImages
<1>3. leftover' \in BOOLEAN /\ late' = late
  BY DEF Executed, TypeOK
<1>4. \/ changes' = changes
      \/ changes < MaxChanges /\ changes' = changes + 1
  BY DEF Executed
<1>5. changes' \in 0..MaxChanges
  BY <1>4, MaxChangesAssumption DEF TypeOK
<1>6. QED
  BY <1>2, <1>3, <1>5

-----------------------------------------------------------------------------
(* The looks at an image depend on what they look at.                      *)

LEMMA SameLooks ==
  ASSUME plan' = plan, img' = img
  PROVE  /\ ApplicationHolds' = ApplicationHolds
         /\ EvidenceHolds' = EvidenceHolds
         /\ AsPlanned' = AsPlanned
<1>1. /\ Facts' = Facts /\ Excluded' = Excluded /\ Unpinned' = Unpinned
      /\ HookFiles' = HookFiles /\ TreeFacts' = TreeFacts
  BY DEF Facts, Excluded, Unpinned, EnvironmentFacts, TreeFacts, HookFiles
<1>2. /\ \A f : Regular(f)' = Regular(f)
      /\ \A facts, state : All(facts, state)' = All(facts, state)
  BY DEF Regular, All
<1>3. ApplicationHolds' = ApplicationHolds
  BY <1>2 DEF ApplicationHolds, IdentityHolds, EnvironmentHolds,
     ConstraintsHold, GroupHolds, ExtrasHold, OrdinaryHolds,
     DependenciesHold, PipHolds
<1>4. AsPlanned' = AsPlanned
  BY <1>1, <1>2 DEF AsPlanned
<1>5. EvidenceHolds' = EvidenceHolds
  <2>1. CheckoutHolds' = CheckoutHolds
    BY <1>2 DEF CheckoutHolds
  <2>2. ManagerHolds(img["managerRequirements"])'
          = ManagerHolds(img["managerRequirements"])
    BY <1>2 DEF ManagerHolds, ImportRootHolds, AnchorHolds, CommandHolds,
       DistributionsHold, ManagerAbsent
  <2>3. /\ CdhHolds' = CdhHolds /\ IsolatedHold' = IsolatedHold
        /\ SystemHolds' = SystemHolds
    BY DEF CdhHolds, IsolatedHold, SystemHolds
  <2>4. FilesHold' = FilesHold
    BY <1>1, <1>2 DEF FilesHold, DownloadHolds, TreeHolds
  <2>5. NodesHold' = NodesHold
    BY <1>2 DEF NodesHold, Provenance, RepositoryRoot, OwnGitDirectory,
       ExactHead, LocalRoot, RegistrySet, RegistryIdentities
  <2>6. HookEvidenceHolds' = HookEvidenceHolds
    BY <1>1, <1>2 DEF HookEvidenceHolds
  <2>7. QED
    BY <1>3, <2>1, <2>2, <2>3, <2>4, <2>5, <2>6 DEF EvidenceHolds
<1>6. QED
  BY <1>3, <1>4, <1>5

LEMMA SameProof ==
  ASSUME plan' = plan, img' = img, authority' = authority
  PROVE  ManagerIsProved' = ManagerIsProved
BY DEF ManagerIsProved, ManagerHolds, ImportRootHolds, AnchorHolds,
   CommandHolds, DistributionsHold, ManagerAbsent, All

LEMMA SameNodes ==
  ASSUME plan' = plan, img' = img, authority' = authority,
         context' = context
  PROVE  MixedHolds(context)' = MixedHolds(context)
BY DEF MixedHolds, Provenance, RepositoryRoot, OwnGitDirectory, ExactHead,
   LocalRoot, Regular, All, HasRegistry, RegistrySet, RegistryIdentities

-----------------------------------------------------------------------------
(* install-comfyui.                                                        *)

\* The steps of one command are not those of another.
LEMMA StepsAreApart ==
  /\ \A s \in Early :
       s \in Steps \ (Looping \cup Filing \cup {"capture", "endNodes"})
  /\ \A s \in Filing : s \in Steps \ (Looping \cup {"endNodes"})
  /\ \A s \in Looping : s \in Steps \ (Filing \cup {"endNodes"})
BY DEF Early, Steps, Looping, Looking, Hooking, Mutating, Filing, Downloading

\* An invariant that only the steps of a custom node can disturb holds after
\* any step outside install-custom-nodes that keeps the plan.
LEMMA OutsideKeeps ==
  ASSUME Inv, UNCHANGED <<plan, loop>>, at \notin Looping,
         at' \in Steps \ (Looping \cup {"endNodes"}),
         at \notin Downloading, at' \notin Downloading
  PROVE  Turns' /\ Admitting' /\ Observed' /\ FinallyExact'
<1>1. /\ UNCHANGED <<turn, context, file>> /\ Final' = Final
      /\ \A n : Before(n)' = Before(n) /\ From(n)' = From(n)
  BY DEF loop, Final, Before, From
<1>2. /\ at' \notin Hooking \cup Mutating \cup {"prepare", "installNode"}
      /\ at \notin {"installNode"}
      /\ at' \notin {"observeManager", "observeApplication", "endNodes",
                     "digest", "hook"}
  BY DEF Looping, Hooking, Mutating, Looking
<1>3. Turns'
  BY <1>1, <1>2 DEF Inv, Turns
<1>4. Admitting'
  BY <1>1, <1>2 DEF Inv, Admitting
<1>5. Observed'
  BY <1>2 DEF Observed
<1>6. FinallyExact'
  BY <1>2 DEF FinallyExact, LastLook
<1>7. QED
  BY <1>3, <1>4, <1>5, <1>6

\* install-comfyui only changes the image and reads the requirements.
LEMMA ComfyUIEffect ==
  ASSUME Inv, \/ Checkout \/ Parse \/ InstallPackages \/ VerifyComfyUI
              \/ WriteConstraints \/ WriteAnchor
  PROVE  /\ at \in Early /\ at' \in Early
         /\ outcome = "building" /\ outcome' = "building"
         /\ UNCHANGED <<plan, loop, epoch, sealed>>
         /\ img' \in Images /\ TreeOf(img')
         /\ authority' \in States \cup {"none"}
         /\ leftover' \in BOOLEAN /\ changes' \in 0..MaxChanges
         /\ late' = late
<1> DEFINE Effect == /\ img' \in Images /\ TreeOf(img')
                     /\ authority' \in States \cup {"none"}
                     /\ leftover' \in BOOLEAN /\ changes' \in 0..MaxChanges
                     /\ late' = late
           Frame == /\ at \in Early /\ at' \in Early
                    /\ outcome = "building" /\ outcome' = "building"
                    /\ UNCHANGED <<plan, loop, epoch, sealed>>
<1>1. TypeOK /\ img \in Images /\ TreeOf(img)
  BY DEF Inv, TypeOK, Images, TreeOf, TreeIsDirectory
<1>2. ASSUME NEW facts, facts \cap {"tree", "member"} = {}
      PROVE  Set(facts, "planned") \in Images
               /\ TreeOf(Set(facts, "planned"))
  BY <1>1, <1>2, SetIsImage DEF States
<1>3. ASSUME Quiet, authority' = authority,
             img' \in Images /\ TreeOf(img')
      PROVE  Effect
  BY <1>1, <1>3 DEF Quiet, TypeOK
<1>4. CASE Checkout
  <2>1. img' = Set({"checkout", "requirements", "managerRequirements"},
                   "planned")
    BY <1>4 DEF Checkout
  <2>2. Effect
    BY <1>2, <1>3, <1>4, <2>1 DEF Checkout, Kept
  <2>3. QED
    BY <1>4, <2>2 DEF Checkout, Goes, At, Kept, Early
<1>5. CASE Parse
  <2>1. "managerRequirements" \in Facts
    BY DEF Facts
  <2>2. authority' \in States
    BY <1>1, <1>5, <2>1 DEF Parse, Images
  <2>3. Effect
    BY <1>1, <1>5, <2>2 DEF Parse, Quiet, TypeOK
  <2>4. QED
    BY <1>5, <2>3 DEF Parse, Goes, At, Early
<1>6. CASE InstallPackages
  <2>1. ASSUME NEW step \in Early, NEW next \in Early, NEW facts,
               facts \cap {"tree", "member"} = {}, Install(step, facts, next)
        PROVE  Effect /\ Frame
    <3>1. Executed(Set(facts, "planned"))
      BY <2>1 DEF Install
    <3>2. Set(facts, "planned") \in Images /\ TreeOf(Set(facts, "planned"))
      BY <1>2, <2>1
    <3>3. Effect
      BY <1>1, <2>1, <3>1, <3>2, ExecutedIsImage DEF Install, Kept, TypeOK
    <3>4. QED
      BY <2>1, <3>3 DEF Install, Goes, At, Kept
  <2>2. /\ {"group", "extras", "ordinary", "manager"} \subseteq Early
        /\ {"verifyGroup", "environment", "application", "anchor"}
             \subseteq Early
    BY DEF Early
  <2>3. /\ {"inventory"} \cap {"tree", "member"} = {}
        /\ {"extras"} \cap {"tree", "member"} = {}
        /\ {"ordinary"} \cap {"tree", "member"} = {}
        /\ (ManagerFacts \ {"anchor"}) \cap {"tree", "member"} = {}
    BY DEF ManagerFacts
  <2>4. CASE Install("group", {"inventory"}, "verifyGroup")
    BY <2>1, <2>2, <2>3, <2>4
  <2>5. CASE Install("extras", {"extras"}, "environment")
    BY <2>1, <2>2, <2>3, <2>5
  <2>6. CASE Install("ordinary", {"ordinary"}, "application")
    BY <2>1, <2>2, <2>3, <2>6
  <2>7. CASE Install("manager", ManagerFacts \ {"anchor"}, "anchor")
    BY <2>1, <2>2, <2>3, <2>7
  <2>8. QED
    BY <1>6, <2>4, <2>5, <2>6, <2>7 DEF InstallPackages
<1>7. CASE VerifyComfyUI
  <2>1. ASSUME NEW step \in Early, NEW next \in Early, NEW holds,
               VerifyStep(step, holds, next)
        PROVE  Effect /\ Frame
    <3>1. Effect
      BY <1>1, <1>3, <2>1 DEF VerifyStep, Kept
    <3>2. QED
      BY <2>1, <3>1 DEF VerifyStep, Goes, At, Kept
  <2>2. /\ {"verifyGroup", "environment", "application", "verifyManager",
            "installed", "constraints", "endComfyUI"} \subseteq Early
        /\ AfterApplication \in Early /\ AfterEnvironment \in Early
    BY DEF AfterApplication, AfterEnvironment, Early
  <2>3. CASE VerifyStep("verifyGroup", GroupHolds /\ DependenciesHold,
                        "constraints")
    BY <2>1, <2>2, <2>3
  <2>4. CASE VerifyStep("environment", EnvironmentHolds(FALSE),
                        AfterEnvironment)
    BY <2>1, <2>2, <2>4
  <2>5. CASE VerifyStep("application", EnvironmentHolds(plan.ordinary),
                        AfterApplication)
    BY <2>1, <2>2, <2>5
  <2>6. CASE VerifyStep("verifyManager", ManagerHolds(authority), "installed")
    BY <2>1, <2>2, <2>6
  <2>7. CASE VerifyStep("installed", EnvironmentHolds(plan.ordinary),
                        "endComfyUI")
    BY <2>1, <2>2, <2>7
  <2>8. QED
    BY <1>7, <2>3, <2>4, <2>5, <2>6, <2>7 DEF VerifyComfyUI
<1>8. CASE WriteConstraints \/ WriteAnchor
  <2>1. AfterConstraints \in Early
    BY DEF AfterConstraints, Early
  <2>2. PICK step \in Early, fact \in {"constraints", "anchor"},
             next \in Early : WriteFile(step, fact, next)
    BY <1>8, <2>1 DEF WriteConstraints, WriteAnchor, Early
  <2>3. Set({fact}, "planned") \in Images /\ TreeOf(Set({fact}, "planned"))
    BY <1>2, <2>2
  <2>4. Effect
    BY <1>3, <2>2, <2>3 DEF WriteFile, Kept
  <2>5. QED
    BY <2>2, <2>4 DEF WriteFile, Goes, At, Kept
<1>9. QED
  BY <1>4, <1>5, <1>6, <1>7, <1>8

LEMMA ComfyUIKeepsInv ==
  ASSUME Inv, \/ Checkout \/ Parse \/ InstallPackages \/ VerifyComfyUI
              \/ WriteConstraints \/ WriteAnchor
  PROVE  Inv'
<1>1. /\ at \in Early /\ at' \in Early
      /\ outcome = "building" /\ outcome' = "building"
      /\ UNCHANGED <<plan, loop, epoch, sealed>>
      /\ img' \in Images /\ TreeOf(img')
      /\ authority' \in States \cup {"none"}
      /\ leftover' \in BOOLEAN /\ changes' \in 0..MaxChanges
      /\ late' = late
  BY ComfyUIEffect
<1>2. /\ at \notin Looping \cup Filing
      /\ at' \in Steps /\ at' \notin Looping \cup Filing \cup {"endNodes"}
  BY <1>1, StepsAreApart
<1>3. Turns' /\ Admitting' /\ Observed' /\ FinallyExact'
  BY <1>1, <1>2, OutsideKeeps DEF Filing
<1>4. Facts' = Facts
  BY <1>1 DEF Facts, EnvironmentFacts, TreeFacts
<1>5. TypeOK'
  BY <1>1, <1>2, <1>4 DEF Inv, TypeOK, Images, loop
<1>6. NothingRuns' /\ HookRunsLocked' /\ CopyMeetsNoLink'
  BY <1>2 DEF NothingRuns, HookRunsLocked, CopyMeetsNoLink, Filing, Looping,
     Hooking
<1>7. TreeIsDirectory'
  BY <1>1 DEF TreeIsDirectory, TreeOf
<1>8. ManifestIsTrue'
  BY <1>1 DEF ManifestIsTrue
<1>9. QED
  BY <1>3, <1>5, <1>6, <1>7, <1>8 DEF Inv

-----------------------------------------------------------------------------
(* install-custom-nodes: its verification.                                 *)

\* While nodes are installed, no file is copied and no evidence gathered.
LEMMA LoopingKeeps ==
  ASSUME at' \in Looping \cup {"endNodes"}, outcome' = "building"
  PROVE  /\ at' \in Steps /\ at' \notin Downloading
         /\ NothingRuns' /\ CopyMeetsNoLink' /\ ManifestIsTrue'
<1>1. at' \in Steps /\ at' \notin Filing
  BY StepsAreApart DEF Steps, Filing, Downloading
<1>2. at' \notin {"write", "copy"} /\ at' \notin Downloading
  BY <1>1 DEF Filing
<1>3. QED
  BY <1>1, <1>2 DEF NothingRuns, CopyMeetsNoLink, ManifestIsTrue

\* A step that changes neither the image nor the turn.
LEMMA SameTurnKeeps ==
  ASSUME Inv, UNCHANGED <<plan, img, authority, loop, outcome>>, Quiet,
         outcome = "building", at \notin Downloading,
         at' \in Looping \cup {"endNodes"},
         at = "installNode" <=> at' = "installNode",
         epoch' \in [dirty : Nat, application : Int, manager : Int],
         {epoch'.application, epoch'.manager} \subseteq -1..epoch'.dirty,
         sealed' \in States \cup {"none"}
  PROVE  /\ TypeOK' /\ Admitting' /\ TreeIsDirectory'
         /\ NothingRuns' /\ CopyMeetsNoLink' /\ ManifestIsTrue'
<1>1. /\ at' \in Steps /\ at' \notin Downloading
      /\ NothingRuns' /\ CopyMeetsNoLink' /\ ManifestIsTrue'
  BY LoopingKeeps
<1>2. UNCHANGED <<turn, context, file, leftover, late, changes>>
  BY DEF loop, Quiet
<1>3. Facts' = Facts
  BY DEF Facts, EnvironmentFacts, TreeFacts
<1>4. TypeOK'
  BY <1>1, <1>2, <1>3 DEF Inv, TypeOK
<1>5. \A n : Before(n)' = Before(n) /\ From(n)' = From(n)
  BY DEF Before, From
<1>6. Admitting'
  BY <1>2, <1>5 DEF Inv, Admitting
<1>7. TreeIsDirectory'
  BY DEF Inv, TreeIsDirectory
<1>8. QED
  BY <1>1, <1>4, <1>6, <1>7

LEMMA CaptureKeepsInv ==
  ASSUME Inv, Capture
  PROVE  Inv'
<1>1. /\ at = "capture" /\ at' = "mixed"
      /\ outcome = "building" /\ outcome' = "building"
      /\ UNCHANGED <<plan, img, sealed, turn, context, file>> /\ Quiet
      /\ authority' = img["managerRequirements"]
      /\ epoch' = [dirty |-> 0, application |-> -1, manager |-> 0]
      /\ plan.nodes # <<>> => ManagerHolds(img["managerRequirements"])
  BY DEF Capture, Goes, At, loop
<1>2. /\ Final' = Final
      /\ \A n : Before(n)' = Before(n) /\ From(n)' = From(n)
  BY <1>1 DEF Final, Before, From
<1>3. Turns'
  BY <1>1, <1>2
     DEF Inv, Turns, Hooking, Mutating, Downloading
<1>4. Admitting'
  BY <1>1, <1>2 DEF Inv, Admitting
<1>5. ManagerIsProved'
  BY <1>1 DEF ManagerIsProved, ManagerHolds, ImportRootHolds, AnchorHolds,
     CommandHolds, DistributionsHold, ManagerAbsent, All
<1>6. Observed'
  BY <1>1, <1>5 DEF Observed, Looping, Looking, Hooking, Mutating
<1>7. FinallyExact' /\ HookRunsLocked'
  BY <1>1 DEF FinallyExact, LastLook, HookRunsLocked
<1>8. /\ at' \in Steps
      /\ NothingRuns' /\ CopyMeetsNoLink' /\ ManifestIsTrue'
  BY <1>1, LoopingKeeps DEF Looping, Looking
<1>9. TypeOK' /\ TreeIsDirectory'
  <2>1. Facts' = Facts /\ "managerRequirements" \in Facts
    BY <1>1 DEF Facts, EnvironmentFacts, TreeFacts
  <2>2. epoch' \in [dirty : Nat, application : Int, manager : Int]
        /\ {epoch'.application, epoch'.manager} \subseteq -1..epoch'.dirty
    BY <1>1
  <2>3. TypeOK'
    BY <1>1, <1>8, <2>1, <2>2 DEF Inv, TypeOK, Quiet
  <2>4. QED
    BY <1>1, <2>3 DEF Inv, TreeIsDirectory
<1>10. QED
  BY <1>3, <1>4, <1>6, <1>7, <1>8, <1>9 DEF Inv

LEMMA MixedKeepsInv ==
  ASSUME Inv, Mixed
  PROVE  Inv'
<1>1. /\ at = "mixed" /\ at' = "observeManager"
      /\ outcome = "building" /\ outcome' = "building"
      /\ UNCHANGED <<plan, img, authority, outcome, epoch, sealed, loop,
                     turn, context, file>>
      /\ Quiet /\ MixedHolds(context)
  BY DEF Mixed, VerifyStep, Goes, At, loop, Kept
<1>2. /\ TypeOK' /\ Admitting' /\ TreeIsDirectory'
      /\ NothingRuns' /\ CopyMeetsNoLink' /\ ManifestIsTrue'
  BY <1>1, SameTurnKeeps DEF Looping, Looking, Downloading, Inv, TypeOK
<1>3. Final' = Final
  BY <1>1 DEF Final
<1>4. Turns'
  BY <1>1, <1>3 DEF Inv, Turns, Hooking, Mutating, Downloading
<1>5. /\ ManagerIsProved' = ManagerIsProved
      /\ ApplicationHolds' = ApplicationHolds
      /\ MixedHolds(context)'
  BY <1>1, SameProof, SameLooks, SameNodes
<1>6. Observed'
  BY <1>1, <1>5 DEF Inv, Observed, Quiet, Looping, Looking, Hooking, Mutating
<1>7. FinallyExact' /\ HookRunsLocked'
  BY <1>1, <1>5 DEF FinallyExact, LastLook, HookRunsLocked
<1>8. QED
  BY <1>2, <1>4, <1>6, <1>7 DEF Inv

LEMMA ObserveManagerKeepsInv ==
  ASSUME Inv, ObserveManager
  PROVE  Inv'
<1>1. /\ at = "observeManager" /\ at' = "observeApplication"
      /\ outcome = "building" /\ outcome' = "building"
      /\ UNCHANGED <<plan, img, authority, outcome, sealed, loop,
                     turn, context, file>>
      /\ Quiet
  BY DEF ObserveManager, Observe, Goes, At, loop
<1>2. /\ epoch' = [epoch EXCEPT !.manager = epoch.dirty]
      /\ \/ ~Final /\ epoch.manager = epoch.dirty
         \/ ManagerIsProved
  BY DEF ObserveManager, Observe, Skipped, Seen, Forced, ManagerIsProved,
     Inv, TypeOK
<1>3. /\ epoch' \in [dirty : Nat, application : Int, manager : Int]
      /\ {epoch'.application, epoch'.manager} \subseteq -1..epoch'.dirty
      /\ epoch'.dirty = epoch.dirty /\ epoch'.manager = epoch.dirty
      /\ epoch'.application = epoch.application
  BY <1>2 DEF Inv, TypeOK
<1>4. /\ TypeOK' /\ Admitting' /\ TreeIsDirectory'
      /\ NothingRuns' /\ CopyMeetsNoLink' /\ ManifestIsTrue'
  BY <1>1, <1>3, SameTurnKeeps DEF Looping, Looking, Downloading, Inv, TypeOK
<1>5. Final' = Final
  BY <1>1 DEF Final
<1>6. Turns'
  BY <1>1, <1>5 DEF Inv, Turns, Hooking, Mutating, Downloading
<1>7. /\ ManagerIsProved' = ManagerIsProved
      /\ ApplicationHolds' = ApplicationHolds
      /\ MixedHolds(context)' = MixedHolds(context)
  BY <1>1, SameProof, SameLooks, SameNodes
<1>8. late = "no" => /\ ManagerIsProved /\ MixedHolds(context)
                     /\ epoch.application = epoch.dirty => ApplicationHolds
  BY <1>1, <1>2 DEF Inv, Observed, Looping, Looking
<1>9. Observed'
  BY <1>1, <1>3, <1>7, <1>8 DEF Observed, Quiet, Mutating
<1>10. LastLook /\ late # "final" => MixedHolds(context)
  BY DEF Inv, FinallyExact
<1>11. FinallyExact' /\ HookRunsLocked'
  BY <1>1, <1>2, <1>5, <1>7, <1>10
     DEF FinallyExact, LastLook, HookRunsLocked, Quiet
<1>12. QED
  BY <1>4, <1>6, <1>9, <1>11 DEF Inv

\* The next turn starts with its phase, after the nodes admitted so far.
LEMMA ProceedKeeps ==
  ASSUME Inv, ~Final, Proceed, UNCHANGED <<plan, file>>,
         at = "observeApplication"
  PROVE  /\ at' \in {"mixed"} \cup Mutating
         /\ turn' \in [node : 1..(Len(plan.nodes) + 1), phase : 0..5,
                       round : Nat \ {0}]
         /\ Turns' /\ Admitting'
         /\ at' # "mixed" => context' = context
<1> DEFINE t == Following(turn)
<1>1. TypeOK
  BY DEF Inv
<1>2. /\ turn' = t /\ at' = Start(t.phase)
      /\ context' = IF t.phase = 0
                    THEN Context(context.admitted, <<>>, From(t.node))
                    ELSE context
  BY DEF Proceed
<1>3. /\ t \in [node : 1..(Len(plan.nodes) + 1), phase : 0..5,
                round : Nat \ {0}]
      /\ \/ /\ t.node = turn.node /\ t.phase = turn.phase
            /\ turn.phase \in {1, 3, 5}
         \/ /\ t.node = turn.node /\ t.phase > turn.phase
            /\ turn.phase < 4 => t.phase <= 4
         \/ t = Begin(turn.node + 1) /\ turn.phase \in {4, 5}
  BY <1>1, FollowingIsLater
<1> HIDE DEF t
<1>4. /\ turn.node \in 1..Len(plan.nodes) /\ turn.phase \in 0..5
      /\ Len(plan.nodes) \in Nat /\ t.phase \in 0..5
  BY <1>1, <1>3, PlanIsTyped DEF TypeOK, Final
<1>5. \/ t.phase = 0 /\ at' = "mixed"
      \/ t.phase = 2 /\ at' = "prepare"
      \/ t.phase = 4 /\ at' = "installNode"
      \/ t.phase \in {1, 3, 5} /\ at' = "seal"
  BY <1>2, <1>4 DEF Start
<1>6. \/ t.node = turn.node /\ t.phase # 0
      \/ t = Begin(turn.node + 1) /\ t.node = turn.node + 1 /\ t.phase = 0
  BY <1>3, <1>4 DEF Begin
<1>7. Final' <=> t.node > Len(plan.nodes)
  BY <1>2 DEF Final
<1>8. file = 1
  BY DEF Inv, Turns, Downloading
<1>9. Turns'
  <2>1. Final' => t.phase = 0
    BY <1>4, <1>6, <1>7
  <2>2. t.phase # 0 => t.node \in 1..Len(plan.nodes)
    BY <1>4, <1>6
  <2>3. QED
    BY <1>2, <1>5, <1>8, <2>1, <2>2
       DEF Turns, Hooking, Mutating, Downloading
<1>10. Admitting'
  <2>1. /\ turn.phase <= 3 => context.admitted = Before(turn.node)
        /\ turn.phase > 3 => context.admitted = Before(turn.node + 1)
    BY DEF Inv, Admitting
  <2>2. context'.admitted = context.admitted
    BY <1>2 DEF Context
  <2>3. \A n : Before(n)' = Before(n) /\ From(n)' = From(n)
    BY DEF Before, From
  <2>4. CASE t.phase # 0
    <3>1. t.node = turn.node
      BY <1>6, <2>4
    <3>2. at' = "installNode" <=> t.phase = 4
      BY <1>4, <1>5
    <3>3. /\ t.phase <= 4 => turn.phase <= 3
          /\ t.phase > 4 => turn.phase > 3
      BY <1>3, <1>4, <2>4 DEF Begin
    <3>4. /\ t.phase <= 3 \/ at' = "installNode" =>
               context.admitted = Before(turn.node)
          /\ t.phase > 3 /\ at' # "installNode" =>
               context.admitted = Before(turn.node + 1)
      BY <1>4, <2>1, <3>2, <3>3
    <3>5. QED
      BY <1>2, <2>2, <2>3, <2>4, <3>1, <3>4 DEF Admitting
  <2>5. CASE t.phase = 0
    <3>1. t.node = turn.node + 1 /\ turn.phase \in {4, 5}
      BY <1>3, <1>4, <1>6, <2>5
    <3>2. at' = "mixed" /\ context.admitted = Before(t.node)
      BY <1>5, <2>1, <2>5, <3>1
    <3>3. context'.prepared = <<>> /\ context'.future = From(t.node)
      BY <1>2, <2>5 DEF Context
    <3>4. QED
      BY <1>2, <2>2, <2>3, <2>5, <3>2, <3>3 DEF Admitting
  <2>6. QED
    BY <2>4, <2>5
<1>11. at' \in {"mixed"} \cup Mutating
  BY <1>5 DEF Mutating
<1>12. at' # "mixed" => context' = context
  BY <1>2, <1>5
<1>13. QED
  BY <1>2, <1>3, <1>9, <1>10, <1>11, <1>12

LEMMA ObserveApplicationKeepsInv ==
  ASSUME Inv, ObserveApplication
  PROVE  Inv'
<1>1. /\ at = "observeApplication"
      /\ outcome = "building" /\ outcome' = "building"
      /\ UNCHANGED <<plan, img, authority, sealed, file>> /\ Quiet
  BY DEF ObserveApplication, Observe, At
<1>2. /\ epoch' = [epoch EXCEPT !.application = epoch.dirty]
      /\ \/ ~Final /\ epoch.application = epoch.dirty
         \/ ApplicationHolds
  BY DEF ObserveApplication, Observe, Skipped, Seen, Forced, Inv, TypeOK
<1>3. /\ epoch' \in [dirty : Nat, application : Int, manager : Int]
      /\ {epoch'.application, epoch'.manager} \subseteq -1..epoch'.dirty
      /\ epoch'.dirty = epoch.dirty /\ epoch'.application = epoch.dirty
      /\ epoch'.manager = epoch.manager
  BY <1>2 DEF Inv, TypeOK
<1>4. epoch.manager = epoch.dirty
  BY <1>1 DEF Inv, Observed
<1>5. late = "no" => /\ ManagerIsProved /\ MixedHolds(context)
                     /\ ApplicationHolds
  <2>1. late = "no" => /\ epoch.manager = epoch.dirty => ManagerIsProved
                       /\ epoch.application = epoch.dirty
                            => ApplicationHolds
                       /\ MixedHolds(context)
    BY <1>1 DEF Inv, Observed, Looping, Looking
  <2>2. QED
    BY <1>2, <1>4, <2>1
<1>6. ManagerIsProved' = ManagerIsProved
        /\ ApplicationHolds' = ApplicationHolds
  BY <1>1, SameProof, SameLooks
<1>7. Facts' = Facts
  BY <1>1 DEF Facts, EnvironmentFacts, TreeFacts
<1>8. TreeIsDirectory'
  BY <1>1 DEF Inv, TreeIsDirectory
<1>9. CASE Final
  <2>1. at' = "endNodes" /\ UNCHANGED <<turn, context>>
    BY <1>9 DEF ObserveApplication
  <2>2. /\ TypeOK' /\ Admitting' /\ TreeIsDirectory'
        /\ NothingRuns' /\ CopyMeetsNoLink' /\ ManifestIsTrue'
    BY <1>1, <1>3, <2>1, SameTurnKeeps DEF Downloading, Inv, TypeOK, loop
  <2>3. Final' = Final
    BY <1>1, <2>1 DEF Final
  <2>4. Turns'
    BY <1>1, <1>9, <2>1, <2>3
       DEF Inv, Turns, Hooking, Mutating, Downloading
  <2>5. MixedHolds(context)' = MixedHolds(context)
    BY <1>1, <2>1, SameNodes
  <2>6. Observed'
    BY <1>1, <1>3, <1>5, <1>6, <2>1, <2>5
       DEF Observed, Quiet, Looping, Looking, Hooking, Mutating
  <2>7. late # "final" => MixedHolds(context) /\ ManagerIsProved
    BY <1>1, <1>9 DEF Inv, FinallyExact, LastLook
  <2>8. FinallyExact' /\ HookRunsLocked'
    BY <1>1, <1>2, <1>6, <1>9, <2>1, <2>5, <2>7
       DEF FinallyExact, HookRunsLocked, Quiet
  <2>9. QED
    BY <2>2, <2>4, <2>6, <2>8 DEF Inv
<1>10. CASE ~Final
  <2>1. Proceed
    BY <1>10 DEF ObserveApplication
  <2>2. /\ at' \in {"mixed"} \cup Mutating
        /\ turn' \in [node : 1..(Len(plan.nodes) + 1), phase : 0..5,
                      round : Nat \ {0}]
        /\ Turns' /\ Admitting'
        /\ at' # "mixed" => context' = context
    BY <1>1, <1>10, <2>1, ProceedKeeps
  <2>3. at' \in Looping
    BY <2>2 DEF Looping, Looking
  <2>4. /\ at' \in Steps
        /\ NothingRuns' /\ CopyMeetsNoLink' /\ ManifestIsTrue'
    BY <1>1, <2>3, LoopingKeeps
  <2>5. TypeOK'
    BY <1>1, <1>3, <1>7, <2>2, <2>4 DEF Inv, TypeOK, Quiet
  <2>6. at' # "mixed" => MixedHolds(context)' = MixedHolds(context)
    BY <1>1, <2>2, SameNodes
  <2>7. Observed'
    BY <1>1, <1>3, <1>4, <1>5, <1>6, <2>2, <2>6
       DEF Observed, Quiet, Looping, Looking, Hooking, Mutating
  <2>8. FinallyExact' /\ HookRunsLocked'
    BY <2>2 DEF FinallyExact, LastLook, HookRunsLocked, Mutating
  <2>9. QED
    BY <1>8, <2>2, <2>4, <2>5, <2>7, <2>8 DEF Inv
<1>11. QED
  BY <1>9, <1>10

-----------------------------------------------------------------------------
(* install-custom-nodes: what it executes.                                 *)

\* Whatever is executed makes a new epoch that nobody has seen.
LEMMA NewEpoch ==
  ASSUME TypeOK, Invalidated
  PROVE  /\ epoch' \in [dirty : Nat, application : Int, manager : Int]
         /\ {epoch'.application, epoch'.manager} \subseteq -1..epoch'.dirty
         /\ epoch'.manager # epoch'.dirty
         /\ epoch'.application # epoch'.dirty
BY DEF TypeOK, Invalidated

LEMMA SealHookKeepsInv ==
  ASSUME Inv, SealHook
  PROVE  Inv'
<1>1. /\ at = "seal" /\ at' = "digest"
      /\ outcome = "building" /\ outcome' = "building"
      /\ UNCHANGED <<plan, img, authority, outcome, loop,
                     turn, context, file>>
      /\ Quiet
  BY DEF SealHook, Goes, At, loop
<1>2. sealed' \in States
  BY DEF SealHook, OpensHook, Regular, States
<1>3. /\ epoch' \in [dirty : Nat, application : Int, manager : Int]
      /\ {epoch'.application, epoch'.manager} \subseteq -1..epoch'.dirty
      /\ epoch'.manager # epoch'.dirty
      /\ epoch'.application # epoch'.dirty
  BY NewEpoch DEF SealHook, Inv
<1>4. /\ TypeOK' /\ Admitting' /\ TreeIsDirectory'
      /\ NothingRuns' /\ CopyMeetsNoLink' /\ ManifestIsTrue'
  BY <1>1, <1>2, <1>3, SameTurnKeeps DEF Looping, Hooking, Downloading
<1>5. Final' = Final
  BY <1>1 DEF Final
<1>6. Turns'
  BY <1>1, <1>5 DEF Inv, Turns, Hooking, Mutating, Downloading
<1>7. Observed'
  BY <1>1, <1>3 DEF Observed, Looping, Looking, Hooking, Mutating
<1>8. FinallyExact' /\ HookRunsLocked'
  BY <1>1 DEF FinallyExact, LastLook, HookRunsLocked
<1>9. QED
  BY <1>4, <1>6, <1>7, <1>8 DEF Inv

LEMMA CheckDigestKeepsInv ==
  ASSUME Inv, CheckDigest
  PROVE  Inv'
<1>1. /\ at = "digest" /\ at' = "hook" /\ sealed = "planned"
      /\ outcome = "building" /\ outcome' = "building"
      /\ UNCHANGED <<plan, img, authority, outcome, epoch, sealed, loop,
                     turn, context, file>>
      /\ Quiet
  BY DEF CheckDigest, VerifyStep, DigestMatches, Goes, At, loop, Kept
<1>2. /\ TypeOK' /\ Admitting' /\ TreeIsDirectory'
      /\ NothingRuns' /\ CopyMeetsNoLink' /\ ManifestIsTrue'
  BY <1>1, SameTurnKeeps DEF Looping, Hooking, Downloading, Inv, TypeOK
<1>3. Final' = Final
  BY <1>1 DEF Final
<1>4. Turns'
  BY <1>1, <1>3 DEF Inv, Turns, Hooking, Mutating, Downloading
<1>5. /\ ManagerIsProved' = ManagerIsProved
      /\ ApplicationHolds' = ApplicationHolds
  BY <1>1, SameProof, SameLooks
<1>6. Observed'
  BY <1>1, <1>5 DEF Inv, Observed, Looping, Looking, Hooking, Mutating
<1>7. FinallyExact' /\ HookRunsLocked'
  BY <1>1 DEF FinallyExact, LastLook, HookRunsLocked
<1>8. QED
  BY <1>2, <1>4, <1>6, <1>7 DEF Inv

\* What every step does that executes something and leads to a boundary: the
\* image is another one, and nobody has seen it.
LEMMA ExecutionKeepsInv ==
  ASSUME Inv, NEW image \in Images, TreeOf(image), Executed(image),
         outcome = "building", UNCHANGED <<plan, authority, outcome>>,
         UNCHANGED <<turn, file>>,
         at \in Looping \ {"seal"}, at' = "mixed",
         epoch' \in [dirty : Nat, application : Int, manager : Int],
         {epoch'.application, epoch'.manager} \subseteq -1..epoch'.dirty,
         epoch'.manager # epoch'.dirty, epoch'.application # epoch'.dirty,
         sealed' \in States \cup {"none"}, Admitting'
  PROVE  Inv'
<1>1. /\ img' \in Images /\ TreeOf(img')
      /\ leftover' \in BOOLEAN /\ changes' \in 0..MaxChanges
      /\ late' = late
  BY ExecutedIsImage DEF Inv
<1>2. /\ at' \in Steps /\ at' \notin Downloading /\ at \notin Downloading
      /\ NothingRuns' /\ CopyMeetsNoLink' /\ ManifestIsTrue'
  BY LoopingKeeps
     DEF Looping, Looking, Hooking, Mutating, Downloading
<1>3. Facts' = Facts
  BY DEF Facts, EnvironmentFacts, TreeFacts
<1>4. TypeOK'
  BY <1>1, <1>2, <1>3 DEF Inv, TypeOK, Images
<1>5. TreeIsDirectory'
  BY <1>1 DEF TreeIsDirectory, TreeOf
<1>6. Final' = Final
  BY DEF Final
<1>7. Turns'
  BY <1>2, <1>6 DEF Inv, Turns, Hooking, Mutating
<1>8. Observed'
  BY DEF Observed, Mutating
<1>9. FinallyExact' /\ HookRunsLocked'
  BY DEF FinallyExact, LastLook, HookRunsLocked
<1>10. QED
  BY <1>2, <1>4, <1>5, <1>7, <1>8, <1>9 DEF Inv

LEMMA RunHookKeepsInv ==
  ASSUME Inv, RunHook
  PROVE  Inv'
<1>1. /\ at = "hook" /\ at' = "mixed" /\ sealed' = "none"
      /\ outcome = "building" /\ Executed(img)
      /\ UNCHANGED <<plan, authority, outcome, epoch, turn, context, file>>
  BY DEF RunHook, Goes, At, loop
<1>2. img \in Images /\ TreeOf(img)
  BY DEF Inv, TypeOK, Images, TreeIsDirectory, TreeOf
<1>3. /\ epoch' \in [dirty : Nat, application : Int, manager : Int]
      /\ {epoch'.application, epoch'.manager} \subseteq -1..epoch'.dirty
      /\ epoch'.manager # epoch'.dirty
      /\ epoch'.application # epoch'.dirty
  BY <1>1 DEF Inv, TypeOK, Observed
<1>4. Admitting'
  <2>1. \A n : Before(n)' = Before(n) /\ From(n)' = From(n)
    BY <1>1 DEF Before, From
  <2>2. QED
    BY <1>1, <2>1 DEF Inv, Admitting
<1>5. QED
  BY <1>1, <1>2, <1>3, <1>4, ExecutionKeepsInv DEF Looping, Hooking

\* What is set up for a node of the plan is not a tree.
LEMMA NodeIsNoTree ==
  ASSUME TypeOK, turn.node \in 1..Len(plan.nodes)
  PROVE  /\ Node \in Range(plan.nodes)
         /\ Node.kind \in {"local", "registry"} =>
              {Node.name} \cap {"tree", "member"} = {}
         /\ Repositories(<<Node>>) \cap {"tree", "member"} = {}
<1>1. Node \in Range(plan.nodes)
  BY PlanIsTyped DEF TypeOK, Node, Range
<1>2. ASSUME Node.kind \in {"local", "registry"}
      PROVE  Node.name \in NamedFacts(plan)
  BY <1>1, <1>2 DEF NamedFacts, Names
<1>3. Repositories(<<Node>>) \subseteq NamedFacts(plan)
  <2>1. Range(<<Node>>) = {Node}
    BY DEF Range
  <2>2. Names(<<Node>>, "git") \subseteq Names(plan.nodes, "git")
    BY <1>1, <2>1 DEF Names
  <2>3. QED
    BY <2>2 DEF Repositories, NamedFacts
<1>4. QED
  BY <1>1, <1>2, <1>3, NamedIsNotTree DEF TypeOK

LEMMA PrepareSourceKeepsInv ==
  ASSUME Inv, PrepareSource
  PROVE  Inv'
<1>1. /\ at = "prepare" /\ at' = "mixed" /\ outcome = "building"
      /\ Executed(IF Node.kind = "git" THEN Cloned ELSE Copied)
      /\ context' = Context(context.admitted, <<Node>>, From(turn.node + 1))
      /\ UNCHANGED <<plan, authority, outcome, sealed, turn, file>>
  BY DEF PrepareSource, Goes, At
<1>2. TypeOK /\ img \in Images /\ TreeOf(img)
  BY DEF Inv, TypeOK, Images, TreeIsDirectory, TreeOf
<1>3. turn.node \in 1..Len(plan.nodes) /\ turn.phase = 2
  BY <1>1 DEF Inv, Turns, Mutating
<1>4. /\ Node.kind \in {"local", "registry"} =>
           {Node.name} \cap {"tree", "member"} = {}
      /\ Repositories(<<Node>>) \cap {"tree", "member"} = {}
      /\ Node.kind \in {"git", "registry", "local"}
  BY <1>2, <1>3, NodeIsNoTree, PlanIsTyped DEF TypeOK, ValidNode
<1>5. Cloned \in Images /\ TreeOf(Cloned)
  BY <1>2, <1>4, SetIsImage DEF Cloned, States
<1>6. Node.kind # "git" => Copied \in Images /\ TreeOf(Copied)
  BY <1>2, <1>4, SetIsImage DEF Copied, States
<1>7. PICK image \in Images : TreeOf(image) /\ Executed(image)
  BY <1>1, <1>5, <1>6
<1>8. /\ epoch' \in [dirty : Nat, application : Int, manager : Int]
      /\ {epoch'.application, epoch'.manager} \subseteq -1..epoch'.dirty
      /\ epoch'.manager # epoch'.dirty
      /\ epoch'.application # epoch'.dirty
  BY <1>2, NewEpoch DEF PrepareSource
<1>9. Admitting'
  <2>1. context.admitted = Before(turn.node)
    BY <1>3 DEF Inv, Admitting
  <2>2. context'.admitted = context.admitted
    BY <1>1 DEF Context
  <2>3. \A n : Before(n)' = Before(n)
    BY <1>1 DEF Before
  <2>4. QED
    BY <1>1, <1>3, <2>1, <2>2, <2>3 DEF Admitting
<1>10. sealed' \in States \cup {"none"} /\ at \in Looping \ {"seal"}
  BY <1>1, <1>2 DEF TypeOK, Looping, Mutating
<1>11. QED
  BY <1>1, <1>7, <1>8, <1>9, <1>10, ExecutionKeepsInv

\* The nodes before the next one are those before this one, and this one.
LEMMA PrefixGrows ==
  ASSUME NEW S, NEW seq \in Seq(S), NEW n \in 1..Len(seq)
  PROVE  Append(SubSeq(seq, 1, n - 1), seq[n]) = SubSeq(seq, 1, n)
<1>1. Len(seq) \in Nat /\ DOMAIN seq = 1..Len(seq)
  BY LenProperties
<1>2. 1 \in 1..Len(seq) /\ n \in 1..Len(seq) /\ n \in Nat
  BY <1>1
<1>3. \A i \in 1..(n - 1) : seq[i] \in S
  <2>1. \A i \in 1..(n - 1) : i \in 1..Len(seq)
    BY <1>1, <1>2
  <2>2. QED
    BY <2>1, ElementOfSeq
<1>4. n - 1 \in Int /\ 1 \in Int
  BY <1>2
<1>5. SubSeq(seq, 1, n - 1) \in Seq(S)
  BY <1>3, <1>4, SubSeqProperties, Zenon
<1>6. SubSeq(seq, 1, n) = SubSeq(seq, 1, n - 1) \o <<seq[n]>>
  <2>1. n \in 1..n
    BY <1>2
  <2>2. QED
    BY <1>2, <2>1, SubSeqRecursiveSecond
<1>7. seq[n] \in S
  BY ElementOfSeq
<1>8. Append(SubSeq(seq, 1, n - 1), seq[n])
        = SubSeq(seq, 1, n - 1) \o <<seq[n]>>
  BY <1>5, <1>7, AppendIsConcat
<1>9. QED
  BY <1>6, <1>8

LEMMA InstallSourceKeepsInv ==
  ASSUME Inv, InstallSource
  PROVE  Inv'
<1>1. /\ at = "installNode" /\ at' = "mixed" /\ outcome = "building"
      /\ Executed(IF Node.kind = "registry" THEN RegistryInstalled
                                            ELSE SurfacesInstalled)
      /\ context' = Context(Append(context.admitted, Node), <<>>,
                            From(turn.node + 1))
      /\ UNCHANGED <<plan, authority, outcome, sealed, turn, file>>
  BY DEF InstallSource, Goes, At
<1>2. TypeOK /\ img \in Images /\ TreeOf(img)
  BY DEF Inv, TypeOK, Images, TreeIsDirectory, TreeOf
<1>3. turn.node \in 1..Len(plan.nodes) /\ turn.phase = 4
  BY <1>1 DEF Inv, Turns, Mutating
<1>4. Node \in Range(plan.nodes)
        /\ (Node.kind \in {"local", "registry"} =>
              {Node.name} \cap {"tree", "member"} = {})
  BY <1>2, <1>3, NodeIsNoTree
<1>5. Node.kind = "registry" =>
        RegistryInstalled \in Images /\ TreeOf(RegistryInstalled)
  BY <1>2, <1>4, SetIsImage DEF RegistryInstalled, States
<1>6. PICK image \in Images : TreeOf(image) /\ Executed(image)
  BY <1>1, <1>2, <1>5 DEF SurfacesInstalled
<1>7. /\ epoch' \in [dirty : Nat, application : Int, manager : Int]
      /\ {epoch'.application, epoch'.manager} \subseteq -1..epoch'.dirty
      /\ epoch'.manager # epoch'.dirty
      /\ epoch'.application # epoch'.dirty
  BY <1>2, NewEpoch DEF InstallSource
<1>8. Admitting'
  <2> DEFINE nodes == plan.nodes
             n == turn.node
  <2>1. context.admitted = Before(n)
    BY <1>1 DEF Inv, Admitting
  <2>2. context'.admitted = Append(Before(n), Node)
    BY <1>1, <2>1 DEF Context
  <2>3. /\ nodes \in Seq(Range(nodes)) /\ Len(nodes) \in Nat
        /\ DOMAIN nodes = 1..Len(nodes)
    BY <1>2, PlanIsTyped DEF TypeOK
  <2>4. Append(SubSeq(nodes, 1, n - 1), nodes[n]) = SubSeq(nodes, 1, n)
    BY <1>3, <2>3, PrefixGrows
  <2>5. Append(Before(n), Node) = Before(n + 1)
    BY <1>3, <2>4 DEF Before, Node
  <2>6. \A k : Before(k)' = Before(k)
    BY <1>1 DEF Before
  <2>7. QED
    BY <1>1, <1>3, <2>2, <2>5, <2>6 DEF Admitting
<1>9. sealed' \in States \cup {"none"} /\ at \in Looping \ {"seal"}
  BY <1>1, <1>2 DEF TypeOK, Looping, Mutating
<1>10. QED
  BY <1>1, <1>6, <1>7, <1>8, <1>9, ExecutionKeepsInv

-----------------------------------------------------------------------------
(* Files and the final manifest.                                           *)

\* A step of the commands that put files in place, where nothing is executed.
LEMMA FilingKeepsInv ==
  ASSUME Inv, at \in Filing, at' \in Filing, Quiet,
         outcome = "building", outcome' = "building",
         UNCHANGED <<plan, turn, context, epoch, sealed, authority>>,
         img' \in Images, TreeOf(img'), file' \in Nat \ {0},
         at' \in Downloading => file' \in 1..Len(plan.downloads),
         at' \notin Downloading => file' = 1,
         CopyMeetsNoLink', at' = "write" => EvidenceHolds'
  PROVE  Inv'
<1>1. /\ at \notin Looping \cup {"endNodes"}
      /\ at' \in Steps /\ at' \notin Looping \cup {"endNodes"}
  BY StepsAreApart
<1>2. /\ at' \notin Hooking \cup Mutating
      /\ at \notin {"installNode"}
      /\ at' \notin {"observeManager", "observeApplication", "endNodes",
                     "digest", "hook", "prepare", "installNode"}
  BY <1>1 DEF Looping, Hooking, Mutating, Looking
<1>3. /\ Final' = Final
      /\ \A n : Before(n)' = Before(n) /\ From(n)' = From(n)
  BY DEF Final, Before, From
<1>4. Facts' = Facts
  BY DEF Facts, EnvironmentFacts, TreeFacts
<1>5. TypeOK'
  BY <1>1, <1>4 DEF Inv, TypeOK, Images, Quiet
<1>6. Turns'
  BY <1>2, <1>3 DEF Inv, Turns
<1>7. Admitting'
  BY <1>2, <1>3 DEF Inv, Admitting
<1>8. Observed' /\ FinallyExact' /\ HookRunsLocked' /\ ManifestIsTrue'
  BY <1>1, <1>2
     DEF Observed, FinallyExact, LastLook, HookRunsLocked, ManifestIsTrue
<1>9. NothingRuns'
  BY DEF Inv, NothingRuns, Quiet
<1>10. TreeIsDirectory'
  BY DEF TreeIsDirectory, TreeOf
<1>11. QED
  BY <1>5, <1>6, <1>7, <1>8, <1>9, <1>10 DEF Inv

LEMMA DownloadFileKeepsInv ==
  ASSUME Inv, DownloadFile
  PROVE  Inv'
<1>1. /\ at = "download" /\ at' = "verifyFile" /\ Quiet
      /\ outcome = "building" /\ outcome' = "building"
      /\ UNCHANGED <<plan, turn, context, file, epoch, sealed, authority>>
  BY DEF DownloadFile, Goes, At, Kept, loop
<1>2. PICK state \in States : img' = Set({Download.name}, state)
  BY DEF DownloadFile, States
<1>3. TypeOK /\ img \in Images /\ TreeOf(img)
  BY DEF Inv, TypeOK, Images, TreeIsDirectory, TreeOf
<1>4. file \in 1..Len(plan.downloads)
  BY <1>1 DEF Inv, Turns, Downloading
<1>5. Download.name \in NamedFacts(plan)
  <2>1. Download \in Range(plan.downloads)
    BY <1>3, <1>4, PlanIsTyped DEF TypeOK, Download, Range
  <2>2. Download.name \in {d.name : d \in Range(plan.downloads)}
    BY <2>1
  <2>3. QED
    BY <2>2 DEF NamedFacts
<1>6. {Download.name} \cap {"tree", "member"} = {}
  BY <1>3, <1>5, NamedIsNotTree DEF TypeOK
<1>7. img' \in Images /\ TreeOf(img')
  BY <1>2, <1>3, <1>6, SetIsImage
<1>8. CopyMeetsNoLink'
  BY <1>1 DEF CopyMeetsNoLink
<1>9. /\ at \in Filing /\ at' \in Filing /\ at' \in Downloading
      /\ file' \in Nat \ {0}
  BY <1>1, <1>3 DEF Filing, Downloading, TypeOK
<1>10. QED
  BY <1>1, <1>4, <1>7, <1>8, <1>9, FilingKeepsInv

LEMMA VerifyFilesKeepInv ==
  ASSUME Inv, VerifyFiles
  PROVE  Inv'
<1>1. \/ VerifyFile("verifyFile", "download", "recheckFile")
      \/ VerifyFile("recheckFile", "recheckFile", "tree")
  BY DEF VerifyFiles
<1>2. /\ at \in {"verifyFile", "recheckFile"} /\ Quiet
      /\ outcome = "building" /\ outcome' = "building"
      /\ UNCHANGED <<plan, img, turn, context, epoch, sealed, authority>>
      /\ \/ ~IsLast /\ file' = file + 1 /\ at' \in {"download", "recheckFile"}
         \/ IsLast /\ file' = 1 /\ at' \in {"recheckFile", "tree"}
  BY <1>1 DEF VerifyFile, At, Kept
<1>3. TypeOK /\ img \in Images /\ TreeOf(img)
  BY DEF Inv, TypeOK, Images, TreeIsDirectory, TreeOf
<1>4. file \in 1..Len(plan.downloads) /\ Len(plan.downloads) \in Nat
  BY <1>2, <1>3, PlanIsTyped DEF Inv, Turns, Downloading, TypeOK
<1>5. file' \in 1..Len(plan.downloads)
  BY <1>2, <1>4 DEF IsLast
<1>6. at' \notin Downloading => file' = 1
  BY <1>2 DEF Downloading
<1>7. /\ at \in Filing /\ at' \in Filing /\ at' \notin {"copy", "write"}
  BY <1>2 DEF Filing, Downloading
<1>8. CopyMeetsNoLink' /\ file' \in Nat \ {0}
  BY <1>4, <1>5, <1>7 DEF CopyMeetsNoLink
<1>9. QED
  BY <1>2, <1>3, <1>5, <1>6, <1>7, <1>8, FilingKeepsInv

LEMMA VerifyTreeKeepsInv ==
  ASSUME Inv, VerifyTree
  PROVE  Inv'
<1>1. /\ at = "tree" /\ at' = (IF plan.tree THEN "copy" ELSE "endFiles")
      /\ TreeAdmitted /\ Quiet
      /\ outcome = "building" /\ outcome' = "building"
      /\ UNCHANGED <<plan, img, turn, context, file, epoch, sealed,
                     authority>>
  BY DEF VerifyTree, VerifyStep, Goes, At, Kept, loop
<1>2. TypeOK /\ img \in Images /\ TreeOf(img)
  BY DEF Inv, TypeOK, Images, TreeIsDirectory, TreeOf
<1>3. plan.tree => img["tree"] # "link" /\ img["member"] # "link"
  BY <1>1, <1>2 DEF TreeAdmitted, TreeOf
<1>4. CopyMeetsNoLink'
  BY <1>1, <1>3 DEF CopyMeetsNoLink, TreeFacts
<1>5. file = 1
  BY <1>1 DEF Inv, Turns, Downloading
<1>6. /\ at \in Filing /\ at' \in Filing
      /\ at' \notin Downloading /\ at' # "write"
  BY <1>1 DEF Filing, Downloading
<1>7. QED
  BY <1>1, <1>2, <1>4, <1>5, <1>6, FilingKeepsInv

LEMMA CopyTreeKeepsInv ==
  ASSUME Inv, CopyTree \/ NormalizeTree
  PROVE  Inv'
<1>1. /\ \/ at = "copy" /\ at' = "normalize"
         \/ at = "normalize" /\ at' = "endFiles"
      /\ Quiet /\ outcome = "building" /\ outcome' = "building"
      /\ UNCHANGED <<plan, turn, context, file, epoch, sealed, authority>>
  BY DEF CopyTree, NormalizeTree, Goes, At, Kept, loop
<1>2. TypeOK /\ img \in Images /\ TreeOf(img)
  BY DEF Inv, TypeOK, Images, TreeIsDirectory, TreeOf
<1>3. CASE CopyTree
  <2>1. /\ img' = [f \in Facts |-> IF f \in TreeFacts /\ img[f] # "link"
                                   THEN "other" ELSE img[f]]
        /\ at = "copy"
    BY <1>3 DEF CopyTree, Goes, At
  <2>2. img' \in Images
    BY <1>2, <2>1 DEF Images, States
  <2>3. plan.tree => img["tree"] # "link"
    BY <1>1, <2>1 DEF Inv, CopyMeetsNoLink, TreeFacts
  <2>4. TreeOf(img')
    BY <2>1, <2>3 DEF TreeOf, TreeFacts, Facts
  <2>5. QED
    BY <2>2, <2>4, <1>1, <1>2, FilingKeepsInv
       DEF Inv, Turns, Filing, Downloading, CopyMeetsNoLink
<1>4. CASE NormalizeTree
  <2>1. img' = Set(TreeFacts, "planned")
    BY <1>4 DEF NormalizeTree
  <2>2. img' \in Images /\ (plan.tree => TreeOf(img'))
    BY <1>2, <2>1, SetIsImage DEF TreeFacts, States
  <2>3. TreeOf(img')
    BY <2>2 DEF TreeOf
  <2>4. QED
    BY <2>2, <2>3, <1>1, <1>2, FilingKeepsInv
       DEF Inv, Turns, Filing, Downloading, CopyMeetsNoLink
<1>5. QED
  BY <1>3, <1>4

\* A RUN step ends, and no process of it is left.
LEMMA EndRunKeepsInv ==
  ASSUME Inv, EndRun
  PROVE  Inv'
<1>1. /\ \/ at = "endComfyUI" /\ at' = "capture"
         \/ at = "endNodes" /\ at' = FirstFile
         \/ at = "endFiles" /\ at' = "evidence"
      /\ outcome = "building" /\ outcome' = "building"
      /\ UNCHANGED <<plan, img, turn, context, file, epoch, sealed, changes>>
      /\ leftover' = FALSE /\ late' = "no" /\ authority' = "none"
  BY DEF EndRun, Goes, At, loop
<1>2. TypeOK /\ file = 1 /\ at # "installNode"
  BY <1>1 DEF Inv, Turns, Downloading
<1>3. /\ at' \in {"capture", "download", "tree", "evidence"}
      /\ at' = "download" => 1 \in 1..Len(plan.downloads)
  BY <1>1, <1>2, PlanIsTyped DEF FirstFile, TypeOK
<1>4. /\ Facts' = Facts /\ Final' = Final
      /\ \A n : Before(n)' = Before(n) /\ From(n)' = From(n)
  BY <1>1 DEF Final, Before, From, Facts, EnvironmentFacts, TreeFacts
<1>5. TypeOK'
  BY <1>1, <1>2, <1>3, <1>4 DEF TypeOK, Steps
<1>6. Turns'
  BY <1>1, <1>2, <1>3, <1>4
     DEF Inv, Turns, Hooking, Mutating, Downloading
<1>7. Admitting'
  BY <1>1, <1>2, <1>3, <1>4 DEF Inv, Admitting
<1>8. Observed' /\ FinallyExact' /\ HookRunsLocked' /\ CopyMeetsNoLink'
  BY <1>3 DEF Observed, FinallyExact, LastLook, HookRunsLocked,
     CopyMeetsNoLink, Looping, Looking, Hooking, Mutating
<1>9. NothingRuns' /\ ManifestIsTrue'
  BY <1>1, <1>3 DEF NothingRuns, ManifestIsTrue
<1>10. TreeIsDirectory'
  BY <1>1 DEF Inv, TreeIsDirectory
<1>11. QED
  BY <1>5, <1>6, <1>7, <1>8, <1>9, <1>10 DEF Inv

LEMMA VerifyEvidenceKeepsInv ==
  ASSUME Inv, VerifyEvidence
  PROVE  Inv'
<1>1. /\ at = "evidence" /\ at' = "write" /\ Quiet /\ EvidenceHolds
      /\ outcome = "building" /\ outcome' = "building"
      /\ UNCHANGED <<plan, img, turn, context, file, epoch, sealed,
                     authority>>
  BY DEF VerifyEvidence, VerifyStep, Goes, At, Kept, loop
<1>2. TypeOK /\ img \in Images /\ TreeOf(img)
  BY DEF Inv, TypeOK, Images, TreeIsDirectory, TreeOf
<1>3. EvidenceHolds'
  BY <1>1, SameLooks
<1>4. /\ at \in Filing /\ at' \in Filing /\ at' \notin Downloading
      /\ file = 1 /\ CopyMeetsNoLink'
  BY <1>1 DEF Inv, Turns, Filing, Downloading, CopyMeetsNoLink
<1>5. QED
  BY <1>1, <1>2, <1>3, <1>4, FilingKeepsInv

\* Evidence of every fact, and a manifest nobody else has written.
LEMMA EvidenceIsPlanned ==
  ASSUME TypeOK, EvidenceHolds, img["manifest"] = "absent", plan' = plan,
         img' = Set({"manifest"}, "planned")
  PROVE  AsPlanned'
<1>1. /\ Facts' = Facts /\ Excluded' = Excluded /\ Unpinned' = Unpinned
  BY DEF Facts, Excluded, Unpinned, EnvironmentFacts, TreeFacts
<1>2. /\ img'["manifest"] = "planned"
      /\ \A f \in Facts : f # "manifest" => img'[f] = img[f]
      /\ \A f \in Facts : img[f] # "absent" => img'[f] = img[f]
  BY DEF Set, Facts
<1>3. NamedFacts(plan) \subseteq Facts
  BY DEF Facts
<1>4. /\ ApplicationHolds /\ CheckoutHolds
      /\ ManagerHolds(img["managerRequirements"])
      /\ CdhHolds /\ IsolatedHold /\ SystemHolds
      /\ FilesHold /\ NodesHold /\ HookEvidenceHolds
  BY DEF EvidenceHolds
<1>5. All(Excluded, "absent")'
  <2>1. img["stray"] = "absent"
    <3>1. "stray" \notin Names(plan.nodes, "registry")
      BY PlanIsTyped DEF TypeOK, NamedFacts, FixedFacts
    <3>2. RegistryIdentities = Names(plan.nodes, "registry")
      BY <1>4 DEF NodesHold, RegistrySet
    <3>3. QED
      BY <3>1, <3>2 DEF RegistryIdentities
  <2>2. ~plan.manager => All(ManagerFacts, "absent")
    BY <1>4 DEF ManagerHolds, ManagerAbsent
  <2>3. "manifest" \notin ManagerFacts \cup {"stray"}
          /\ ManagerFacts \cup {"stray"} \subseteq Facts
    BY DEF ManagerFacts, Facts
  <2>4. QED
    BY <1>1, <1>2, <2>1, <2>2, <2>3 DEF All, Excluded
<1>6. (\A f \in Unpinned : Regular(f))'
  <2>1. \A f \in Unpinned : f \in Facts /\ Regular(f)
    <3>1. \A f \in Names(plan.nodes, "local") : f \in Facts /\ Regular(f)
      BY <1>3, <1>4 DEF NodesHold, LocalRoot, NamedFacts
    <3>2. ASSUME NEW d \in Range(plan.downloads), ~d.checksum
          PROVE  d.name \in Facts /\ Regular(d.name)
      <4>1. d.name \in {x.name : x \in Range(plan.downloads)}
        OBVIOUS
      <4>2. d.name \in Facts
        BY <1>3, <4>1 DEF NamedFacts
      <4>3. QED
        BY <1>4, <3>2, <4>2 DEF FilesHold, DownloadHolds
    <3>3. plan.manager => /\ "managerRequirements" \in Facts
                          /\ Regular("managerRequirements")
      BY <1>4 DEF CheckoutHolds, Facts
    <3>4. QED
      BY <3>1, <3>2, <3>3 DEF Unpinned
  <2>2. \A f \in Unpinned : img'[f] \in {"planned", "other"}
    BY <1>2, <2>1 DEF Regular
  <2>3. QED
    BY <1>1, <2>2 DEF Regular
<1>7. (plan.manager => img["distributions"] = img["managerRequirements"])'
  <2>1. plan.manager =>
          img["distributions"] = img["managerRequirements"]
    BY <1>4 DEF ManagerHolds, DistributionsHold
  <2>2. {"distributions", "managerRequirements"} \subseteq Facts
    BY DEF Facts, ManagerFacts
  <2>3. QED
    BY <1>2, <2>1, <2>2
<1>8. ASSUME NEW f \in Facts \ (Excluded \cup Unpinned \cup Followed),
             f # "manifest"
      PROVE  img[f] = "planned"
  <2>1. f \notin {"distributions", "managerRequirements", "stray"}
    BY DEF Followed, Excluded
  <2>2. CASE f \in {"checkout", "requirements"} \cup EnvironmentFacts
    BY <1>4, <2>2 DEF ApplicationHolds, IdentityHolds, EnvironmentHolds,
       ConstraintsHold, GroupHolds, ExtrasHold, OrdinaryHolds,
       DependenciesHold, PipHolds, EnvironmentFacts
  <2>3. CASE f \in Tools
    BY <1>4, <2>3 DEF Tools, CdhHolds, IsolatedHold, SystemHolds
  <2>4. CASE f \in ManagerFacts
    BY <1>4, <2>1, <2>4 DEF Excluded, ManagerFacts, ManagerHolds,
       ImportRootHolds, AnchorHolds, CommandHolds
  <2>5. CASE f \in TreeFacts
    BY <1>4, <2>5 DEF FilesHold, TreeHolds, All
  <2>6. CASE f \in Repositories(plan.nodes)
    <3>1. PICK r \in Names(plan.nodes, "git") : f \in Below[r]
      BY <2>6 DEF Repositories
    <3>2. img[f] \notin {"absent", "link", "other"}
      BY <1>4, <3>1 DEF NodesHold, Provenance, RepositoryRoot,
         OwnGitDirectory, ExactHead
    <3>3. QED
      BY <3>2 DEF TypeOK, States
  <2>7. CASE f \in Names(plan.nodes, "local")
    BY <2>7 DEF Unpinned
  <2>8. CASE f \in Names(plan.nodes, "registry")
    BY <1>4, <2>8 DEF NodesHold, RegistrySet, All
  <2>9. CASE f \in UNION {HooksOf(n) : n \in Range(plan.nodes)}
    BY <1>4, <2>9 DEF HookEvidenceHolds, HookFiles, All
  <2>10. CASE f \in {d.name : d \in Range(plan.downloads)}
    <3>1. PICK d \in Range(plan.downloads) : f = d.name
      BY <2>10
    <3>2. d.checksum
      BY <3>1 DEF Unpinned
    <3>3. QED
      BY <1>4, <3>1, <3>2 DEF FilesHold, DownloadHolds
  <2>11. QED
    <3>1. \/ f \in {"checkout", "requirements"} \cup EnvironmentFacts
          \/ f \in Tools \/ f \in ManagerFacts \/ f \in TreeFacts
          \/ f \in NamedFacts(plan)
      BY <1>8, <2>1 DEF Facts
    <3>2. QED
      BY <2>2, <2>3, <2>4, <2>5, <2>6, <2>7, <2>8, <2>9, <2>10, <3>1
         DEF NamedFacts
<1>9. All(Facts \ (Excluded \cup Unpinned \cup Followed), "planned")'
  <2>1. Followed' = Followed
    BY DEF Followed
  <2>2. \A f \in Facts \ (Excluded \cup Unpinned \cup Followed) :
           img'[f] = "planned"
    BY <1>2, <1>8
  <2>3. QED
    BY <1>1, <2>1, <2>2 DEF All
<1>10. QED
  BY <1>5, <1>6, <1>7, <1>9 DEF AsPlanned

LEMMA WriteManifestKeepsInv ==
  ASSUME Inv, WriteManifest
  PROVE  Inv'
<1>1. /\ at = "write" /\ at' = "write" /\ img["manifest"] = "absent"
      /\ outcome = "building" /\ outcome' = "built"
      /\ img' = Set({"manifest"}, "planned") /\ Quiet
      /\ UNCHANGED <<plan, turn, context, file, epoch, sealed, authority>>
  BY DEF WriteManifest, Kept, loop
<1>2. TypeOK /\ img \in Images /\ TreeOf(img)
  BY DEF Inv, TypeOK, Images, TreeIsDirectory, TreeOf
<1>3. img' \in Images /\ TreeOf(img')
  BY <1>1, <1>2, SetIsImage DEF States
<1>4. EvidenceHolds /\ ~leftover
  BY <1>1 DEF Inv, NothingRuns, Filing
<1>5. ManifestIsTrue'
  BY <1>1, <1>2, <1>4, EvidenceIsPlanned DEF ManifestIsTrue
<1>6. /\ Facts' = Facts /\ Final' = Final
      /\ \A n : Before(n)' = Before(n) /\ From(n)' = From(n)
  BY <1>1 DEF Final, Before, From, Facts, EnvironmentFacts, TreeFacts
<1>7. TypeOK'
  BY <1>1, <1>2, <1>3, <1>6 DEF TypeOK, Images, Quiet
<1>8. Turns'
  BY <1>1, <1>6 DEF Inv, Turns, Hooking, Mutating, Downloading
<1>9. Admitting'
  BY <1>1, <1>6 DEF Inv, Admitting
<1>10. Observed' /\ FinallyExact' /\ HookRunsLocked' /\ CopyMeetsNoLink'
  BY <1>1 DEF Observed, FinallyExact, LastLook, HookRunsLocked,
     CopyMeetsNoLink, Looping, Looking, Hooking, Mutating
<1>11. NothingRuns'
  BY <1>1, <1>4 DEF NothingRuns, Quiet
<1>12. TreeIsDirectory'
  BY <1>1, <1>3 DEF TreeIsDirectory, TreeOf
<1>13. QED
  BY <1>5, <1>7, <1>8, <1>9, <1>10, <1>11, <1>12 DEF Inv

-----------------------------------------------------------------------------
(* What nobody asked for.                                                  *)

\* A process that was left behind is running only while packages or nodes are
\* installed.
LEMMA LeftoverKeepsInv ==
  ASSUME Inv, Leftover
  PROVE  Inv'
<1>1. /\ outcome = "building" /\ outcome' = "building" /\ leftover
      /\ img' \in Changes(img) /\ leftover' = FALSE
      /\ late' = IF LastLook THEN "final" ELSE "early"
      /\ UNCHANGED <<plan, authority, at, turn, context, file, epoch, sealed,
                     changes>>
  BY DEF Leftover, loop
<1>2. TypeOK /\ img \in Images /\ TreeOf(img)
  BY DEF Inv, TypeOK, Images, TreeIsDirectory, TreeOf
<1>3. img' \in Images /\ TreeOf(img')
  BY <1>1, <1>2, ChangesAreImages
<1>4. at \notin Filing
  BY <1>1 DEF Inv, NothingRuns
<1>5. late' # "no" /\ (LastLook => late' = "final")
  BY <1>1
<1>6. /\ Facts' = Facts /\ Final' = Final
      /\ \A n : Before(n)' = Before(n) /\ From(n)' = From(n)
  BY <1>1 DEF Final, Before, From, Facts, EnvironmentFacts, TreeFacts
<1>7. TypeOK'
  BY <1>1, <1>2, <1>3, <1>6 DEF TypeOK, Images
<1>8. Turns'
  BY <1>1, <1>6 DEF Inv, Turns
<1>9. Admitting'
  BY <1>1, <1>6 DEF Inv, Admitting
<1>10. Observed'
  BY <1>1, <1>5 DEF Inv, Observed
<1>11. FinallyExact'
  <2>1. LastLook' = LastLook
    BY <1>1, <1>6 DEF LastLook
  <2>2. QED
    BY <1>5, <2>1 DEF FinallyExact
<1>12. HookRunsLocked' /\ NothingRuns' /\ ManifestIsTrue'
         /\ CopyMeetsNoLink'
  BY <1>1, <1>4 DEF Inv, HookRunsLocked, NothingRuns, ManifestIsTrue,
     CopyMeetsNoLink, Filing
<1>13. TreeIsDirectory'
  BY <1>1, <1>3 DEF TreeIsDirectory, TreeOf
<1>14. QED
  BY <1>7, <1>8, <1>9, <1>10, <1>11, <1>12, <1>13 DEF Inv

\* Nothing is looked at again once the build has failed, and nothing changes.
LEMMA FailKeepsInv ==
  ASSUME Inv, Fail \/ UNCHANGED vars
  PROVE  Inv'
<1>1. /\ UNCHANGED <<plan, img, authority, at, turn, context, file, epoch,
                     sealed, leftover, late, changes>>
      /\ outcome' = outcome \/ outcome' = "failed"
  BY DEF Fail, vars, loop
<1>2. /\ Facts' = Facts /\ Final' = Final /\ TreeFacts' = TreeFacts
      /\ \A n : Before(n)' = Before(n) /\ From(n)' = From(n)
  BY <1>1 DEF Final, Before, From, Facts, EnvironmentFacts, TreeFacts
<1>3. /\ ManagerIsProved' = ManagerIsProved
      /\ ApplicationHolds' = ApplicationHolds
      /\ EvidenceHolds' = EvidenceHolds /\ AsPlanned' = AsPlanned
      /\ MixedHolds(context)' = MixedHolds(context)
      /\ LastLook' = LastLook
  BY <1>1, <1>2, SameProof, SameLooks, SameNodes DEF LastLook
<1>4. TypeOK'
  BY <1>1, <1>2 DEF Inv, TypeOK
<1>5. Turns' /\ Admitting' /\ TreeIsDirectory'
  BY <1>1, <1>2 DEF Inv, Turns, Admitting, TreeIsDirectory
<1>6. Observed' /\ FinallyExact'
  BY <1>1, <1>3 DEF Inv, Observed, FinallyExact
<1>7. NothingRuns' /\ ManifestIsTrue'
  BY <1>1, <1>3 DEF Inv, NothingRuns, ManifestIsTrue
<1>8. HookRunsLocked' /\ CopyMeetsNoLink'
  BY <1>1, <1>2 DEF Inv, HookRunsLocked, CopyMeetsNoLink
<1>9. QED
  BY <1>4, <1>5, <1>6, <1>7, <1>8 DEF Inv

-----------------------------------------------------------------------------
(* The theorems.                                                           *)

LEMMA InitEstablishesInv ==
  ASSUME Init
  PROVE  Inv
<1>1. /\ plan \in Plans /\ at = "checkout" /\ outcome = "building"
      /\ turn = Begin(1) /\ context = Context(<<>>, <<>>, From(1))
      /\ file = 1 /\ authority = "none" /\ sealed = "none"
      /\ epoch = [dirty |-> 0, application |-> -1, manager |-> -1]
      /\ leftover = FALSE /\ late = "no" /\ changes = 0
  BY DEF Init
<1>2. /\ img \in [Facts -> States]
      /\ \A f \in Facts : f \notin Tools \cup HookFiles
                                     \cup {"pip", "dependencies"} =>
                            img[f] = "absent"
  BY DEF Init, States
<1>3. Len(plan.nodes) \in Nat
  BY <1>1, PlanIsTyped
<1>4. TypeOK
  <2>1. turn \in [node : 1..(Len(plan.nodes) + 1), phase : 0..5,
                  round : Nat \ {0}]
    BY <1>1, <1>3 DEF Begin
  <2>2. /\ epoch \in [dirty : Nat, application : Int, manager : Int]
        /\ {epoch.application, epoch.manager} \subseteq -1..epoch.dirty
    BY <1>1
  <2>3. at \in Steps
    BY <1>1 DEF Steps
  <2>4. /\ authority \in States \cup {"none"}
        /\ sealed \in States \cup {"none"}
    BY <1>1
  <2>5. /\ outcome \in {"building", "failed", "built"}
        /\ late \in {"no", "early", "final"}
    BY <1>1
  <2>6. leftover \in BOOLEAN
    BY <1>1
  <2>7. file \in Nat \ {0} /\ changes \in 0..MaxChanges
    BY <1>1, MaxChangesAssumption
  <2>8. QED
    BY <1>1, <1>2, <2>1, <2>2, <2>3, <2>4, <2>5, <2>6, <2>7 DEF TypeOK
<1>5. Turns
  BY <1>1, <1>3 DEF Turns, Begin, Hooking, Mutating, Downloading
<1>6. Admitting
  <2>1. Before(1) = <<>>
    BY SubSeqEmpty DEF Before
  <2>2. QED
    BY <1>1, <2>1 DEF Admitting, Begin, Context
<1>7. Observed /\ FinallyExact /\ NothingRuns
  BY <1>1 DEF Observed, FinallyExact, LastLook, NothingRuns, Looping,
     Looking, Hooking, Mutating, Filing
<1>8. TreeIsDirectory
  <2>1. ASSUME plan.tree
        PROVE  img["member"] = "absent"
    <3>1. "member" \in Facts
      BY <2>1 DEF Facts, TreeFacts
    <3>2. "member" \notin HookFiles
      <4>1. HookFiles \subseteq NamedFacts(plan)
        BY DEF HookFiles, NamedFacts
      <4>2. QED
        BY <1>1, <4>1, NamedIsNotTree
    <3>3. QED
      BY <1>2, <3>1, <3>2 DEF Tools
  <2>2. QED
    BY <2>1 DEF TreeIsDirectory
<1>9. HookRunsLocked /\ CopyMeetsNoLink /\ ManifestIsTrue
  BY <1>1 DEF HookRunsLocked, CopyMeetsNoLink, ManifestIsTrue
<1>10. QED
  BY <1>4, <1>5, <1>6, <1>7, <1>8, <1>9 DEF Inv

LEMMA StepKeepsInv ==
  ASSUME Inv, [Next]_vars
  PROVE  Inv'
<1>1. CASE \/ Checkout \/ Parse \/ InstallPackages \/ VerifyComfyUI
           \/ WriteConstraints \/ WriteAnchor
  BY <1>1, ComfyUIKeepsInv
<1>2. CASE Capture \/ Mixed \/ ObserveManager \/ ObserveApplication
  BY <1>2, CaptureKeepsInv, MixedKeepsInv, ObserveManagerKeepsInv,
     ObserveApplicationKeepsInv
<1>3. CASE SealHook \/ CheckDigest \/ RunHook
  BY <1>3, SealHookKeepsInv, CheckDigestKeepsInv, RunHookKeepsInv
<1>4. CASE PrepareSource \/ InstallSource
  BY <1>4, PrepareSourceKeepsInv, InstallSourceKeepsInv
<1>5. CASE DownloadFile \/ VerifyFiles \/ VerifyTree
  BY <1>5, DownloadFileKeepsInv, VerifyFilesKeepInv, VerifyTreeKeepsInv
<1>6. CASE CopyTree \/ NormalizeTree
  BY <1>6, CopyTreeKeepsInv
<1>7. CASE EndRun \/ VerifyEvidence \/ WriteManifest
  BY <1>7, EndRunKeepsInv, VerifyEvidenceKeepsInv, WriteManifestKeepsInv
<1>8. CASE Leftover
  BY <1>8, LeftoverKeepsInv
<1>9. CASE Fail \/ UNCHANGED vars
  BY <1>9, FailKeepsInv
<1>10. QED
  BY <1>1, <1>2, <1>3, <1>4, <1>5, <1>6, <1>7, <1>8, <1>9 DEF Next

LEMMA InvImpliesProperties ==
  ASSUME Inv
  PROVE  MutatesProvedState /\ InstalledIsExact
<1>1. MutatesProvedState
  <2>1. ASSUME late = "no", at \in Mutating
        PROVE  ApplicationHolds /\ ManagerHolds(authority)
                 /\ MixedHolds(context)
    <3>1. turn.node \in 1..Len(plan.nodes) /\ TypeOK
      BY <2>1 DEF Inv, Turns
    <3>2. plan.nodes # <<>>
      BY <3>1, PlanIsTyped, EmptySeq DEF TypeOK
    <3>3. ApplicationHolds /\ ManagerIsProved /\ MixedHolds(context)
      BY <2>1 DEF Inv, Observed, Looping, Mutating
    <3>4. QED
      BY <3>2, <3>3 DEF ManagerIsProved
  <2>2. QED
    BY <2>1 DEF MutatesProvedState, Mutating
<1>2. InstalledIsExact
  <2>1. ASSUME late # "final", at = "endNodes"
        PROVE  /\ MixedHolds(Context(plan.nodes, <<>>, <<>>))
               /\ ManagerIsProved /\ ApplicationHolds
    <3>1. Final /\ turn.phase = 0
      BY <2>1 DEF Inv, Turns
    <3>2. MixedHolds(context) /\ ManagerIsProved /\ ApplicationHolds
      BY <2>1, <3>1 DEF Inv, FinallyExact, LastLook
    <3>3. /\ plan.nodes \in Seq(Range(plan.nodes))
          /\ Len(plan.nodes) \in Nat
          /\ turn.node = Len(plan.nodes) + 1
      <4>1. plan \in Plans /\ turn.node \in 1..(Len(plan.nodes) + 1)
        BY DEF Inv, TypeOK
      <4>2. /\ plan.nodes \in Seq(Range(plan.nodes))
            /\ Len(plan.nodes) \in Nat
        BY <4>1, PlanIsTyped
      <4>3. QED
        BY <3>1, <4>1, <4>2 DEF Final
    <3>4. /\ context.admitted = Before(turn.node)
          /\ context.prepared = <<>> /\ context.future = From(turn.node)
      BY <3>1 DEF Inv, Admitting
    <3>5. Before(turn.node) = plan.nodes
      BY <3>3, SubSeqFull DEF Before
    <3>6. From(turn.node) = <<>>
      BY <3>3, SubSeqEmpty DEF From
    <3>7. MixedHolds(Context(plan.nodes, <<>>, <<>>)) <=> MixedHolds(context)
      BY <3>4, <3>5, <3>6 DEF MixedHolds, Context
    <3>8. QED
      BY <3>2, <3>7
  <2>2. QED
    BY <2>1 DEF InstalledIsExact, ManagerIsProved
<1>3. QED
  BY <1>1, <1>2

\* The types, and an observer has never seen an epoch that is yet to come.
THEOREM BuildTypes == Spec => []TypeOK
<1>1. Init => Inv
  BY InitEstablishesInv
<1>2. Inv /\ [Next]_vars => Inv'
  BY StepKeepsInv
<1>3. Inv => TypeOK
  BY DEF Inv
<1>4. QED
  BY <1>1, <1>2, <1>3, PTL DEF Spec

\* For any plan: whatever hooks, install scripts and package builds did, the
\* next thing executed for a custom node starts from the application, the
\* manager and the nodes of the plan, though observations are skipped.
THEOREM MutationsStartProved == Spec => []MutatesProvedState
<1>1. Init => Inv
  BY InitEstablishesInv
<1>2. Inv /\ [Next]_vars => Inv'
  BY StepKeepsInv
<1>3. Inv => MutatesProvedState
  BY InvImpliesProperties
<1>4. QED
  BY <1>1, <1>2, <1>3, PTL DEF Spec

\* A hook that runs has the content the plan locked.
THEOREM HooksRunLocked == Spec => []HookRunsLocked
<1>1. Init => Inv
  BY InitEstablishesInv
<1>2. Inv /\ [Next]_vars => Inv'
  BY StepKeepsInv
<1>3. Inv => HookRunsLocked
  BY DEF Inv
<1>4. QED
  BY <1>1, <1>2, <1>3, PTL DEF Spec

\* install-custom-nodes ends with exactly the nodes of the plan, all admitted,
\* on the application and the manager of the plan.
THEOREM InstallationIsExact == Spec => []InstalledIsExact
<1>1. Init => Inv
  BY InitEstablishesInv
<1>2. Inv /\ [Next]_vars => Inv'
  BY StepKeepsInv
<1>3. Inv => InstalledIsExact
  BY InvImpliesProperties
<1>4. QED
  BY <1>1, <1>2, <1>3, PTL DEF Spec

\* COPY never writes through a link.
THEOREM CopiesMeetNoLink == Spec => []CopyMeetsNoLink
<1>1. Init => Inv
  BY InitEstablishesInv
<1>2. Inv /\ [Next]_vars => Inv'
  BY StepKeepsInv
<1>3. Inv => CopyMeetsNoLink
  BY DEF Inv
<1>4. QED
  BY <1>1, <1>2, <1>3, PTL DEF Spec

\* An image with a final manifest is the planned one.
THEOREM ManifestsAreTrue == Spec => []ManifestIsTrue
<1>1. Init => Inv
  BY InitEstablishesInv
<1>2. Inv /\ [Next]_vars => Inv'
  BY StepKeepsInv
<1>3. Inv => ManifestIsTrue
  BY DEF Inv
<1>4. QED
  BY <1>1, <1>2, <1>3, PTL DEF Spec

=============================================================================
