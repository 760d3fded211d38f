---------------------------- MODULE MCHostContext ----------------------------
(***************************************************************************)
(* Two host commands on one output.  The output is at first               *)
(* empty, a directory of somebody else, or a context whose lock was merged *)
(* by hand from two resolutions: its interpreter is bound to another uv    *)
(* image, or its requirements to another commit.                           *)
(***************************************************************************)
EXTENDS HostContext, TLC

MCMembers == {1, 2}
MCContents == {1, 2}
MCRuns == {1, 2}

MovingCfg == [comfyui |-> "latest", node |-> "latest", contentLock |-> TRUE]
PinnedCfg == [comfyui |-> "pin", node |-> "none", contentLock |-> FALSE]

Invocation(cfg, policy, purpose, overwrite) ==
    [cfg |-> cfg, policy |-> policy, purpose |-> purpose,
     overwrite |-> overwrite]

MCInvocations ==
    {Invocation(MovingCfg, "default", "apply", TRUE),
     Invocation(MovingCfg, "upgrade", "apply", TRUE),
     Invocation(MovingCfg, "locked", "apply", FALSE),
     Invocation(PinnedCfg, "default", "apply", FALSE),
     Invocation(PinnedCfg, "default", "check", FALSE)}

\* The entries of one resolution, with one taken from another.
MergedLock(key, entry) ==
    LET graph == Graph(MovingCfg, 1, 1) IN
    (key :> entry) @@ [k \in DOMAIN graph |-> Entry(graph[k], 1)]
                   @@ Fixed(MovingCfg, [m \in MCMembers |-> 1])

Rendered(lock) ==
    LET tree == [m \in MCMembers |-> 1] IN
    Context(BuildPlan(MovingCfg, lock, tree), tree, lock, AllMetadata)

MCInitialOutputs ==
    {Nothing, Foreign,
     Rendered(MergedLock("python", Entry(Request("exact", <<2>>), 2))),
     Rendered(MergedLock("requirements", Entry(Request("exact", <<2>>), 2)))}

=============================================================================
