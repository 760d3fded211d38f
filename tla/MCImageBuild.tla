---------------------------- MODULE MCImageBuild ----------------------------
(***************************************************************************)
(* Three plans: a git node with a submodule before a registry node, with   *)
(* the manager; a local node before a git node, without; and files only.   *)
(***************************************************************************)
EXTENDS ImageBuild

NodeOf(name, kind, preClone, preInstall, postInstall) ==
    [name |-> name, kind |-> kind, preClone |-> preClone,
     preInstall |-> preInstall, postInstall |-> postInstall]
Plan(nodes, manager, python, downloads, tree) ==
    [nodes |-> nodes, manager |-> manager, extras |-> python,
     ordinary |-> python, downloads |-> downloads, tree |-> tree]

GitNode == NodeOf("git", "git", <<"hook">>, <<>>, <<>>)
Locked == [name |-> "model", checksum |-> TRUE]
Moving == [name |-> "workflow", checksum |-> FALSE]

MCPlans ==
    {Plan(<<GitNode, NodeOf("reg", "registry", <<>>, <<"hook2">>, <<>>)>>,
          TRUE, TRUE, <<>>, FALSE),
     Plan(<<NodeOf("local", "local", <<>>, <<>>, <<"hook">>), GitNode>>,
          FALSE, FALSE, <<Locked>>, TRUE),
     Plan(<<>>, TRUE, FALSE, <<Locked, Moving>>, TRUE)}

MCGitlinks == [r \in {"git", "sub"} |-> IF r = "git" THEN {"sub"} ELSE {}]

=============================================================================
