---------------------------- MODULE MCConfigMerge ----------------------------
(***************************************************************************)
(* All sequences of three layers, of one family at a time: tables and      *)
(* scalars; packages; custom nodes; files.  Those of the runtime are the   *)
(* defaults, two files of tables and the environment.                      *)
(***************************************************************************)
EXTENDS ConfigMerge

Under(key, values) == {Table([k \in {key} |-> v]) : v \in values}
Lists(items) == {Array(s) : s \in UNION {[1..n -> items] : n \in 0..2}}
Triples(documents) == [1..3 -> documents]

LogTables ==
    {Leaf("off"), Table(<<>>)} \cup
        Under("mode", {Leaf("a"), Leaf("b")}) \cup Under("size", {Leaf("c")})
Downloader(logs) == Table([k \in {"logs", "default_downloader"} |->
                              IF k = "logs" THEN logs ELSE Leaf("a")])
Cdh ==
    {Leaf("x"), Table(<<>>), Downloader(Table(<<>>))}
        \cup Under("logs", LogTables)
Secret == Under("env", {Leaf("a")}) \cup Under("file", {Leaf("a")})
Tables ==
    {Table(<<>>)} \cup Under("cdh", Cdh)
        \cup Under("secrets", Under("key", Secret))

\* Settings the environment makes: of the logs, of the rest of "cdh", of both,
\* of something else.
Settings ==
    Under("mode", {Leaf("a"), Leaf("b")}) \cup Under("size", {Leaf("c")})
MCEnvironments ==
    Under("cdh", Under("logs", Settings)
                    \cup Under("default_downloader", {Leaf("b")})
                    \cup {Downloader(v) : v \in Settings})
        \cup Under("comfyui", Under("port", {Leaf("a")}))
Defaults ==
    Table([k \in {"cdh"} |->
        Downloader(Table([l \in {"mode", "size"} |-> Leaf("d")]))])
Runtime ==
    {<<Defaults, baked, mounted, environ>> :
        baked \in Tables, mounted \in Tables, environ \in MCEnvironments}

Packages ==
    Under("python",
          {Table(<<>>)} \cup
          Under("extra_packages", Lists({Leaf("a"), Leaf("A"), Leaf("b")})))

Entry(field, id, more) ==
    Table([k \in {field} \cup DOMAIN more |->
              IF k = field THEN Leaf(id) ELSE Leaf(more[k])])
Nodes ==
    Under("comfyui", Under("custom_nodes", Lists(
        {Entry("id", "a", <<>>), Entry("id", "A", [ref |-> "x"]),
         Entry("id", "b", [env |-> "y"]), Table(<<>>)})))
Files ==
    Under("files", Lists(
        {Entry("target", "a", <<>>), Entry("target", "a", [type |-> "x"]),
         Entry("target", "A", [type |-> "y"]), Entry("target", "b", <<>>)}))

MCLayerings ==
    Runtime \cup UNION {Triples(d) : d \in {Tables, Packages, Nodes, Files}}
MCCanonical == [s \in {"a", "A", "b"} |-> IF s = "b" THEN "b" ELSE "a"]

=============================================================================
