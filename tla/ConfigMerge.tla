----------------------------- MODULE ConfigMerge -----------------------------
(***************************************************************************)
(* Layered configuration: merge_toml_documents (config/merge.py) under the *)
(* policies of config/authored/merge_policies.py and                       *)
(* config/runtime/config.py, with the tree of origins that is built beside *)
(* the document and that diagnostics are located with, and the second      *)
(* merge that reads the log settings of the same layers.                   *)
(*                                                                         *)
(* A value is a leaf, a table of values or an array of values.  A node is  *)
(* a value with its origin.                                                *)
(***************************************************************************)
EXTENDS Integers, Sequences, FiniteSets, SequencesExt

CONSTANTS
    Layerings,        \* the sequences of documents that are merged
    Environments,     \* the documents the environment variables can make
    Canonical         \* [spelling -> the resource it identifies]

VARIABLES
    layers,           \* the documents
    environment,      \* whether the last of them is the environment's
    merged,           \* how many of them are merged
    effective         \* the root node

vars == <<layers, environment, merged, effective>>

Leaf(v) == [is |-> "leaf", v |-> v]
Table(f) == [is |-> "table", of |-> f]
Array(s) == [is |-> "array", of |-> s]
Keys(value) == IF value.is = "leaf" THEN {} ELSE DOMAIN value.of
Has(value, key) == value.is = "table" /\ key \in DOMAIN value.of
Both(is, a, b) == a.is = is /\ b.is = is
ValueAt(document, path) == FoldLeft(LAMBDA v, k : v.of[k], document, path)

(********************************* Policies ********************************)

\* One of the four lists of packages; the lists of credentials, whose items
\* replace each other as packages do, are left out.
PackageLists == {<<"python", "extra_packages">>}
NodeList == <<"comfyui", "custom_nodes">>
FileList == <<"files">>

Atomic(path) == Len(path) = 2 /\ path[1] = "secrets"
Keyed(path) == path \in PackageLists \cup {NodeList, FileList}

\* What an entry of a keyed list is about: a package its requirement, a node
\* its id, a file its target.  Entries that say nothing have no identity.
IdField(path) == IF path = FileList THEN "target" ELSE "id"
Identity(path, item) ==
    CASE path \in PackageLists /\ item.is = "leaf" -> Canonical[item.v]
      [] path \notin PackageLists /\ Has(item, IdField(path)) ->
            Canonical[item.of[IdField(path)].v]
      [] OTHER -> "none"

\* A node is patched; a file too, unless its type changes; a package is
\* replaced.
PatchesFile(base, item) ==
    /\ Both("table", base, item)
    /\ \/ ~Has(item, "type")
       \/ Has(base, "type") /\ item.of["type"] = base.of["type"]
Patches(path, base, item) ==
    \/ path = NodeList
    \/ path = FileList /\ PatchesFile(base, item)

(********************************* Origins *********************************)

\* at: where the whole value was written.  owner: the same, for a table or
\* array that replaced what was there.  by: all who wrote some of it.
NoLocation == [source |-> 0, path |-> <<>>]
Origin(at, owner, by, children) ==
    [at |-> at, owner |-> owner, by |-> by, children |-> children]
EmptyRoot ==
    [value |-> Table(<<>>),
     origin |-> Origin(NoLocation, NoLocation, <<>>, <<>>)]

Below(location, key) == [location EXCEPT !.path = Append(@, key)]
RECURSIVE OriginFor(_, _, _)
OriginFor(value, location, boundary) ==
    Origin(location,
           IF boundary /\ value.is # "leaf" THEN location ELSE NoLocation,
           <<location>>,
           [k \in Keys(value) |->
               OriginFor(value.of[k], Below(location, k), TRUE)])

Child(node, k) ==
    [value |-> node.value.of[k], origin |-> node.origin.children[k]]

\* In the order of the layers, each location once.
Contributors(a, b) ==
    LET New(l) == l \notin ToSet(a.origin.by)
    IN  a.origin.by \o SelectSeq(b.origin.by, New)

\* Where a path leads, or the nearest table or array above it that replaced
\* what was there before it.
MissingFieldLocation(origin, path) ==
    LET Down(walk, key) ==
            IF walk.lost \/ key \notin DOMAIN walk.node.children
            THEN [walk EXCEPT !.lost = TRUE]
            ELSE LET child == walk.node.children[key]
                 IN  [node |-> child, lost |-> FALSE,
                      owner |-> IF child.owner # NoLocation THEN child.owner
                                ELSE walk.owner]
        end == FoldLeft(Down, [node |-> origin, lost |-> FALSE,
                               owner |-> origin.owner], path)
    IN  IF end.lost THEN end.owner ELSE end.node.at

(********************************** Merging ********************************)

CountOf(path, list, key) ==
    Cardinality({i \in DOMAIN list : Identity(path, list[i]) = key})

\* An entry overlays the one with its identity when neither layer has two.
MatchesUncounted(path, base, over, i) ==
    LET key == Identity(path, over[i])
    IN  key # "none" /\ CountOf(path, base, key) = 1 \* mutant
Matches(path, base, over, i) ==
    LET key == Identity(path, over[i])
    IN  /\ key # "none"
        /\ CountOf(path, base, key) = 1 /\ CountOf(path, over, key) = 1

\* Where it goes: to the place of that one, or to the end of the list.
EffectiveIndex(path, base, over, i) ==
    IF Matches(path, base, over, i)
    THEN CHOOSE j \in DOMAIN base :
            Identity(path, base[j]) = Identity(path, over[i])
    ELSE Len(base)
            + Cardinality({k \in 1..i : ~Matches(path, base, over, k)})
AuthoredIndex(path, base, over, i) == i \* mutant
OriginIndex(path, base, over, i) == EffectiveIndex(path, base, over, i)

NodeOwnedByBase(a, b, value, children) ==
    [value |-> value, \* mutant
     origin |-> Origin(IF a.origin.by = <<>> THEN b.origin.at ELSE NoLocation,
                       a.origin.owner, Contributors(a, b), children)]

\* What several layers wrote has no location and no owner; the first layer is
\* merged into the empty root.
Merged(a, b, value, children) ==
    [value |-> value,
     origin |-> Origin(IF a.origin.by = <<>> THEN b.origin.at ELSE NoLocation,
                       NoLocation, Contributors(a, b), children)]

\* The list "old" with new[i] put at the place at[i], the last one if several
\* go to the same place.
Overlay(old, at, new) ==
    [j \in DOMAIN old \cup Range(at) |->
        IF j \in Range(at)
        THEN new[CHOOSE i \in DOMAIN at :
                    at[i] = j /\ \A k \in DOMAIN at : at[k] = j => k <= i]
        ELSE old[j]]

RECURSIVE MergeValue(_, _, _)

\* _merge_mapping, _merge_keyed_sequence and _merge_value.
MergeTables(a, b, path) ==
    LET item == [k \in Keys(a.value) \cup Keys(b.value) |->
                    IF k \notin Keys(a.value) THEN Child(b, k)
                    ELSE IF k \notin Keys(b.value) THEN Child(a, k)
                    ELSE MergeValue(Child(a, k), Child(b, k), Append(path, k))]
    IN  Merged(a, b, Table([k \in DOMAIN item |-> item[k].value]),
               [k \in DOMAIN item |-> item[k].origin])

MergeLists(a, b, path) ==
    LET base == a.value.of
        over == b.value.of
        index == [i \in DOMAIN over |-> EffectiveIndex(path, base, over, i)]
        origin == [i \in DOMAIN over |-> OriginIndex(path, base, over, i)]
        item == [i \in DOMAIN over |->
                    IF /\ Matches(path, base, over, i)
                       /\ Patches(path, base[index[i]], over[i])
                    THEN MergeValue(Child(a, index[i]), Child(b, i),
                                    Append(path, index[i]))
                    ELSE Child(b, i)]
    IN  IF base = <<>> \/ over = <<>> THEN b
        ELSE Merged(a, b,
                    Array(Overlay(base, index,
                                  [i \in DOMAIN over |-> item[i].value])),
                    Overlay(a.origin.children, origin,
                            [i \in DOMAIN over |-> item[i].origin]))

MergeValue(a, b, path) ==
    IF Atomic(path) THEN b
    ELSE IF Both("table", a.value, b.value) THEN MergeTables(a, b, path)
    ELSE IF Both("array", a.value, b.value) /\ Keyed(path)
    THEN MergeLists(a, b, path)
    ELSE b

AsNode(document, source) ==
    [value |-> document,
     origin |-> OriginFor(document, [source |-> source, path |-> <<>>], FALSE)]
MergeAll(documents) ==
    FoldLeft(LAMBDA root, i : MergeTables(root, AsNode(documents[i], i), <<>>),
             EmptyRoot, [i \in DOMAIN documents |-> i])

Init ==
    /\ layers \in Layerings
    /\ environment \in BOOLEAN
    /\ environment => Last(layers) \in Environments
    /\ merged = 0 /\ effective = EmptyRoot

\* One round of merge_toml_documents.
MergeNext ==
    /\ merged < Len(layers)
    /\ merged' = merged + 1
    /\ effective' =
          MergeTables(effective, AsNode(layers[merged + 1], merged + 1), <<>>)
    /\ UNCHANGED <<layers, environment>>

Next == MergeNext
Spec == Init /\ [][Next]_vars

(************************** The log settings alone *************************)

\* load_runtime_log_settings admits them before the rest of the layers, from
\* what each layer says of them; "cdh" itself may be no table.
HasLogs(document) == Has(document, "cdh") /\ Has(document.of["cdh"], "logs")
ProjectionOfTables(document) ==
    Table([k \in {"cdh"} |-> \* mutant
        IF document.of["cdh"].is = "table"
        THEN Table([l \in Keys(document.of["cdh"]) \cap {"logs"} |->
                        document.of["cdh"].of[l]])
        ELSE Table(<<>>)])
Projection(document) ==
    Table([k \in {"cdh"} |->
        IF document.of["cdh"].is = "table"
        THEN Table([l \in Keys(document.of["cdh"]) \cap {"logs"} |->
                        document.of["cdh"].of[l]])
        ELSE document.of["cdh"]])

\* A file that says anything of "cdh" is kept, the environment only when it
\* sets the logs.
LogLayers(documents) ==
    LET Kept(i) == IF environment /\ i = Len(documents)
                   THEN HasLogs(documents[i]) ELSE Has(documents[i], "cdh")
        kept == SelectSeq([i \in DOMAIN documents |-> i], Kept)
    IN  [n \in DOMAIN kept |-> Projection(documents[kept[n]])]

\* What an admission makes of the merged document; what the settings
\* themselves may be, both admissions ask of the same schema.
Refused == Leaf("refused")
LogsOf(value) ==
    CASE ~Has(value, "cdh") -> Leaf("default")
      [] HasLogs(value) -> value.of["cdh"].of["logs"]
      [] Has(value, "cdh") /\ value.of["cdh"].is # "table" -> Refused
      [] OTHER -> Leaf("default")

(******************************** Properties *******************************)

\* The origins are those of the document they lie beside: every value with a
\* location stands in that layer at that place, and a value without one was
\* put together from several layers (config/merge.py, OriginNode).
RECURSIVE TrueOrigin(_)
TrueOrigin(node) ==
    /\ DOMAIN node.origin.children = Keys(node.value)
    /\ IF node.origin.at # NoLocation
       THEN node.value = ValueAt(layers[node.origin.at.source],
                                 node.origin.at.path)
       ELSE Len(node.origin.by) > 1
    /\ \A k \in Keys(node.value) : TrueOrigin(Child(node, k))
OriginsAreTrue == merged > 0 => TrueOrigin(effective)

\* A missing field is blamed on the layer that wrote the whole table it is
\* missing from, and on none when several layers did.
RECURSIVE Blamed(_, _)
Blamed(node, path) ==
    /\ path # <<>> =>
          MissingFieldLocation(effective.origin, Append(path, "missing"))
              = node.origin.at
    /\ \A k \in Keys(node.value) :
          Child(node, k).value.is = "table" =>
              Blamed(Child(node, k), Append(path, k))
MissingIsBlamed == merged > 0 => Blamed(effective, <<>>)

\* "Entries match and overlay at their original position": a keyed list has
\* the entries of all layers since the last one that cleared it, each once and
\* in the order they first appeared; a duplicate within a layer is not merged
\* away before validation can refuse it.
ListIn(document, path) ==
    IF Len(path) = 1
    THEN IF Has(document, path[1]) THEN document.of[path[1]].of ELSE <<>>
    ELSE IF Has(document, path[1]) /\ Has(document.of[path[1]], path[2])
    THEN document.of[path[1]].of[path[2]].of ELSE <<>>
Clears(document, path) ==
    /\ ListIn(document, path) = <<>>
    /\ Has(document, path[1])
    /\ Len(path) = 2 => Has(document.of[path[1]], path[2])
SinceCleared(path) ==
    LET cleared == {0} \cup {i \in 1..merged : Clears(layers[i], path)}
        last == CHOOSE i \in cleared : \A j \in cleared : j <= i
    IN  SubSeq(layers, last + 1, merged)
KeysOf(path, list) == [i \in DOMAIN list |-> Identity(path, list[i])]
FirstOnly(s) ==
    FoldLeft(LAMBDA seen, k : IF k \in ToSet(seen) THEN seen
                              ELSE Append(seen, k), <<>>, s)
Overlaid(path) ==
    LET lists == [i \in DOMAIN SinceCleared(path) |->
                     KeysOf(path, ListIn(SinceCleared(path)[i], path))]
        result == KeysOf(path, ListIn(effective.value, path))
        Twice(s, k) == Cardinality({i \in DOMAIN s : s[i] = k}) > 1
    IN  /\ (\A i \in DOMAIN lists :
              IsInjective(lists[i]) /\ "none" \notin ToSet(lists[i])) =>
               result = FirstOnly(FlattenSeq(lists))
        /\ \A i \in DOMAIN lists, k \in ToSet(FlattenSeq(lists)) :
              Twice(lists[i], k) => Twice(result, k)
LayersOverlay ==
    \A path \in PackageLists \cup {NodeList, FileList} : Overlaid(path)

\* Logging is configured before the generation is, from the same layers:
\* recording runs with what the whole configuration says of it, and a
\* configuration is refused early only if it is refused anyway.  The one
\* exception is a "cdh" that is no table and that only other variables of the
\* environment replace: the early merge does not see them
\* (config/runtime/config.py, load_runtime_log_settings).
EarlyLogs == LogsOf(MergeAll(LogLayers(layers)).value)
ReplacedUnseen ==
    /\ environment /\ Has(Last(layers), "cdh") /\ ~HasLogs(Last(layers))
    /\ LogsOf(MergeAll(Front(layers)).value) = Refused
LogsAgree ==
    merged = Len(layers) =>
        \/ EarlyLogs = LogsOf(effective.value)
        \/ EarlyLogs = Refused /\ ReplacedUnseen

\* Without that exception, as "Admit only recording settings so later
\* generation errors can be captured" (config/runtime/config.py:288) reads:
\* TLC finds a file whose "cdh" is no table and an environment that sets a
\* downloader.
EarlyAdmissionIsNarrower ==
    merged = Len(layers) /\ EarlyLogs = Refused =>
        LogsOf(effective.value) = Refused

=============================================================================
