------------------------- MODULE FileTransfer_proofs -------------------------
(***************************************************************************)
(* One file for every bound on attempts, starts and faults and every kind  *)
(* of fault: the final path implements AtomicTarget, a reported download   *)
(* is durable, the state file stays valid, a worker that met no fault      *)
(* leaves nothing behind that the next start cannot resume or clean, and   *)
(* the file of somebody else is left alone.                                *)
(*                                                                         *)
(* TransferInv collects what the first four need.  It follows the leaf     *)
(* from the staging name to the target (StagedIsProven,                    *)
(* ReplacesOnlyIfAsked), the authority from the transport to the state     *)
(* file (AuthorityIsAria), the entry that is being written (SoleEntry)     *)
(* and, for a worker that has met no fault, the artifacts that the         *)
(* worker's place says exist (Accounted).  ForeignInv says for the last    *)
(* that no authority anybody may still act on names such a file, and that  *)
(* a worker holds no staging name next to it.                              *)
(***************************************************************************)
EXTENDS FileTransfer, FiniteSetTheorems, TLAPS

-----------------------------------------------------------------------------
(* The inductive invariant.                                                *)

\* Whoever looks at the final path, now or after a crash, finds a whole
\* file, and one whose data is flushed.
TargetIsWhole ==
  \A leaf \in {fs["target"], disk["target"]} :
    leaf.is \in Target!TargetContents /\ leaf.flushed

\* What is about to be renamed has been verified and flushed.
StagedIsProven ==
  run.pc \in {"place", "rename"}
    => fs["staging"].is = "good" /\ fs["staging"].flushed

\* From admission to placement the worker holds a staging leaf.
HoldsStaging ==
  run.pc \in {"transport", "verify", "place", "rename", "placed"}
    => run.stg # 0

\* A target that was there at admission may be replaced only on request.
ReplacesOnlyIfAsked ==
  /\ run.pc \in {"transport", "verify", "place", "rename"}
  /\ run.initial # NoLeaf
  => req.overwrite

\* Where a settled clean-up and a written state file lead.
AfterIsPlace ==
  /\ run.pc = "clean" =>
       run.after \in {"rewrite", "down", "skipped", "failed", "retry",
                      "cancelled", "rejected", "done"}
  /\ run.pc \in {"write", "sync-state"} => run.after \in {"down", "attempt",
                                                         "wait"}

\* The build keeps no state.
BuildKeepsNoState ==
  ~Owned => /\ run.pc \notin {"rewrite", "write", "sync-state"}
            /\ run.pc = "clean" => run.after # "rewrite"
            /\ \A v \in Variants : saved[v] = NoEntry /\ savedDisk[v] = NoEntry

\* What a state file may say of a variant.
ValidEntry(v, e) ==
  e.resume # NoAuth =>
    v = "aria2" /\ e.status \in {"pending", "cleanup_pending"}

\* A state file speaks of one variant.
OneEntry(f) == \A u, v \in Variants : f[u] # NoEntry /\ f[v] # NoEntry => u = v
ValidFile(f) == OneEntry(f) /\ \A v \in Variants : ValidEntry(v, f[v])

\* Continuations exist for aria2 alone.
AriaOnly(r) == /\ r.allow => r.want = "aria2"
               /\ r.auth # NoAuth => r.want = "aria2"
               /\ ValidEntry(r.want, r.next)
AuthorityIsAria == AriaOnly(run)

\* Once the state was rewritten it speaks of the wanted variant alone.
Rewritten == /\ run.pc \notin {"down", "rewrite"}
             /\ ~(run.pc = "clean" /\ run.after = "rewrite")
SoleEntry ==
  Rewritten => \A v \in Variants : v # run.want => saved[v] = NoEntry

StateIsValid == /\ ValidFile(saved) /\ ValidFile(savedDisk)
                /\ AuthorityIsAria /\ SoleEntry /\ BuildKeepsNoState

\* A download is reported when its leaf is durable, and only at the end.
ResultComesLast ==
  run.result = "downloaded" =>
    \/ run.pc = "down"
    \/ run.pc \in {"write", "sync-state"} /\ run.after = "down"
Placed(r) == \/ r.pc = "done"
             \/ r.pc = "clean" /\ r.after = "done"
             \/ r.result = "downloaded"
PlacedIsDurable == Placed(run) => disk["target"] = fs["target"]

\* The staging names are free; or exactly the leaves of an authority; or
\* the one or the other, as the authority says.
Empty(f) == \A n \in StagingNames : f[n].ino = 0
Owns(f, a) == /\ f["temp"].ino = 0
              /\ a.stg # 0 /\ f["staging"].ino = a.stg
              /\ a.ctl # 0 /\ f["control"].ino = a.ctl
HeldBy(f, a) == IF a = NoAuth THEN Empty(f) ELSE Owns(f, a)

\* Some entry of a state file has the authority over the artifacts.
Recoverable(f, s) == \/ Empty(f)
                     \/ \E v \in Variants : /\ s[v].resume # NoAuth
                                            /\ Owns(f, s[v].resume)

\* The target has to be rejected.
Rejects(f, q) == /\ f["target"].ino # 0 /\ q.checksum
                 /\ f["target"].is # "good" /\ ~q.overwrite

\* A worker that met no fault: it was never refused, a target it has to
\* reject leaves it nothing to account for, and after the fallback nothing
\* is preserved any more.
Ordinary(f, r, q) == /\ r.result # "refused"
                     /\ f["temp"].ino = 0
                     /\ Rejects(f, q) => Empty(f)
                     /\ r.fallback => ~r.allow

\* Its place says which artifacts exist, and who has authority over them.
Accounted(f, r, s, q) ==
  /\ r.pc = "down" => Recoverable(f, s)
  /\ r.pc \in {"rewrite", "write"} => HeldBy(f, r.next.resume)
  /\ r.pc = "rewrite" \/ (r.pc = "write" /\ r.after # "down")
       => r.next.resume = r.auth
  /\ r.pc = "sync-state" => HeldBy(f, s[r.want].resume)
  /\ r.pc = "sync-state" /\ r.after # "down" => s[r.want].resume = r.auth
  /\ r.pc \in {"attempt", "wait", "retry", "cancelled"} => HeldBy(f, r.auth)
  /\ r.pc \in {"retry", "cancelled"} /\ r.auth # NoAuth
     /\ q.owner # "runtime"
       => r.pc = "retry" /\ r.attempts < MaxAttempts /\ ~r.fallback
  /\ r.pc \in {"clean", "done", "skipped", "failed", "rejected"} => Empty(f)
  /\ r.pc = "rejected" => r.auth = NoAuth
  /\ r.pc = "clean" /\ r.after \in {"rewrite", "retry", "cancelled",
                                    "rejected"} => r.auth = NoAuth
  /\ r.pc = "clean" /\ r.after = "rewrite" => r.next.resume = NoAuth
  /\ r.pc \in {"transport", "verify", "place", "rename"}
       => f["target"] = r.initial /\ f["staging"].ino = r.stg
          /\ ~Rejects(f, q)
  /\ r.pc \in {"verify", "place", "rename", "placed"}
       => r.auth = NoAuth /\ (r.ctl = 0 => f["control"].ino = 0)
  /\ r.pc = "placed" => f["target"].ino = r.stg /\ f["staging"].ino = 0

FaultlessIsAccounted ==
  faults = 0 => Ordinary(fs, run, req) /\ Accounted(fs, run, saved, req)

TransferInv == /\ TypeOK
               /\ TargetIsWhole /\ StagedIsProven /\ HoldsStaging
               /\ ReplacesOnlyIfAsked /\ AfterIsPlace
               /\ StateIsValid
               /\ ResultComesLast /\ PlacedIsDurable
               /\ FaultlessIsAccounted

-----------------------------------------------------------------------------
(* Inode numbers.                                                          *)

\* A finite set of at most n elements.
AtMost(S, n) == /\ IsFiniteSet(S) /\ Cardinality(S) \in Nat
                /\ Cardinality(S) <= n

\* A union has no more elements than its parts have together.
LEMMA UnionBound ==
    ASSUME NEW S, NEW T, NEW m \in Int, NEW n \in Int, NEW k \in Int,
           AtMost(S, m), AtMost(T, n), m + n <= k
    PROVE  AtMost(S \cup T, k)
<1>1. /\ IsFiniteSet(S) /\ Cardinality(S) \in Nat /\ Cardinality(S) <= m
      /\ IsFiniteSet(T) /\ Cardinality(T) \in Nat /\ Cardinality(T) <= n
  BY DEF AtMost
<1>2. /\ IsFiniteSet(S \cup T)
      /\ Cardinality(S \cup T)
           = Cardinality(S) + Cardinality(T) - Cardinality(S \cap T)
  BY <1>1, FS_Union
<1>3. IsFiniteSet(S \cap T)
  BY <1>1, FS_Intersection
<1>4. Cardinality(S \cap T) \in Nat
  BY <1>3, FS_CardinalityType
<1>5. Cardinality(S \cup T) \in Nat
  BY <1>2, FS_CardinalityType
<1>6. Cardinality(S \cup T) <= k
  BY <1>1, <1>2, <1>4, <1>5
<1>7. QED
  BY <1>2, <1>5, <1>6 DEF AtMost

\* A singleton.
LEMMA OneBound == ASSUME NEW a PROVE AtMost({a}, 1)
<1>1. IsFiniteSet({a}) /\ Cardinality({a}) = 1
  BY FS_Singleton
<1>2. QED
  BY <1>1 DEF AtMost

\* Two values, and four.
LEMMA TwoBound == ASSUME NEW a, NEW b PROVE AtMost({a, b}, 2)
<1>1. AtMost({a}, 1) /\ AtMost({b}, 1)
  BY OneBound
<1>2. AtMost({a} \cup {b}, 2)
  BY <1>1, UnionBound
<1>3. {a, b} = {a} \cup {b}
  OBVIOUS
<1>4. QED
  BY <1>2, <1>3

LEMMA FourBound ==
    ASSUME NEW a, NEW b, NEW c, NEW d
    PROVE  AtMost({a, b, c, d}, 4)
<1>1. AtMost({a, b}, 2) /\ AtMost({c, d}, 2)
  BY TwoBound
<1>2. AtMost({a, b} \cup {c, d}, 4)
  BY <1>1, UnionBound
<1>3. {a, b, c, d} = {a, b} \cup {c, d}
  OBVIOUS
<1>4. QED
  BY <1>2, <1>3

\* At most eighteen inode numbers are referred to.
LEMMA InUseBound == AtMost(InUse, 18)
<1> DEFINE A == {fs["staging"].ino, fs["control"].ino, fs["temp"].ino,
                 fs["target"].ino}
           B == {disk["staging"].ino, disk["control"].ino, disk["temp"].ino,
                 disk["target"].ino}
           C == {run.stg, run.ctl}
           D(v) == {saved[v].resume.stg, saved[v].resume.ctl,
                    savedDisk[v].resume.stg, savedDisk[v].resume.ctl}
<1>1. InUse = ((A \cup B) \cup C) \cup (D("httpx") \cup D("aria2"))
  BY DEF InUse, Names, StagingNames, Variants
<1>2. /\ AtMost(A, 4) /\ AtMost(B, 4) /\ AtMost(C, 2)
      /\ AtMost(D("httpx"), 4) /\ AtMost(D("aria2"), 4)
  BY TwoBound, FourBound
<1> HIDE DEF A, B, C, D
<1>3. AtMost(A \cup B, 8) /\ AtMost(D("httpx") \cup D("aria2"), 8)
  BY <1>2, UnionBound
<1>4. AtMost((A \cup B) \cup C, 10)
  BY <1>2, <1>3, UnionBound
<1>5. AtMost(((A \cup B) \cup C) \cup (D("httpx") \cup D("aria2")), 18)
  BY <1>3, <1>4, UnionBound
<1>6. QED
  BY <1>1, <1>5

\* A set too small to hold every number leaves one.
LEMMA SomeUnused ==
    ASSUME NEW S, AtMost(S, 19)
    PROVE  \E i \in 1..MaxInode : i \notin S
<1> DEFINE U == 1..MaxInode
<1>1. IsFiniteSet(U) /\ Cardinality(U) = MaxInode
  BY SMTT(20), InodesSuffice, FS_Interval
<1>2. SUFFICES ASSUME U \subseteq S PROVE FALSE
  OBVIOUS
<1>3. IsFiniteSet(S) /\ Cardinality(S) \in Nat /\ Cardinality(S) <= 19
  BY DEF AtMost
<1> HIDE DEF U
<1>4. Cardinality(U) <= Cardinality(S)
  BY <1>2, <1>3, FS_Subset
<1>5. QED
  BY <1>1, <1>3, <1>4, InodesSuffice

\* The two numbers an action takes are new, and differ.
LEMMA FreshIsNew ==
    /\ Fresh \in 1..MaxInode /\ Fresh \notin InUse
    /\ Another \in 1..MaxInode /\ Another \notin InUse /\ Another # Fresh
<1>1. AtMost(InUse, 19)
  BY InUseBound DEF AtMost
<1>2. AtMost(InUse \cup {Fresh}, 19)
  <2>1. AtMost({Fresh}, 1)
    BY OneBound
  <2>2. QED
    BY <2>1, InUseBound, UnionBound
<1>3. /\ \E i \in 1..MaxInode : i \notin InUse
      /\ \E i \in 1..MaxInode : i \notin InUse \cup {Fresh}
  BY <1>1, <1>2, SomeUnused
<1>4. QED
  BY <1>3 DEF Fresh, Another

-----------------------------------------------------------------------------
(* Types.                                                                  *)

\* The constant values the worker starts from.
LEMMA Constants ==
    /\ NoLeaf \in Leaves /\ NoAuth \in Authorities /\ NoEntry \in Entries
    /\ Idle \in Workers
    /\ \A w \in Variants, r \in BOOLEAN : Begin(w, r) \in Workers
<1>1. 0 \in Inodes
  BY InodesSuffice DEF Inodes
<1>2. NoLeaf \in Leaves /\ NoAuth \in Authorities
  BY <1>1 DEF NoAuth, Leaves, Authorities
<1>3. NoEntry \in Entries
  BY <1>2 DEF NoEntry, Entries, Statuses
<1>4. Idle \in Workers
  BY <1>1, <1>2, <1>3 DEF Idle, Workers, Points, Results
<1>5. ASSUME NEW w \in Variants, NEW r \in BOOLEAN
      PROVE  Begin(w, r) \in Workers
  <2>1. "rewrite" \in Points /\ (w = "aria2" /\ r) \in BOOLEAN
    BY DEF Points
  <2>2. QED
    BY <1>4, <2>1 DEF Begin, Workers
<1>6. QED
  BY <1>2, <1>3, <1>4, <1>5

\* A new leaf.
LEMMA NewLeaves ==
    ASSUME NEW i \in 1..MaxInode, NEW c \in Contents
    PROVE  Leaf(i, c) \in Leaves
BY InodesSuffice DEF Leaf, Leaves, Inodes

\* Removing leaves keeps the type of the directories.
LEMMA SameTypes == ASSUME TypeOK, NEW S PROVE Same(S) \in [Names -> Leaves]
BY Constants DEF Same, TypeOK

\* The phases that end a step of the worker.
LEMMA ConcludeTypes ==
    ASSUME NEW r \in Workers, NEW status \in Statuses,
           NEW auth \in Authorities, NEW result \in Results,
           r.want \in Variants, Conclude(r, status, auth, result)
    PROVE  run' \in Workers /\ (run'.pc # "down" => run'.want \in Variants)
<1>1. /\ "write" \in Points /\ "down" \in Points
      /\ Entry(status, auth) \in Entries
  BY DEF Points, Entry, Entries
<1>2. CASE Owned
  BY <1>1, <1>2 DEF Conclude, Workers
<1>3. CASE ~Owned
  <2>1. run' = [Idle EXCEPT !.result = result] /\ Idle.pc = "down"
    BY <1>3 DEF Conclude, Idle
  <2>2. QED
    BY <2>1, Constants DEF Workers
<1>4. QED
  BY <1>2, <1>3

LEMMA CleanThenTypes ==
    ASSUME TypeOK, NEW r \in Workers, NEW names, NEW after \in Points,
           r.want \in Variants, CleanThen(r, names, after)
    PROVE  /\ fs' \in [Names -> Leaves]
           /\ run' \in Workers /\ run'.want \in Variants
<1>1. "clean" \in Points /\ 0 \in Inodes
  BY InodesSuffice DEF Points, Inodes
<1>2. QED
  BY <1>1, SameTypes DEF CleanThen, Workers

LEMMA AbortTypes ==
    ASSUME NEW result \in Results, Abort(result)
    PROVE  run' \in Workers /\ run'.pc = "down"
BY Constants DEF Abort, Workers, Idle

\* A start.
LEMMA StartTypes ==
    ASSUME TypeOK, Start
    PROVE  TypeOK'
<1>1. /\ UNCHANGED <<disk, saved, savedDisk, req, faults>>
      /\ starts' \in Nat
  BY DEF Start, TypeOK
<1>2. SUFFICES /\ fs' \in [Names -> Leaves] /\ run' \in Workers
               /\ run'.pc # "down" => run'.want \in Variants
  BY <1>1 DEF TypeOK
<1>3. ASSUME NEW w \in Variants, ReconcileStale(w)
      PROVE  /\ fs' \in [Names -> Leaves] /\ run' \in Workers
             /\ run'.pc # "down" => run'.want \in Variants
  <2> DEFINE r == Begin(w, FALSE)
  <2>1. r \in Workers /\ r.want = w
    BY Constants DEF Begin, Idle
  <2>2. [r EXCEPT !.next = NoEntry] \in Workers
        /\ [r EXCEPT !.next = NoEntry].want = w
    BY <2>1, Constants DEF Workers
  <2>3. saved[w].resume \in Authorities
    BY DEF TypeOK, Entries
  <2>4. [r EXCEPT !.next = Entry("cleanup_pending", saved[w].resume)]
          \in Workers
    BY <2>1, <2>3 DEF Workers, Entry, Entries, Statuses
  <2>5. CASE StaleResolved(w)
    BY <1>3, <2>2, <2>5, CleanThenTypes DEF ReconcileStale, Points
  <2>6. CASE ~StaleResolved(w)
    BY <1>3, <2>1, <2>4, <2>6 DEF ReconcileStale, TypeOK, Workers
  <2>7. QED
    BY <2>5, <2>6
<1>4. ASSUME NEW w \in Variants, NEW resume \in BOOLEAN,
             ReconcileCurrent(w, resume)
      PROVE  /\ fs' \in [Names -> Leaves] /\ run' \in Workers
             /\ run'.pc # "down" => run'.want \in Variants
  <2> DEFINE r == Begin(w, resume)
             going(e, a) == [r EXCEPT !.next = e, !.auth = a]
  <2>1. r \in Workers /\ r.want = w
    BY Constants DEF Begin, Idle
  <2>2. \A e \in Entries, a \in Authorities :
          going(e, a) \in Workers /\ going(e, a).want = w
    BY <2>1 DEF Workers
  <2>3. \A a \in Authorities :
          Entry("pending", a) \in Entries /\ Entry("completed", a) \in Entries
    BY DEF Entry, Entries, Statuses
  <2>4. saved[w].resume \in Authorities
    BY DEF TypeOK, Entries
  <2>5. [r EXCEPT !.next = Entry("pending", NoAuth)] \in Workers
        /\ [r EXCEPT !.next = Entry("pending", NoAuth)].want = w
    BY <2>1, <2>3, Constants DEF Workers
  <2>6. \/ Abort("refused") /\ UNCHANGED fs
        \/ run' = going(Entry("completed", NoAuth), NoAuth) /\ UNCHANGED fs
        \/ /\ run' = going(Entry("pending", saved[w].resume), saved[w].resume)
           /\ UNCHANGED fs
        \/ CleanThen([r EXCEPT !.next = Entry("pending", NoAuth)],
                     StagingNames, "rewrite")
    BY <1>4 DEF ReconcileCurrent
  <2>7. CASE Abort("refused") /\ UNCHANGED fs
    BY <2>7, AbortTypes DEF TypeOK, Results
  <2>8. CASE \/ run' = going(Entry("completed", NoAuth), NoAuth)
                /\ UNCHANGED fs
             \/ /\ run' = going(Entry("pending", saved[w].resume),
                                saved[w].resume)
                /\ UNCHANGED fs
    <3>1. fs' \in [Names -> Leaves]
      BY <2>8 DEF TypeOK
    <3>2. PICK e \in Entries, a \in Authorities : run' = going(e, a)
      BY <2>3, <2>4, <2>8, Constants
    <3>3. QED
      BY <2>2, <3>1, <3>2
  <2>9. CASE CleanThen([r EXCEPT !.next = Entry("pending", NoAuth)],
                       StagingNames, "rewrite")
    BY <2>5, <2>9, CleanThenTypes DEF Points
  <2>10. QED
    BY <2>6, <2>7, <2>8, <2>9
<1>5. ASSUME NEW w \in Variants, NEW resume \in BOOLEAN,
             run' = [Begin(w, resume) EXCEPT !.pc = "attempt"], UNCHANGED fs
      PROVE  /\ fs' \in [Names -> Leaves] /\ run' \in Workers
             /\ run'.pc # "down" => run'.want \in Variants
  <2>1. Begin(w, resume) \in Workers /\ Begin(w, resume).want = w
    BY Constants DEF Begin, Idle
  <2>2. QED
    BY <1>5, <2>1 DEF TypeOK, Workers, Points
<1>6. QED
  BY <1>3, <1>4, <1>5 DEF Start

\* What an answer can amount to: the lineage of the leaves is broken, the
\* content is received, the partial is kept with its authority, or all is
\* cleaned.
Visible(c, d) == [fs EXCEPT !["control"] = c,
                            !["staging"] = Leaf(run.stg, d)]
Tried == [run EXCEPT !.attempts = @ + 1, !.auth = NoAuth]
Keeps(o) == \/ o = "retry" /\ PreserveOnRetryable
            \/ o = "cancel" /\ PreserveOnCancelled

Loses(o, c, d) == /\ ~TargetUnchanged \/ (Keeps(o) /\ c = NoLeaf)
                  /\ LineageFails(Visible(c, d))
Stores(o, c, d) == /\ o = "success" /\ TargetUnchanged
                   /\ fs' = Visible(c, d)
                   /\ run' = [Tried EXCEPT !.pc = "verify", !.ctl = c.ino]
Preserves(o, c, d) ==
  /\ Keeps(o) /\ TargetUnchanged /\ c # NoLeaf
  /\ fs' = Visible(c, d)
  /\ run' = [Tried EXCEPT !.auth = [stg |-> run.stg, ctl |-> c.ino],
                          !.stg = 0, !.ctl = 0,
                          !.pc = IF o = "retry" THEN "retry" ELSE "cancelled"]
Cleans(o, c, d) ==
  /\ TargetUnchanged
  /\ fs' = [Visible(c, d) EXCEPT !["staging"] = NoLeaf, !["control"] = NoLeaf]
  /\ \E after \in {"retry", "cancelled", "rejected", "failed"} :
       run' = [Tried EXCEPT !.pc = "clean", !.after = after, !.stg = 0,
                            !.ctl = 0]

LEMMA AnswerCases ==
    ASSUME NEW o \in Outcomes, Answer(o)
    PROVE  \E c \in ControlsLeft(o), d \in Received(o) :
             \/ Loses(o, c, d) \/ Stores(o, c, d)
             \/ Preserves(o, c, d) \/ Cleans(o, c, d)
<1> DEFINE clean(c, d, after) ==
             /\ fs' = [Visible(c, d) EXCEPT !["staging"] = NoLeaf,
                                            !["control"] = NoLeaf]
             /\ run' = [Tried EXCEPT !.pc = "clean", !.after = after,
                                     !.stg = 0, !.ctl = 0]
           settled(c, d) == clean(c, d, CASE o = "retry" -> "retry"
                                          [] o = "cancel" -> "cancelled"
                                          [] o = "rejected" -> "rejected"
                                          [] o = "terminal" -> "failed")
<1>1. PICK c \in ControlsLeft(o), d \in Received(o) :
        IF ~TargetUnchanged \/ (Keeps(o) /\ c = NoLeaf)
        THEN LineageFails(Visible(c, d))
        ELSE IF o = "success"
        THEN /\ fs' = Visible(c, d)
             /\ run' = [Tried EXCEPT !.pc = "verify", !.ctl = c.ino]
        ELSE IF Keeps(o)
        THEN /\ fs' = Visible(c, d)
             /\ run' = [Tried EXCEPT !.auth = [stg |-> run.stg, ctl |-> c.ino],
                          !.stg = 0, !.ctl = 0,
                          !.pc = IF o = "retry" THEN "retry" ELSE "cancelled"]
        ELSE settled(c, d)
  BY DEF Answer, Keeps, Visible, Tried
<1>2. o # "success" /\ settled(c, d) =>
        \E after \in {"retry", "cancelled", "rejected", "failed"} :
          clean(c, d, after)
  <2>1. CASE o = "retry"
    BY <2>1
  <2>2. CASE o = "cancel"
    BY <2>2
  <2>3. CASE o = "rejected"
    BY <2>3
  <2>4. CASE o = "terminal"
    BY <2>4
  <2>5. QED
    BY <2>1, <2>2, <2>3, <2>4 DEF Outcomes
<1> HIDE DEF settled
<1>3. CASE ~TargetUnchanged \/ (Keeps(o) /\ c = NoLeaf)
  BY <1>1, <1>3 DEF Loses
<1>4. CASE TargetUnchanged /\ ~(Keeps(o) /\ c = NoLeaf) /\ o = "success"
  BY <1>1, <1>4 DEF Stores
<1>5. CASE /\ TargetUnchanged /\ ~(Keeps(o) /\ c = NoLeaf)
           /\ o # "success" /\ Keeps(o)
  BY <1>1, <1>5 DEF Preserves
<1>6. CASE TargetUnchanged /\ o # "success" /\ ~Keeps(o)
  BY <1>1, <1>2, <1>6 DEF Cleans
<1>7. QED
  BY <1>3, <1>4, <1>5, <1>6

\* The worker's record and the directories after an answer of the
\* transport.
LEMMA AnswerTypes ==
    ASSUME TypeOK, HoldsStaging, At("transport"),
           NEW o \in Outcomes, Answer(o)
    PROVE  fs' \in [Names -> Leaves] /\ run' \in Workers
           /\ run'.want = run.want
<1>1. PICK c \in ControlsLeft(o), d \in Received(o) :
        \/ Loses(o, c, d) \/ Stores(o, c, d)
        \/ Preserves(o, c, d) \/ Cleans(o, c, d)
  BY AnswerCases
<1>2. run \in Workers /\ fs \in [Names -> Leaves] /\ run.stg \in Inodes
      /\ run.stg # 0 /\ run.attempts \in Nat
  BY DEF TypeOK, Workers, HoldsStaging, At
<1>3. Tried \in Workers /\ Tried.want = run.want
  <2>1. run.attempts + 1 \in Nat /\ NoAuth \in Authorities
    BY <1>2, Constants
  <2>2. Tried = [run EXCEPT !.attempts = run.attempts + 1, !.auth = NoAuth]
    BY DEF Tried
  <2>3. QED
    BY <1>2, <2>1, <2>2 DEF Workers
<1>4. c \in Leaves /\ c.ino \in Inodes
  <2>1. "control" \in Names /\ "part" \in Contents
    BY DEF Names, StagingNames, Contents
  <2>2. fs["control"] \in Leaves /\ Leaf(Fresh, "part") \in Leaves
    BY <1>2, <2>1, FreshIsNew, NewLeaves
  <2>3. c \in Leaves
    BY <2>2, Constants DEF ControlsLeft
  <2>4. QED
    BY <2>3, InodesSuffice DEF Leaves, NoLeaf, Inodes
<1>5. d \in Contents
  BY DEF Received, Contents
<1>6. Leaf(run.stg, d) \in Leaves
  BY <1>2, <1>5, InodesSuffice, NewLeaves DEF Inodes
<1>7. Visible(c, d) \in [Names -> Leaves]
  BY <1>2, <1>4, <1>6 DEF Visible
<1>8. /\ "clean" \in Points /\ "failed" \in Points /\ "retry" \in Points
      /\ "cancelled" \in Points /\ "rejected" \in Points
      /\ "verify" \in Points /\ 0 \in Inodes
  BY InodesSuffice DEF Points, Inodes
<1>9. CASE Loses(o, c, d)
  BY <1>2, <1>7, <1>8, <1>9, Constants DEF Loses, LineageFails, Workers
<1>10. CASE Stores(o, c, d)
  BY <1>3, <1>4, <1>7, <1>8, <1>10 DEF Stores, Workers
<1>11. CASE Preserves(o, c, d)
  <2>1. [stg |-> run.stg, ctl |-> c.ino] \in Authorities
    BY <1>2, <1>4 DEF Authorities
  <2>2. PICK p \in Points :
          run' = [Tried EXCEPT !.auth = [stg |-> run.stg, ctl |-> c.ino],
                               !.stg = 0, !.ctl = 0, !.pc = p]
    <3>1. (IF o = "retry" THEN "retry" ELSE "cancelled") \in Points
      BY <1>8
    <3>2. QED
      BY <1>11, <3>1 DEF Preserves
  <2>3. QED
    BY <1>3, <1>7, <1>8, <1>11, <2>1, <2>2 DEF Preserves, Workers
<1>12. CASE Cleans(o, c, d)
  <2>1. PICK a \in Points :
          run' = [Tried EXCEPT !.pc = "clean", !.after = a, !.stg = 0,
                               !.ctl = 0]
    BY <1>8, <1>12 DEF Cleans
  <2>2. QED
    BY <1>3, <1>7, <1>8, <1>12, <2>1, Constants DEF Cleans, Workers
<1>13. QED
  BY <1>1, <1>9, <1>10, <1>11, <1>12

\* Verification and placement fail in one way.
LEMMA UnfinishedTypes ==
    ASSUME TypeOK, NEW after \in Points, Unfinished(fs, after)
    PROVE  /\ fs' \in [Names -> Leaves] /\ run' \in Workers
           /\ run'.want = run.want
<1>1. "clean" \in Points /\ 0 \in Inodes
  BY InodesSuffice DEF Points, Inodes
<1>2. QED
  BY <1>1, Constants DEF Unfinished, TypeOK, Workers

\* The staging leaf is cleaned alone.
LEMMA LineageTypes ==
    ASSUME TypeOK, LineageFails(fs)
    PROVE  /\ fs' \in [Names -> Leaves] /\ run' \in Workers
           /\ run'.want = run.want
<1>1. "clean" \in Points /\ "failed" \in Points /\ 0 \in Inodes
  BY InodesSuffice DEF Points, Inodes
<1>2. QED
  BY <1>1, Constants DEF LineageFails, TypeOK, Workers

\* Torn data is still a leaf.
LEMMA TornTypes ==
    ASSUME NEW l \in Leaves
    PROVE  Torn(l) \in Leaves
<1>1. CASE l.flushed
  BY <1>1 DEF Torn
<1>2. CASE ~l.flushed
  BY <1>2 DEF Torn, Leaves, Contents, NoLeaf
<1>3. QED
  BY <1>1, <1>2
\* The next step of a worker that concludes, tries again or goes on.
LEMMA SettleTypes ==
    ASSUME TypeOK, ~At("down"), Settle
    PROVE  run' \in Workers /\ (run'.pc # "down" => run'.want \in Variants)
<1>1. run \in Workers /\ run.want \in Variants /\ run.auth \in Authorities
  BY DEF TypeOK, At, Workers
<1>2. /\ "completed" \in Statuses /\ "pending" \in Statuses
      /\ {"downloaded", "skipped", "failed", "cancelled", "exhausted"}
           \subseteq Results
      /\ NoAuth \in Authorities
      /\ "wait" \in Points /\ "attempt" \in Points /\ "write" \in Points
  BY Constants DEF Statuses, Results, Points
<1>3. ASSUME NEW r \in Workers, r.want \in Variants, NEW place \in Points,
             TryAgain(r, place)
      PROVE  run' \in Workers /\ run'.want \in Variants
  <2>1. Entry("pending", r.auth) \in Entries
    BY <1>2, <1>3 DEF Entry, Entries, Workers
  <2>2. QED
    BY <1>2, <1>3, <2>1 DEF TryAgain, Workers
<1>4. [run EXCEPT !.allow = FALSE, !.fallback = TRUE] \in Workers
      /\ [run EXCEPT !.allow = FALSE, !.fallback = TRUE].want \in Variants
  BY <1>1 DEF Workers
<1>5. \/ \E status \in Statuses, auth \in Authorities, result \in Results :
           Conclude(run, status, auth, result)
      \/ \E r \in Workers, place \in Points :
           r.want \in Variants /\ TryAgain(r, place)
  BY <1>1, <1>2, <1>4 DEF Settle
<1>6. QED
  BY <1>1, <1>3, <1>5, ConcludeTypes

\* Every step keeps the types.
LEMMA TypesStep ==
    ASSUME TypeOK, HoldsStaging, [Next]_vars
    PROVE  TypeOK'
<1> USE DEF At
<1>1. run \in Workers /\ fs \in [Names -> Leaves] /\ disk \in [Names -> Leaves]
      /\ saved \in [Variants -> Entries] /\ faults \in Nat /\ starts \in Nat
      /\ run.auth \in Authorities /\ run.next \in Entries
  BY DEF TypeOK, Workers
<1> DEFINE Kept == UNCHANGED <<disk, saved, savedDisk, req, starts>>
           Moved == /\ fs' \in [Names -> Leaves] /\ run' \in Workers
                    /\ run'.pc # "down" => run'.want \in Variants
<1>2. Kept /\ Moved /\ faults' \in Nat => TypeOK'
  BY DEF TypeOK
<1>3. \A k : Fault(k) => faults' \in Nat
  BY <1>1 DEF Fault
<1>4. \A q \in Points :
        run.pc # "down" => /\ [run EXCEPT !.pc = q] \in Workers
                           /\ [run EXCEPT !.pc = q].want \in Variants
  BY <1>1 DEF TypeOK, Workers
<1>5. \A n \in Names : fs[n] \in Leaves /\ disk[n] \in Leaves
  BY <1>1
<1>6. /\ NoLeaf \in Leaves /\ Leaf(Another, "other") \in Leaves
      /\ Leaf(Fresh, "part") \in Leaves
  BY Constants, FreshIsNew, NewLeaves DEF Contents
<1> HIDE DEF Kept, Moved
<1>10. CASE Start
  BY <1>10, StartTypes
<1>11. CASE WriteState
  <2>1. PICK after \in Points :
          run' = [run EXCEPT !.pc = "sync-state", !.after = after]
    <3>1. /\ run.after \in Points /\ "down" \in Points /\ "attempt" \in Points
      BY <1>1 DEF Workers, Points
    <3>2. QED
      BY <1>11, <3>1 DEF WriteState
  <2>2. run' \in Workers /\ run'.want = run.want /\ run.pc # "down"
    <3>1. "sync-state" \in Points /\ run.pc # "down"
      BY <1>11 DEF Points, WriteState
    <3>2. QED
      BY <1>1, <2>1, <3>1 DEF Workers
  <2>3. saved' \in [Variants -> Entries]
    BY <1>1, <1>11, Constants DEF WriteState
  <2>4. UNCHANGED <<fs, disk, savedDisk, req, starts, faults>>
    BY <1>11 DEF WriteState
  <2>5. QED
    BY <2>2, <2>3, <2>4 DEF TypeOK
<1>12. CASE SyncState
  <2>1. /\ run.after \in Points /\ "down" \in Points /\ run.result \in Results
    BY <1>1 DEF Workers, Points
  <2>2. CASE run.after = "down"
    <3>1. run' = [Idle EXCEPT !.result = run.result]
      BY <1>12, <2>2 DEF SyncState
    <3>2. run' \in Workers /\ run'.pc = "down"
      BY <2>1, <3>1, Constants DEF Workers, Idle
    <3>3. QED
      BY <1>12, <3>2 DEF SyncState, TypeOK
  <2>3. CASE run.after # "down"
    <3>1. run' = [run EXCEPT !.pc = run.after, !.next = NoEntry,
                             !.after = "down"]
      BY <1>12, <2>3 DEF SyncState
    <3>2. run' \in Workers /\ run'.want = run.want /\ run.pc # "down"
      BY <1>1, <1>12, <2>1, <3>1, Constants DEF Workers, SyncState
    <3>3. QED
      BY <1>12, <3>2 DEF SyncState, TypeOK
  <2>4. QED
    BY <2>2, <2>3
<1>13. CASE StateWriteFails
  BY <1>2, <1>3, <1>13, AbortTypes DEF StateWriteFails, Kept, Moved, TypeOK,
                                       Results
<1>14. CASE Cancelled \/ SkipExisting
  <2>1. /\ run.want \in Variants
        /\ "pending" \in Statuses /\ "completed" \in Statuses
        /\ {"cancelled", "skipped", "failed", "fatal"} \subseteq Results
        /\ "down" \in Points /\ "skipped" \in Points
    BY <1>14 DEF Cancelled, SkipExisting, TypeOK, Statuses, Results, Points
  <2>2. [run EXCEPT !.result = "cancelled"] \in Workers
        /\ [run EXCEPT !.result = "cancelled"].want \in Variants
    BY <1>1, <2>1 DEF Workers
  <2>3. \/ /\ \E status \in Statuses, auth \in Authorities,
                 result \in Results : Conclude(run, status, auth, result)
           /\ UNCHANGED fs
        \/ \E r \in Workers, after \in Points :
             r.want \in Variants /\ CleanThen(r, StagingNames, after)
        \/ (\E result \in Results : Abort(result)) /\ UNCHANGED fs
    BY <1>1, <1>14, <2>1, <2>2, Constants DEF Cancelled, SkipExisting
  <2>4. Moved
    BY <1>1, <2>1, <2>3, ConcludeTypes, CleanThenTypes, AbortTypes DEF Moved
  <2>5. QED
    BY <1>1, <1>2, <1>14, <2>4 DEF Kept, Cancelled, SkipExisting
<1>15. CASE Waited
  BY <1>1, <1>2, <1>4, <1>15 DEF Waited, Kept, Moved, Points
<1>16. CASE RejectExisting
  <2>1. /\ "pending" \in Statuses /\ "failed" \in Results
        /\ run.want \in Variants
    BY <1>16 DEF Statuses, Results, RejectExisting, TypeOK
  <2>2. QED
    BY <1>1, <1>2, <1>16, <2>1, Constants, ConcludeTypes
       DEF RejectExisting, Kept, Moved
<1>17. CASE Admit
  <2>1. run.want \in Variants /\ "pending" \in Statuses /\ "failed" \in Results
    BY <1>17 DEF Admit, TypeOK, Statuses, Results
  <2>2. UNCHANGED <<disk, saved, savedDisk, req, starts, faults>>
    BY <1>17 DEF Admit
  <2>3. CASE Conclude(run, "pending", NoAuth, "failed") /\ UNCHANGED fs
    BY <1>1, <1>2, <2>1, <2>2, <2>3, Constants, ConcludeTypes DEF Kept, Moved
  <2>4. ASSUME NEW stg \in Inodes,
               run' = [run EXCEPT !.pc = "transport", !.initial = fs["target"],
                                  !.stg = stg, !.ctl = run.auth.ctl],
               fs' \in {fs, [fs EXCEPT !["staging"] = Leaf(Fresh, "part")]}
        PROVE  TypeOK'
    <3>1. "transport" \in Points /\ fs["target"] \in Leaves
          /\ run.auth.ctl \in Inodes
      BY <1>1, <1>5 DEF Points, Names, Authorities
    <3>2. run' \in Workers /\ run'.want = run.want
      BY <1>1, <2>4, <3>1 DEF Workers
    <3>3. fs' \in [Names -> Leaves]
      BY <1>1, <1>6, <2>4
    <3>4. QED
      BY <1>1, <1>2, <2>1, <2>2, <3>2, <3>3 DEF Kept, Moved
  <2>5. run.auth.stg \in Inodes /\ Leaf(Fresh, "part").ino \in Inodes
    BY <1>1, InodesSuffice, FreshIsNew DEF Authorities, Leaf, Inodes
  <2>6. QED
    BY <1>17, <2>3, <2>4, <2>5 DEF Admit
<1>18. CASE SaveControl
  <2>1. fs' \in [Names -> Leaves]
    BY <1>1, <1>6, <1>18 DEF SaveControl
  <2>2. QED
    BY <1>1, <1>2, <1>18, <2>1 DEF SaveControl, Kept, Moved, TypeOK
<1>19. CASE Answers
  BY <1>1, <1>2, <1>19, AnswerTypes DEF Answers, Kept, Moved, TypeOK
<1>20. CASE TransportBreaks
  <2>1. run.want \in Variants /\ Kept
    BY <1>20 DEF TransportBreaks, TypeOK, Kept
  <2>2. CASE LineageFails(fs)
    BY <1>2, <1>3, <1>20, <2>1, <2>2, LineageTypes DEF TransportBreaks, Moved
  <2>3. CASE /\ fs' = [fs EXCEPT !["staging"] = NoLeaf,
                         !["control"] = IF @.ino = run.ctl THEN NoLeaf ELSE @]
             /\ run' = [run EXCEPT !.pc = "clean", !.after = "failed",
                                   !.stg = 0, !.ctl = 0]
    <3>1. "clean" \in Points /\ "failed" \in Points /\ 0 \in Inodes
      BY InodesSuffice DEF Points, Inodes
    <3>2. fs' \in [Names -> Leaves]
      BY <1>1, <1>6, <2>3
    <3>3. run' \in Workers /\ run'.want = run.want
      BY <1>1, <2>3, <3>1 DEF Workers
    <3>4. QED
      BY <1>2, <1>3, <1>20, <2>1, <3>2, <3>3 DEF TransportBreaks, Moved
  <2>4. QED
    BY <1>20, <2>2, <2>3 DEF TransportBreaks
<1>21. CASE Verify \/ CheckTarget \/ Rename \/ PlacementFails
  <2>1. /\ run.want \in Variants /\ run.pc # "down" /\ Kept
        /\ faults' \in Nat
    BY <1>1, <1>3, <1>21
       DEF Verify, CheckTarget, Rename, PlacementFails, TypeOK, Kept
  <2>2. {"retry", "failed", "place", "rename", "placed"} \subseteq Points
    BY DEF Points
  <2>3. ASSUME NEW after \in {"retry", "failed"}, Unfinished(fs, after)
        PROVE  TypeOK'
    BY <1>2, <2>1, <2>2, <2>3, UnfinishedTypes DEF Moved
  <2>4. ASSUME NEW q \in {"place", "rename", "placed"},
               run' = [run EXCEPT !.pc = q], fs' \in [Names -> Leaves]
        PROVE  TypeOK'
    BY <1>1, <1>2, <1>4, <2>1, <2>2, <2>4 DEF Moved
  <2>5. CASE Verify
    <3>1. CASE fs["staging"].is = "good"
      <4>1. [fs["staging"] EXCEPT !.flushed = TRUE] \in Leaves
        <5>1. fs["staging"] \in Leaves \ {NoLeaf}
          BY <1>5, <3>1 DEF Names, StagingNames, NoLeaf
        <5>2. fs["staging"] \in [ino : 1..MaxInode, is : Contents,
                                flushed : BOOLEAN]
          BY <5>1 DEF Leaves
        <5>3. QED
          BY <5>2 DEF Leaves
      <4>2. fs' = [fs EXCEPT !["staging"].flushed = TRUE]
            /\ run' = [run EXCEPT !.pc = "place"]
        BY <2>5, <3>1 DEF Verify
      <4>3. fs' \in [Names -> Leaves]
        BY <1>1, <4>1, <4>2
      <4>4. QED
        BY <2>4, <4>2, <4>3
    <3>2. CASE fs["staging"].is # "good"
      BY <2>3, <2>5, <3>2 DEF Verify
    <3>3. QED
      BY <3>1, <3>2
  <2>6. CASE CheckTarget
    BY <1>1, <2>3, <2>4, <2>6 DEF CheckTarget
  <2>7. CASE Rename
    <3>1. [fs EXCEPT !["target"] = fs["staging"], !["staging"] = NoLeaf]
            \in [Names -> Leaves]
      BY <1>1, <1>5, <1>6 DEF Names, StagingNames
    <3>2. QED
      BY <2>3, <2>4, <2>7, <3>1 DEF Rename
  <2>8. CASE PlacementFails
    BY <2>3, <2>8 DEF PlacementFails
  <2>9. QED
    BY <1>21, <2>5, <2>6, <2>7, <2>8
<1>22. CASE SyncPlaced \/ SyncPlacedFails
  <2>1. run.want \in Variants /\ run.pc # "down" /\ faults' \in Nat
        /\ disk' \in [Names -> Leaves]
        /\ UNCHANGED <<saved, savedDisk, req, starts>>
    BY <1>1, <1>3, <1>22 DEF SyncPlaced, SyncPlacedFails, TypeOK
  <2>2. "failed" \in Points /\ "done" \in Points /\ "clean" \in Points
        /\ 0 \in Inodes
    BY InodesSuffice DEF Points, Inodes
  <2>3. \/ /\ run' \in {[run EXCEPT !.pc = "failed"],
                        [run EXCEPT !.pc = "done"]}
           /\ fs' = fs
        \/ /\ fs' = [fs EXCEPT !["control"] = NoLeaf]
           /\ run' = [run EXCEPT !.pc = "clean", !.after = "done", !.ctl = 0]
    BY <1>22 DEF SyncPlaced, SyncPlacedFails
  <2>4. run' \in Workers /\ run'.want = run.want
    BY <1>1, <2>2, <2>3 DEF Workers
  <2>5. fs' \in [Names -> Leaves]
    BY <1>1, <1>6, <2>3
  <2>6. QED
    BY <2>1, <2>4, <2>5 DEF TypeOK
<1>23. CASE CleanSync
  <2>1. disk' \in [Names -> Leaves]
    BY <1>1, <1>5, <1>23 DEF CleanSync, SyncStaging
  <2>2. run.after \in Points /\ "down" \in Points /\ run.result \in Results
        /\ run.want \in Variants
    BY <1>1, <1>23 DEF Workers, Points, TypeOK, CleanSync
  <2>3. \/ run' = [Idle EXCEPT !.result = run.result]
        \/ run' = [run EXCEPT !.pc = run.after, !.after = "down"]
    BY <1>23 DEF CleanSync
  <2>4. run' \in Workers /\ (run'.pc # "down" => run'.want \in Variants)
    <3>1. Idle \in Workers /\ Idle.pc = "down"
      BY Constants DEF Idle
    <3>2. QED
      BY <1>1, <2>2, <2>3, <3>1 DEF Workers
  <2>5. QED
    BY <1>1, <1>23, <2>1, <2>4 DEF TypeOK, CleanSync
<1>24. CASE CleanSyncFails
  <2>1. run.want \in Variants /\ Kept /\ fs' = fs /\ faults' \in Nat
        /\ run.pc # "down"
    BY <1>1, <1>3, <1>24 DEF CleanSyncFails, TypeOK, Kept
  <2>2. \/ run' = [run EXCEPT !.pc = "rewrite",
                    !.next = Entry("cleanup_pending", saved[run.want].resume)]
        \/ Abort("fatal")
        \/ run' = [run EXCEPT !.pc = "failed"]
    BY <1>24 DEF CleanSyncFails
  <2>3. Entry("cleanup_pending", saved[run.want].resume) \in Entries
    BY <1>1, <2>1 DEF Entry, Entries, Statuses
  <2>4. "rewrite" \in Points /\ "failed" \in Points /\ "fatal" \in Results
    BY DEF Points, Results
  <2>5. run' \in Workers /\ (run'.pc # "down" => run'.want \in Variants)
    BY <1>1, <2>1, <2>2, <2>3, <2>4, AbortTypes DEF Workers
  <2>6. QED
    BY <1>1, <1>2, <2>1, <2>5 DEF Moved
<1>25. CASE Settle
  <2>1. run.pc # "down" /\ Kept /\ fs' = fs /\ faults' = faults
    BY <1>25 DEF Settle, Kept
  <2>2. QED
    BY <1>1, <1>2, <1>25, <2>1, SettleTypes DEF Moved
<1>26. CASE TargetChanges \/ StagingChanges
  <2>1. PICK n \in Names, leaf \in Leaves :
          /\ fs' = [fs EXCEPT ![n] = leaf]
          /\ disk' = [disk EXCEPT ![n] = leaf]
    BY <1>6, <1>26 DEF TargetChanges, StagingChanges, Names
  <2>2. fs' \in [Names -> Leaves] /\ disk' \in [Names -> Leaves]
    BY <1>1, <2>1
  <2>3. faults' \in Nat /\ UNCHANGED <<saved, savedDisk, req, run, starts>>
    BY <1>3, <1>26 DEF TargetChanges, StagingChanges
  <2>4. QED
    BY <2>2, <2>3 DEF TypeOK
<1>27. CASE Crash
  <2>1. PICK new \in SUBSET Names :
          fs' = [n \in Names |-> Torn(IF n \in new THEN fs[n] ELSE disk[n])]
    BY <1>27 DEF Crash
  <2>2. fs' \in [Names -> Leaves] /\ disk' = fs'
    BY <1>5, <1>27, <2>1, TornTypes DEF Crash
  <2>3. run' \in Workers /\ run'.pc = "down"
    <3>1. "crashed" \in Results /\ Idle.pc = "down"
      BY DEF Results, Idle
    <3>2. QED
      BY <1>27, <3>1, Constants DEF Crash, Workers
  <2>4. /\ saved' \in {saved, savedDisk} /\ savedDisk' \in {saved, savedDisk}
        /\ faults' \in Nat /\ UNCHANGED <<req, starts>>
    BY <1>3, <1>27 DEF Crash
  <2>5. QED
    BY <2>2, <2>3, <2>4 DEF TypeOK
<1>28. CASE UNCHANGED vars
  BY <1>28 DEF vars, TypeOK
<1>29. QED
  BY <1>10, <1>11, <1>12, <1>13, <1>14, <1>15, <1>16, <1>17, <1>18, <1>19,
     <1>20, <1>21, <1>22, <1>23, <1>24, <1>25, <1>26, <1>27, <1>28 DEF Next

-----------------------------------------------------------------------------
(* The phases of the worker.                                               *)

\* The phases in which a staging leaf is held.
Held == {"transport", "verify", "place", "rename", "placed"}

\* Where the steps that end a phase lead.
LEMMA EndsOfPhases ==
    ASSUME NEW r \in Workers
    PROVE  /\ \A status, auth, result : Conclude(r, status, auth, result) =>
                run'.pc \notin Held /\ AfterIsPlace'
           /\ \A result : Abort(result) => run'.pc = "down" /\ AfterIsPlace'
           /\ \A names, after :
                /\ after \in {"rewrite", "down", "skipped"}
                /\ CleanThen(r, names, after)
                => run'.pc = "clean" /\ AfterIsPlace'
<1>1. ASSUME NEW status, NEW auth, NEW result,
             Conclude(r, status, auth, result)
      PROVE  run'.pc \notin Held /\ AfterIsPlace'
  <2>1. CASE Owned
    <3>1. run'.pc = "write" /\ run'.after = "down"
      BY <1>1, <2>1 DEF Conclude, Workers
    <3>2. QED
      BY <3>1 DEF AfterIsPlace, Held
  <2>2. CASE ~Owned
    <3>1. run'.pc = "down"
      BY <1>1, <2>2 DEF Conclude, Idle
    <3>2. QED
      BY <3>1 DEF AfterIsPlace, Held
  <2>3. QED
    BY <2>1, <2>2
<1>2. ASSUME NEW result, Abort(result)
      PROVE  run'.pc = "down" /\ AfterIsPlace'
  BY <1>2 DEF Abort, Idle, AfterIsPlace
<1>3. ASSUME NEW names, NEW after \in {"rewrite", "down", "skipped"},
             CleanThen(r, names, after)
      PROVE  run'.pc = "clean" /\ AfterIsPlace'
  <2>1. run'.pc = "clean" /\ run'.after = after
    BY <1>3 DEF CleanThen, Workers
  <2>2. QED
    BY <2>1 DEF AfterIsPlace
<1>4. QED
  BY <1>1, <1>2, <1>3

\* A start enters no phase that holds a leaf.
LEMMA StartPhase ==
    ASSUME TypeOK, Start
    PROVE  run'.pc \notin Held /\ AfterIsPlace'
<1>1. \A w \in Variants, b \in BOOLEAN :
        /\ Begin(w, b) \in Workers
        /\ Begin(w, b).pc = "rewrite"
  BY Constants DEF Begin, Idle
<1>2. \A w \in Variants, b \in BOOLEAN : \A e \in Entries :
        [Begin(w, b) EXCEPT !.next = e] \in Workers
  BY <1>1 DEF Workers
<1>3. \A v \in Variants : saved[v].resume \in Authorities
  BY DEF TypeOK, Entries
<1>4. \A a \in Authorities : /\ Entry("pending", a) \in Entries
                             /\ Entry("cleanup_pending", a) \in Entries
  BY DEF Entry, Entries, Statuses
<1>5. ASSUME run'.pc \in {"rewrite", "attempt"}
      PROVE  run'.pc \notin Held /\ AfterIsPlace'
  BY <1>5 DEF Held, AfterIsPlace
<1>6. ASSUME NEW w \in Variants, ReconcileStale(w)
      PROVE  run'.pc \notin Held /\ AfterIsPlace'
  <2>1. CASE StaleResolved(w)
    <3>1. CleanThen([Begin(w, FALSE) EXCEPT !.next = NoEntry], StagingNames,
                    "rewrite")
      BY <1>6, <2>1 DEF ReconcileStale
    <3>2. QED
      BY <1>2, <3>1, Constants, EndsOfPhases DEF Held
  <2>2. CASE ~StaleResolved(w)
    <3>1. run' = [Begin(w, FALSE) EXCEPT
                    !.next = Entry("cleanup_pending", saved[w].resume)]
      BY <1>6, <2>2 DEF ReconcileStale
    <3>2. run'.pc = "rewrite"
      BY <1>1, <3>1 DEF Workers
    <3>3. QED
      BY <1>5, <3>2
  <2>3. QED
    BY <2>1, <2>2
<1>7. ASSUME NEW w \in Variants, NEW b \in BOOLEAN, ReconcileCurrent(w, b)
      PROVE  run'.pc \notin Held /\ AfterIsPlace'
  <2>1. \/ Abort("refused")
        \/ \E e, a : run' = [Begin(w, b) EXCEPT !.next = e, !.auth = a]
        \/ CleanThen([Begin(w, b) EXCEPT !.next = Entry("pending", NoAuth)],
                     StagingNames, "rewrite")
    BY <1>7 DEF ReconcileCurrent
  <2>2. ASSUME NEW e, NEW a,
               run' = [Begin(w, b) EXCEPT !.next = e, !.auth = a]
        PROVE  run'.pc = "rewrite"
    BY <1>1, <2>2 DEF Workers
  <2>3. Idle \in Workers
    BY Constants
  <2>4. [Begin(w, b) EXCEPT !.next = Entry("pending", NoAuth)] \in Workers
    BY <1>2, <1>4, Constants
  <2>5. QED
    BY <1>5, <2>1, <2>2, <2>3, <2>4, EndsOfPhases DEF Held
<1>8. ASSUME NEW w \in Variants, NEW b \in BOOLEAN,
             run' = [Begin(w, b) EXCEPT !.pc = "attempt"]
      PROVE  run'.pc = "attempt"
  BY <1>1, <1>8 DEF Workers
<1>9. QED
  BY <1>5, <1>6, <1>7, <1>8 DEF Start

\* The steps that enter or stay in no phase that holds a leaf.
LEMMA OtherPhases ==
    ASSUME TypeOK, AfterIsPlace,
           \/ Start \/ WriteState \/ SyncState \/ StateWriteFails
           \/ Cancelled \/ Waited \/ SkipExisting \/ RejectExisting
           \/ TransportBreaks \/ PlacementFails
           \/ SyncPlaced \/ SyncPlacedFails
           \/ CleanSync \/ CleanSyncFails \/ Settle \/ Crash
    PROVE  run'.pc \notin Held /\ AfterIsPlace'
<1> USE DEF At
<1>1. run \in Workers
  BY DEF TypeOK
<1>2. Idle \in Workers /\ Idle.pc = "down"
  BY Constants DEF Idle
<1>3. ASSUME run'.pc \notin Held \cup {"clean", "write", "sync-state"}
      PROVE  run'.pc \notin Held /\ AfterIsPlace'
  BY <1>3 DEF AfterIsPlace
<1>4. ASSUME NEW p, NEW a, p # "clean" \/ a \in {"failed", "retry", "done"},
             p = "clean" \/ (p \in {"write", "sync-state"}
                             /\ a \in {"down", "attempt", "wait"}),
             run'.pc = p, run'.after = a
      PROVE  run'.pc \notin Held /\ AfterIsPlace'
  BY <1>4 DEF AfterIsPlace, Held
<1>10. CASE Start
  BY <1>10, StartPhase
<1>11. CASE WriteState
  <2>1. run'.pc = "sync-state"
        /\ run'.after = IF Unscheduled THEN "down"
                        ELSE IF At("rewrite") THEN "attempt" ELSE run.after
    BY <1>1, <1>11 DEF WriteState, Workers
  <2>2. run'.after \in {"down", "attempt", "wait"}
    BY <1>11, <2>1 DEF WriteState, AfterIsPlace
  <2>3. QED
    BY <1>4, <2>1, <2>2
<1>12. CASE SyncState
  <2>1. CASE run.after = "down"
    BY <1>2, <1>3, <1>12, <2>1 DEF SyncState, Held, Workers
  <2>2. CASE run.after # "down"
    <3>1. run'.pc = run.after /\ run.after \in {"attempt", "wait"}
      BY <1>1, <1>12, <2>2 DEF SyncState, Workers, AfterIsPlace
    <3>2. QED
      BY <1>3, <3>1 DEF Held
  <2>3. QED
    BY <2>1, <2>2
<1>13. CASE StateWriteFails
  BY <1>1, <1>13, EndsOfPhases DEF StateWriteFails, Held
<1>14. CASE Cancelled
  <2>1. [run EXCEPT !.result = "cancelled"] \in Workers
    BY <1>1 DEF Workers, Results
  <2>2. QED
    BY <1>1, <1>14, <2>1, EndsOfPhases DEF Cancelled, Held
<1>15. CASE Waited
  <2>1. run'.pc = "attempt"
    BY <1>1, <1>15 DEF Waited, Workers
  <2>2. QED
    BY <1>3, <2>1 DEF Held
<1>16. CASE SkipExisting \/ RejectExisting
  BY <1>1, <1>16, EndsOfPhases DEF SkipExisting, RejectExisting, Held
<1>17. CASE TransportBreaks \/ PlacementFails
  <2>1. run'.pc = "clean" /\ run'.after = "failed"
    BY <1>1, <1>17 DEF TransportBreaks, LineageFails, PlacementFails,
                       Unfinished, Workers
  <2>2. QED
    BY <1>4, <2>1
<1>18. CASE SyncPlaced \/ SyncPlacedFails
  <2>1. \/ run'.pc \in {"failed", "done"}
        \/ run'.pc = "clean" /\ run'.after = "done"
    BY <1>1, <1>18 DEF SyncPlaced, SyncPlacedFails, Workers
  <2>2. QED
    BY <1>3, <1>4, <2>1 DEF Held
<1>19. CASE CleanSync
  <2>1. run'.pc \in {"rewrite", "down", "skipped", "failed", "retry",
                     "cancelled", "rejected", "done"}
    BY <1>1, <1>2, <1>19 DEF CleanSync, Workers, AfterIsPlace
  <2>2. QED
    BY <1>3, <2>1 DEF Held
<1>20. CASE CleanSyncFails
  <2>1. run'.pc \in {"rewrite", "down", "failed"}
    BY <1>1, <1>2, <1>20 DEF CleanSyncFails, Abort, Workers
  <2>2. QED
    BY <1>3, <2>1 DEF Held
<1>21. CASE Settle
  <2>1. ASSUME NEW status, NEW auth, NEW result,
               Conclude(run, status, auth, result)
        PROVE  run'.pc \notin Held /\ AfterIsPlace'
    BY <1>1, <2>1, EndsOfPhases
  <2>2. ASSUME NEW r \in Workers, NEW place \in {"wait", "attempt"},
               TryAgain(r, place)
        PROVE  run'.pc \notin Held /\ AfterIsPlace'
    <3>1. \/ run'.pc = "write" /\ run'.after = place
          \/ run'.pc = place
      BY <2>2 DEF TryAgain, Workers
    <3>2. QED
      BY <1>3, <1>4, <3>1 DEF Held
  <2>3. [run EXCEPT !.allow = FALSE, !.fallback = TRUE] \in Workers
    BY <1>1 DEF Workers
  <2>4. \/ \E status, auth, result : Conclude(run, status, auth, result)
        \/ \E r \in Workers, place \in {"wait", "attempt"} :
             TryAgain(r, place)
    BY <1>1, <1>21, <2>3 DEF Settle
  <2>5. QED
    BY <2>1, <2>2, <2>4
<1>22. CASE Crash
  <2>1. run'.pc = "down"
    BY <1>2, <1>22 DEF Crash, Workers
  <2>2. QED
    BY <1>3, <2>1 DEF Held
<1>23. QED
  BY <1>10, <1>11, <1>12, <1>13, <1>14, <1>15, <1>16, <1>17, <1>18, <1>19,
     <1>20, <1>21, <1>22

\* What the worker holds, from admission to placement.
HeldInv == /\ StagedIsProven /\ HoldsStaging
           /\ ReplacesOnlyIfAsked /\ AfterIsPlace

LEMMA OutsideHeld ==
    ASSUME run'.pc \notin Held, AfterIsPlace'
    PROVE  HeldInv'
BY DEF HeldInv, StagedIsProven, HoldsStaging, ReplacesOnlyIfAsked, Held

\* A target found at admission is replaced only on request.
LEMMA AdmitAsked ==
    ASSUME TypeOK, ~Skippable, ~Rejected, fs["target"] # NoLeaf
    PROVE  req.overwrite
<1>1. fs["target"].ino # 0
  BY DEF TypeOK, Names, Leaves
<1>2. QED
  BY <1>1 DEF Skippable, Rejected, Present

LEMMA HeldStep ==
    ASSUME TypeOK, HeldInv, [Next]_vars
    PROVE  HeldInv'
<1> USE DEF At
<1>1. run \in Workers /\ StagedIsProven /\ HoldsStaging
      /\ ReplacesOnlyIfAsked /\ AfterIsPlace
  BY DEF TypeOK, HeldInv
<1>2. CASE \/ Start \/ WriteState \/ SyncState \/ StateWriteFails
           \/ Cancelled \/ Waited \/ SkipExisting \/ RejectExisting
           \/ TransportBreaks \/ PlacementFails
           \/ SyncPlaced \/ SyncPlacedFails
           \/ CleanSync \/ CleanSyncFails \/ Settle \/ Crash
  BY <1>1, <1>2, OtherPhases, OutsideHeld
<1>3. CASE Admit
  <2>1. req' = req
    BY <1>3 DEF Admit
  <2>2. CASE Conclude(run, "pending", NoAuth, "failed")
    BY <1>1, <2>2, EndsOfPhases, OutsideHeld
  <2>3. ASSUME NEW i, i # 0, run' = [run EXCEPT !.pc = "transport",
                 !.initial = fs["target"], !.stg = i, !.ctl = run.auth.ctl]
        PROVE  HeldInv'
    <3>1. run'.pc = "transport" /\ run'.initial = fs["target"] /\ run'.stg = i
      BY <1>1, <2>3 DEF Workers
    <3>2. fs["target"] # NoLeaf => req.overwrite
      BY <1>3, AdmitAsked DEF Admit
    <3>3. QED
      BY <2>1, <2>3, <3>1, <3>2 DEF HeldInv, StagedIsProven, HoldsStaging,
                        ReplacesOnlyIfAsked, AfterIsPlace
  <2>4. Leaf(Fresh, "part").ino # 0
    BY FreshIsNew DEF Leaf
  <2>5. run.auth # NoAuth /\ Complete(run.auth) => run.auth.stg # 0
    BY DEF Complete, Admitted, Present
  <2>6. \/ Conclude(run, "pending", NoAuth, "failed")
        \/ \E i : i # 0 /\ run' = [run EXCEPT !.pc = "transport",
                    !.initial = fs["target"], !.stg = i, !.ctl = run.auth.ctl]
    BY <1>3, <2>4, <2>5 DEF Admit
  <2>7. QED
    BY <2>2, <2>3, <2>6
<1>4. CASE Answers
  <2>1. PICK o \in Outcomes : Answer(o)
    BY <1>4 DEF Answers
  <2>2. PICK c \in ControlsLeft(o), d \in Received(o) :
          \/ Loses(o, c, d) \/ Stores(o, c, d)
          \/ Preserves(o, c, d) \/ Cleans(o, c, d)
    BY <2>1, AnswerCases
  <2>3. /\ Tried \in [pc : Points, want : Variants \cup {"none"},
              resume : BOOLEAN, attempts : Nat, allow : BOOLEAN,
              fallback : BOOLEAN, auth : Authorities, stg : Inodes,
              ctl : Inodes, initial : Leaves, next : Entries, after : Points,
              result : Results]
        /\ Tried.stg = run.stg /\ Tried.initial = run.initial
    <3>1. run.attempts + 1 \in Nat /\ NoAuth \in Authorities
      BY <1>1, Constants DEF Workers
    <3>2. Tried = [run EXCEPT !.attempts = run.attempts + 1, !.auth = NoAuth]
      BY DEF Tried
    <3>3. QED
      BY <1>1, <3>1, <3>2 DEF Workers
  <2>4. CASE Loses(o, c, d)
    <3>1. run'.pc = "clean" /\ run'.after = "failed"
      BY <1>1, <2>4 DEF Loses, LineageFails, Workers
    <3>2. QED
      BY <3>1, OutsideHeld DEF Held, AfterIsPlace
  <2>5. CASE Stores(o, c, d)
    <3>1. run'.pc = "verify" /\ run'.stg = run.stg
          /\ run'.initial = run.initial /\ req' = req /\ run.pc = "transport"
      BY <1>4, <2>3, <2>5 DEF Stores, Answers
    <3>2. QED
      BY <1>1, <3>1 DEF HeldInv, StagedIsProven, HoldsStaging,
                        ReplacesOnlyIfAsked, AfterIsPlace
  <2>6. CASE Preserves(o, c, d)
    <3>1. run'.pc \in {"retry", "cancelled"}
      BY <2>3, <2>6 DEF Preserves
    <3>2. QED
      BY <3>1, OutsideHeld DEF Held, AfterIsPlace
  <2>7. CASE Cleans(o, c, d)
    <3>1. run'.pc = "clean"
          /\ run'.after \in {"retry", "cancelled", "rejected", "failed"}
      BY <2>3, <2>7 DEF Cleans
    <3>2. QED
      BY <3>1, OutsideHeld DEF Held, AfterIsPlace
  <2>8. QED
    BY <2>2, <2>4, <2>5, <2>6, <2>7
<1>5. CASE Verify \/ CheckTarget \/ Rename
  <2>1. req' = req
    BY <1>5 DEF Verify, CheckTarget, Rename
  <2>2. ASSUME NEW a \in {"retry", "failed"}, Unfinished(fs, a)
        PROVE  HeldInv'
    <3>1. run'.pc = "clean" /\ run'.after = a
      BY <1>1, <2>2 DEF Unfinished, Workers
    <3>2. QED
      BY <3>1, OutsideHeld DEF Held, AfterIsPlace
  <2>3. CASE Verify
    <3>1. CASE fs["staging"].is = "good"
      <4>1. fs' = [fs EXCEPT !["staging"].flushed = TRUE]
            /\ run' = [run EXCEPT !.pc = "place"] /\ run.pc = "verify"
        BY <2>3, <3>1 DEF Verify
      <4>2. run'.pc = "place" /\ run'.stg = run.stg
            /\ run'.initial = run.initial
        BY <1>1, <4>1 DEF Workers
      <4>3. fs["staging"] \in [ino : 1..MaxInode, is : Contents,
                               flushed : BOOLEAN]
        <5>1. fs["staging"] \in Leaves /\ fs["staging"] # NoLeaf
          BY <3>1 DEF TypeOK, Names, StagingNames, NoLeaf
        <5>2. QED
          BY <5>1 DEF Leaves
      <4>4. fs'["staging"].is = "good" /\ fs'["staging"].flushed
        BY <3>1, <4>1, <4>3 DEF TypeOK, Names, StagingNames
      <4>5. QED
        BY <1>1, <2>1, <4>1, <4>2, <4>4
           DEF HeldInv, StagedIsProven, HoldsStaging, ReplacesOnlyIfAsked,
               AfterIsPlace
    <3>2. QED
      BY <2>2, <2>3, <3>1 DEF Verify
  <2>4. CASE CheckTarget
    <3>1. CASE run' = [run EXCEPT !.pc = "rename"] /\ UNCHANGED fs
      <4>1. run'.pc = "rename" /\ run'.stg = run.stg
            /\ run'.initial = run.initial /\ run.pc = "place"
        BY <1>1, <2>4, <3>1 DEF Workers, CheckTarget
      <4>2. QED
        BY <1>1, <2>1, <3>1, <4>1
           DEF HeldInv, StagedIsProven, HoldsStaging, ReplacesOnlyIfAsked,
               AfterIsPlace
    <3>2. QED
      BY <2>2, <2>4, <3>1 DEF CheckTarget
  <2>5. CASE Rename
    <3>1. CASE run' = [run EXCEPT !.pc = "placed"]
      <4>1. run'.pc = "placed" /\ run'.stg = run.stg /\ run.pc = "rename"
        BY <1>1, <2>5, <3>1 DEF Workers, Rename
      <4>2. QED
        BY <1>1, <4>1
           DEF HeldInv, StagedIsProven, HoldsStaging, ReplacesOnlyIfAsked,
               AfterIsPlace
    <3>2. QED
      BY <2>2, <2>5, <3>1 DEF Rename
  <2>6. QED
    BY <1>5, <2>3, <2>4, <2>5
<1>6. CASE SaveControl \/ TargetChanges \/ StagingChanges \/ UNCHANGED vars
  <2>1. run' = run /\ req' = req
    BY <1>6 DEF SaveControl, TargetChanges, StagingChanges, vars
  <2>2. \/ fs'["staging"] = fs["staging"]
        \/ run.pc = "down"
    BY <1>6 DEF SaveControl, TargetChanges, StagingChanges, vars, TypeOK,
                Names, StagingNames
  <2>3. QED
    BY <1>1, <2>1, <2>2
       DEF HeldInv, StagedIsProven, HoldsStaging, ReplacesOnlyIfAsked,
           AfterIsPlace
<1>7. QED
  BY <1>2, <1>3, <1>4, <1>5, <1>6 DEF Next

-----------------------------------------------------------------------------
(* The final path.                                                         *)

\* What one step does to the final path: nothing but making durable what is
\* visible; the rename; a change from outside; or a crash.
LeavesPath == /\ fs'["target"] = fs["target"]
              /\ disk'["target"] \in {disk["target"], fs["target"]}
CommitsPath == /\ At("rename") /\ ~(run.initial = NoLeaf /\ Present("target"))
               /\ fs'["target"] = fs["staging"] /\ UNCHANGED disk
ChangesPath == /\ fs'["target"] \in {NoLeaf, Leaf(Another, "other")}
               /\ disk'["target"] = fs'["target"]
CrashesPath == /\ fs'["target"] \in {Torn(fs["target"]), Torn(disk["target"])}
               /\ disk'["target"] = fs'["target"]

LEMMA PathStep ==
    ASSUME TypeOK, [Next]_vars
    PROVE  /\ req' = req
           /\ LeavesPath \/ CommitsPath \/ ChangesPath \/ CrashesPath
<1>1. fs \in [Names -> Leaves] /\ disk \in [Names -> Leaves]
      /\ "target" \in Names /\ "target" \notin StagingNames
      /\ \A n \in StagingNames : n \in Names /\ n # "target"
  BY DEF TypeOK, Names, StagingNames
<1>2. \A S \in SUBSET StagingNames : Same(S)["target"] = fs["target"]
  BY <1>1 DEF Same
<1>3. \A n \in StagingNames : \A l :
        /\ [fs EXCEPT ![n] = l]["target"] = fs["target"]
        /\ [disk EXCEPT ![n] = l]["target"] = disk["target"]
  BY <1>1
<1>4. "staging" \in StagingNames /\ "control" \in StagingNames
  BY DEF StagingNames
<1>5. ASSUME NEW r, NEW after, CleanThen(r, StagingNames, after)
      PROVE  fs'["target"] = fs["target"]
  BY <1>2, <1>5 DEF CleanThen
<1>6. CASE Start
  <2>1. fs'["target"] = fs["target"]
    BY <1>5, <1>6 DEF Start, ReconcileStale, ReconcileCurrent
  <2>2. QED
    BY <1>6, <2>1 DEF Start, LeavesPath
<1>7. CASE Cancelled \/ SkipExisting
  <2>1. fs'["target"] = fs["target"]
    BY <1>5, <1>7 DEF Cancelled, SkipExisting
  <2>2. QED
    BY <1>7, <2>1 DEF Cancelled, SkipExisting, LeavesPath
<1>8. CASE \/ WriteState \/ SyncState \/ StateWriteFails \/ Waited
           \/ RejectExisting \/ Settle \/ CleanSyncFails \/ SyncPlacedFails
           \/ UNCHANGED vars
  BY <1>8 DEF WriteState, SyncState, StateWriteFails, Waited, RejectExisting,
              Settle, CleanSyncFails, SyncPlacedFails, vars, LeavesPath
<1>9. CASE Admit \/ SaveControl
  <2>1. fs'["target"] = fs["target"]
    BY <1>1, <1>3, <1>4, <1>9 DEF Admit, SaveControl
  <2>2. QED
    BY <1>9, <2>1 DEF Admit, SaveControl, LeavesPath
<1>10. CASE Answers
  <2>1. PICK o \in Outcomes : Answer(o)
    BY <1>10 DEF Answers
  <2>2. PICK c \in ControlsLeft(o), d \in Received(o) :
          \/ Loses(o, c, d) \/ Stores(o, c, d)
          \/ Preserves(o, c, d) \/ Cleans(o, c, d)
    BY <2>1, AnswerCases
  <2>3. Visible(c, d)["target"] = fs["target"]
        /\ DOMAIN Visible(c, d) = Names
    BY <1>1, <1>4 DEF Visible
  <2>4. fs'["target"] = fs["target"]
    BY <1>1, <1>4, <2>2, <2>3
       DEF Loses, LineageFails, Stores, Preserves, Cleans
  <2>5. QED
    BY <1>10, <2>4 DEF Answers, LeavesPath
<1>11. CASE TransportBreaks
  <2>1. fs'["target"] = fs["target"]
    <3>1. \/ fs' = [fs EXCEPT !["staging"] = NoLeaf,
                   !["control"] = IF @.ino = run.ctl THEN NoLeaf ELSE @]
          \/ fs' = [fs EXCEPT !["staging"] = NoLeaf]
      BY <1>11 DEF TransportBreaks, LineageFails
    <3>2. QED
      BY <1>1, <1>4, <3>1
  <2>2. QED
    BY <1>11, <2>1 DEF TransportBreaks, LeavesPath
<1>12. ASSUME NEW after, Unfinished(fs, after)
       PROVE  fs'["target"] = fs["target"]
  BY <1>1, <1>4, <1>12 DEF Unfinished
<1>13. CASE Verify \/ CheckTarget \/ PlacementFails
  <2>1. fs'["target"] = fs["target"]
    BY <1>1, <1>4, <1>12, <1>13 DEF Verify, CheckTarget, PlacementFails
  <2>2. QED
    BY <1>13, <2>1 DEF Verify, CheckTarget, PlacementFails, LeavesPath
<1>14. CASE Rename
  <2>1. req' = req /\ UNCHANGED disk /\ At("rename")
    BY <1>14 DEF Rename
  <2>2. CASE run.initial = NoLeaf /\ Present("target")
    BY <1>12, <1>14, <2>1, <2>2 DEF Rename, LeavesPath
  <2>3. CASE ~(run.initial = NoLeaf /\ Present("target"))
    <3>1. fs' = [fs EXCEPT !["target"] = fs["staging"], !["staging"] = NoLeaf]
      BY <1>14, <2>3 DEF Rename
    <3>2. fs'["target"] = fs["staging"]
      BY <1>1, <1>4, <3>1
    <3>3. QED
      BY <2>1, <2>3, <3>2 DEF CommitsPath
  <2>4. QED
    BY <2>2, <2>3
<1>15. CASE SyncPlaced
  <2>1. disk' = fs /\ req' = req
        /\ (fs' = fs \/ fs' = [fs EXCEPT !["control"] = NoLeaf])
    BY <1>15 DEF SyncPlaced
  <2>2. fs'["target"] = fs["target"]
    BY <1>1, <1>4, <2>1
  <2>3. QED
    BY <2>1, <2>2 DEF LeavesPath
<1>16. CASE CleanSync
  <2>1. disk'["target"] = disk["target"] /\ fs' = fs /\ req' = req
    BY <1>1, <1>16 DEF CleanSync, SyncStaging
  <2>2. QED
    BY <2>1 DEF LeavesPath
<1>17. CASE TargetChanges
  <2>1. PICK leaf \in {NoLeaf, Leaf(Another, "other")} :
          /\ fs' = [fs EXCEPT !["target"] = leaf]
          /\ disk' = [disk EXCEPT !["target"] = leaf]
          /\ req' = req
    BY <1>17 DEF TargetChanges
  <2>2. fs'["target"] = leaf /\ disk'["target"] = leaf
    BY <1>1, <2>1
  <2>3. QED
    BY <2>1, <2>2 DEF ChangesPath
<1>18. CASE StagingChanges
  <2>1. fs'["target"] = fs["target"] /\ disk'["target"] = disk["target"]
    BY <1>3, <1>18 DEF StagingChanges
  <2>2. QED
    BY <1>18, <2>1 DEF StagingChanges, LeavesPath
<1>19. CASE Crash
  <2>1. PICK new \in SUBSET Names :
          fs' = [n \in Names |-> Torn(IF n \in new THEN fs[n] ELSE disk[n])]
    BY <1>19 DEF Crash
  <2>2. fs'["target"] \in {Torn(fs["target"]), Torn(disk["target"])}
    BY <1>1, <2>1
  <2>3. QED
    BY <1>19, <2>2 DEF Crash, CrashesPath
<1>20. QED
  BY <1>6, <1>7, <1>8, <1>9, <1>10, <1>11, <1>13, <1>14, <1>15, <1>16, <1>17,
     <1>18, <1>19 DEF Next

\* Data that was flushed is not torn.
LEMMA FlushedIsWhole == ASSUME NEW leaf, leaf.flushed PROVE Torn(leaf) = leaf
BY DEF Torn

\* Flushed data is what a reader sees, now and after a crash.
LEMMA TargetStep ==
    ASSUME TypeOK, TargetIsWhole, StagedIsProven, [Next]_vars
    PROVE  TargetIsWhole'
<1> DEFINE Whole(leaf) == leaf.is \in Target!TargetContents /\ leaf.flushed
<1>1. /\ Whole(fs["target"]) /\ Whole(disk["target"])
      /\ Torn(fs["target"]) = fs["target"]
      /\ Torn(disk["target"]) = disk["target"]
  BY FlushedIsWhole DEF TargetIsWhole
<1>2. Whole(NoLeaf) /\ Whole(Leaf(Another, "other"))
  BY DEF NoLeaf, Leaf, Target!TargetContents
<1>3. SUFFICES Whole(fs'["target"]) /\ Whole(disk'["target"])
  BY DEF TargetIsWhole
<1>4. CASE LeavesPath
  BY <1>1, <1>4 DEF LeavesPath
<1>5. CASE CommitsPath
  <2>1. fs["staging"].is = "good" /\ fs["staging"].flushed
    BY <1>5 DEF CommitsPath, At, StagedIsProven
  <2>2. QED
    BY <1>1, <1>5, <2>1 DEF CommitsPath, Target!TargetContents
<1>6. CASE ChangesPath
  BY <1>2, <1>6 DEF ChangesPath
<1>7. CASE CrashesPath
  BY <1>1, <1>7 DEF CrashesPath
<1>8. QED
  BY <1>4, <1>5, <1>6, <1>7, PathStep

\* A step of the worker, or of the world around it, is a step of
\* AtomicTarget or leaves the final path as it is.
LEMMA TargetRefines ==
    ASSUME TypeOK, TargetIsWhole, StagedIsProven, ReplacesOnlyIfAsked,
           TargetIsWhole', [Next]_vars
    PROVE  [Target!Next]_(Target!targetVars)
<1>1. /\ Torn(fs["target"]) = fs["target"]
      /\ Torn(disk["target"]) = disk["target"]
      /\ Torn(fs'["target"]) = fs'["target"]
      /\ Torn(disk'["target"]) = disk'["target"]
  BY FlushedIsWhole DEF TargetIsWhole
<1>2. /\ Seen(disk["target"]) = disk["target"].is
      /\ Seen(disk'["target"]) = disk'["target"].is
  BY <1>1 DEF Seen
<1>3. req'.overwrite = req.overwrite
  BY PathStep
<1>4. CASE LeavesPath
  <2>1. CASE disk'["target"] = disk["target"]
    BY <1>2, <1>3, <1>4, <2>1 DEF LeavesPath, Target!targetVars
  <2>2. CASE disk'["target"] = fs["target"]
    <3>1. Target!Persist
      BY <1>2, <1>3, <1>4, <2>2 DEF LeavesPath, Target!Persist
    <3>2. QED
      BY <3>1 DEF Target!Next
  <2>3. QED
    BY <1>4, <2>1, <2>2 DEF LeavesPath
<1>5. CASE CommitsPath
  <2>1. fs'["target"].is = "good" /\ disk' = disk
    BY <1>5 DEF CommitsPath, At, StagedIsProven
  <2>2. fs["target"].is = "absent" \/ req.overwrite
    <3>1. CASE run.initial # NoLeaf
      BY <1>5, <3>1 DEF CommitsPath, At, ReplacesOnlyIfAsked
    <3>2. CASE ~Present("target")
      <4>1. fs["target"] \in Leaves /\ fs["target"].ino = 0
        BY <3>2 DEF TypeOK, Names, Present
      <4>2. fs["target"] = NoLeaf
        BY <4>1 DEF Leaves
      <4>3. QED
        BY <4>2 DEF NoLeaf
    <3>3. QED
      BY <1>5, <3>1, <3>2 DEF CommitsPath
  <2>3. Target!Commit
    BY <1>2, <1>3, <2>1, <2>2 DEF Target!Commit
  <2>4. QED
    BY <2>3 DEF Target!Next
<1>6. CASE ChangesPath
  <2>1. fs'["target"].is \in {"absent", "other"}
    BY <1>6 DEF ChangesPath, NoLeaf, Leaf
  <2>2. Target!Outside
    BY <1>2, <1>3, <1>6, <2>1 DEF ChangesPath, Target!Outside
  <2>3. QED
    BY <2>2 DEF Target!Next
<1>7. CASE CrashesPath
  <2>1. fs'["target"] \in {fs["target"], disk["target"]}
        /\ disk'["target"] = fs'["target"]
    BY <1>1, <1>7 DEF CrashesPath
  <2>2. Target!Crash
    BY <1>2, <1>3, <2>1 DEF Target!Crash
  <2>3. QED
    BY <2>2 DEF Target!Next
<1>8. QED
  BY <1>4, <1>5, <1>6, <1>7, PathStep

-----------------------------------------------------------------------------
(* The state file.                                                         *)

\* What a worker that ends, or ends a phase, still knows.
LEMMA EndsAria ==
    ASSUME NEW r \in Workers, AriaOnly(r)
    PROVE  /\ \A status, auth, result :
                /\ auth # NoAuth => status = "pending" /\ r.want = "aria2"
                /\ Conclude(r, status, auth, result)
                => /\ AriaOnly(run')
                   /\ \/ run'.pc = "down"
                      \/ Owned /\ run'.pc = "write" /\ run'.want = r.want
           /\ \A result : run' = [Idle EXCEPT !.result = result] =>
                AriaOnly(run') /\ run'.pc = "down"
           /\ \A names, after : CleanThen(r, names, after) =>
                /\ AriaOnly(run') /\ run'.pc = "clean" /\ run'.after = after
                /\ run'.want = r.want
<1>1. ASSUME NEW result, run' = [Idle EXCEPT !.result = result]
      PROVE  AriaOnly(run') /\ run'.pc = "down"
  <2>1. /\ run'.pc = "down" /\ run'.allow = FALSE /\ run'.auth = NoAuth
        /\ run'.next = NoEntry
    BY <1>1 DEF Idle
  <2>2. QED
    BY <2>1 DEF AriaOnly, ValidEntry, NoEntry
<1>2. ASSUME NEW status, NEW auth, NEW result,
             auth # NoAuth => status = "pending" /\ r.want = "aria2",
             Conclude(r, status, auth, result)
      PROVE  /\ AriaOnly(run')
             /\ \/ run'.pc = "down"
                \/ Owned /\ run'.pc = "write" /\ run'.want = r.want
  <2>1. CASE Owned
    <3>1. /\ run'.pc = "write" /\ run'.want = r.want /\ run'.allow = r.allow
          /\ run'.auth = r.auth /\ run'.next = Entry(status, auth)
      BY <1>2, <2>1 DEF Conclude, Workers
    <3>2. QED
      BY <1>2, <2>1, <3>1 DEF AriaOnly, ValidEntry, Entry
  <2>2. CASE ~Owned
    BY <1>1, <1>2, <2>2 DEF Conclude
  <2>3. QED
    BY <2>1, <2>2
<1>3. ASSUME NEW names, NEW after, CleanThen(r, names, after)
      PROVE  /\ AriaOnly(run') /\ run'.pc = "clean" /\ run'.after = after
             /\ run'.want = r.want
  <2>1. /\ run'.pc = "clean" /\ run'.after = after /\ run'.want = r.want
        /\ run'.allow = r.allow /\ run'.auth = r.auth /\ run'.next = r.next
    BY <1>3 DEF CleanThen, Workers
  <2>2. QED
    BY <2>1 DEF AriaOnly
<1>4. QED
  BY <1>1, <1>2, <1>3 DEF Abort

\* The step leaves the state file alone and the worker in good order.
Steady == /\ AriaOnly(run')
          /\ Rewritten' => Rewritten /\ run'.want = run.want
          /\ ~Owned => /\ run'.pc \notin {"rewrite", "write", "sync-state"}
                       /\ run'.pc = "clean" => run'.after # "rewrite"

LEMMA SteadySuffices ==
    ASSUME StateIsValid, Steady, UNCHANGED <<saved, savedDisk, req>>
    PROVE  StateIsValid'
BY DEF StateIsValid, Steady, AuthorityIsAria, SoleEntry, BuildKeepsNoState,
       ValidFile, OneEntry, Owned

\* A worker that goes on keeps what it wants, its authority and its entry.
GoesOn == /\ run'.want = run.want /\ run'.next = run.next
          /\ run'.allow => run.allow
          /\ run'.auth \in {run.auth, NoAuth}
          /\ run'.pc \notin {"rewrite", "write", "sync-state"}
          /\ run'.pc = "clean" => run'.after # "rewrite"

LEMMA GoesOnSteady ==
    ASSUME AriaOnly(run), Rewritten, GoesOn
    PROVE  Steady
BY DEF GoesOn, Steady, AriaOnly

\* A worker that ends.
LEMMA EndsSteady ==
    ASSUME NEW result, run' = [Idle EXCEPT !.result = result]
    PROVE  Steady
<1>1. AriaOnly(Idle)
  BY DEF Idle, AriaOnly, ValidEntry, NoEntry
<1>2. AriaOnly(run') /\ run'.pc = "down"
  BY <1>1, Constants, EndsAria
<1>3. QED
  BY <1>2 DEF Steady, Rewritten

LEMMA ConcludeSteady ==
    ASSUME NEW r \in Workers, AriaOnly(r), r.want = run.want, Rewritten,
           NEW status, NEW auth, NEW result,
           auth # NoAuth => status = "pending" /\ r.want = "aria2",
           Conclude(r, status, auth, result)
    PROVE  Steady
<1>1. /\ AriaOnly(run')
      /\ \/ run'.pc = "down"
         \/ Owned /\ run'.pc = "write" /\ run'.want = r.want
  BY EndsAria
<1>2. QED
  BY <1>1 DEF Steady, Rewritten

LEMMA CleanSteady ==
    ASSUME NEW r \in Workers, AriaOnly(r), r.want = run.want, Rewritten,
           NEW names, NEW after, after # "rewrite", CleanThen(r, names, after)
    PROVE  Steady
<1>1. AriaOnly(run') /\ run'.pc = "clean" /\ run'.after = after
      /\ run'.want = r.want
  BY EndsAria
<1>2. QED
  BY <1>1 DEF Steady

\* A start.
LEMMA StateStart ==
    ASSUME TypeOK, StateIsValid, Start
    PROVE  StateIsValid'
<1>1. UNCHANGED <<saved, savedDisk, req>>
  BY DEF Start
<1>2. \A w \in Variants : /\ ValidEntry(w, saved[w])
                          /\ saved[w].resume \in Authorities
  BY DEF StateIsValid, ValidFile, TypeOK, Entries
<1>3. ASSUME NEW w \in Variants, NEW b \in BOOLEAN
      PROVE  /\ Begin(w, b) \in Workers /\ Begin(w, b).want = w
             /\ Begin(w, b).allow => w = "aria2"
             /\ Begin(w, b).auth = NoAuth /\ Begin(w, b).next = NoEntry
             /\ Begin(w, b).pc = "rewrite"
  BY Constants DEF Begin, Idle
<1>4. ASSUME AriaOnly(run'), ~Rewritten', Owned
      PROVE  StateIsValid'
  BY <1>1, <1>4, SteadySuffices DEF Steady
<1>5. ASSUME NEW w \in Variants, NEW b \in BOOLEAN, NEW e, NEW a, Owned,
             run' = [Begin(w, b) EXCEPT !.next = e, !.auth = a],
             a # NoAuth => w = "aria2", ValidEntry(w, e)
      PROVE  StateIsValid'
  <2>1. /\ run'.want = w
        /\ run'.allow => w = "aria2"
        /\ run'.auth = a /\ run'.next = e /\ run'.pc = "rewrite"
    BY <1>3, <1>5 DEF Workers
  <2>2. QED
    BY <1>4, <1>5, <2>1 DEF AriaOnly, Rewritten
<1>6. ASSUME NEW w \in Variants, NEW b \in BOOLEAN, NEW e \in Entries, Owned,
             e.resume = NoAuth,
             CleanThen([Begin(w, b) EXCEPT !.next = e], StagingNames,
                       "rewrite")
      PROVE  StateIsValid'
  <2> DEFINE r == [Begin(w, b) EXCEPT !.next = e]
  <2>1. /\ r \in Workers /\ r.want = w
        /\ r.allow => w = "aria2"
        /\ r.auth = NoAuth /\ r.next = e
    BY <1>3 DEF Workers
  <2>2. AriaOnly(r)
    BY <1>6, <2>1 DEF AriaOnly, ValidEntry
  <2>3. CleanThen(r, StagingNames, "rewrite")
    BY <1>6
  <2> HIDE DEF r
  <2>4. AriaOnly(run') /\ run'.pc = "clean" /\ run'.after = "rewrite"
    BY <2>1, <2>2, <2>3, EndsAria
  <2>5. QED
    BY <1>4, <1>6, <2>4 DEF Rewritten
<1>7. /\ NoEntry \in Entries /\ NoEntry.resume = NoAuth
      /\ Entry("pending", NoAuth) \in Entries
      /\ Entry("pending", NoAuth).resume = NoAuth
  BY Constants DEF Entry, Entries, Statuses, NoEntry
<1>8. ASSUME NEW w \in Variants, ReconcileStale(w), Owned
      PROVE  StateIsValid'
  <2>1. CASE StaleResolved(w)
    BY <1>6, <1>7, <1>8, <2>1 DEF ReconcileStale
  <2>2. CASE ~StaleResolved(w)
    <3> DEFINE e == Entry("cleanup_pending", saved[w].resume)
    <3>1. ValidEntry(w, e)
      BY <1>2 DEF ValidEntry, Entry
    <3>2. run' = [Begin(w, FALSE) EXCEPT !.next = e]
      BY <1>8, <2>2 DEF ReconcileStale
    <3> HIDE DEF e
    <3>3. /\ Begin(w, FALSE) \in Workers /\ Begin(w, FALSE).want = w
          /\ Begin(w, FALSE).allow => w = "aria2"
          /\ Begin(w, FALSE).auth = NoAuth /\ Begin(w, FALSE).pc = "rewrite"
      BY <1>3
    <3>4. /\ run'.want = w
          /\ run'.allow => w = "aria2"
          /\ run'.auth = NoAuth /\ run'.next = e /\ run'.pc = "rewrite"
      BY <3>2, <3>3 DEF Workers
    <3>5. QED
      BY <1>4, <1>8, <3>1, <3>4 DEF AriaOnly, Rewritten
  <2>3. QED
    BY <2>1, <2>2
<1>9. ASSUME NEW w \in Variants, NEW b \in BOOLEAN, ReconcileCurrent(w, b),
             Owned
      PROVE  StateIsValid'
  <2>1. \/ Abort("refused")
        \/ run' = [Begin(w, b) EXCEPT !.next = Entry("completed", NoAuth),
                                      !.auth = NoAuth]
        \/ /\ MayResume(w, b)
           /\ run' = [Begin(w, b) EXCEPT
                        !.next = Entry("pending", saved[w].resume),
                        !.auth = saved[w].resume]
        \/ CleanThen([Begin(w, b) EXCEPT !.next = Entry("pending", NoAuth)],
                     StagingNames, "rewrite")
    BY <1>9 DEF ReconcileCurrent
  <2>2. CASE Abort("refused")
    BY <1>1, <2>2, EndsSteady, SteadySuffices DEF Abort
  <2>3. CASE run' = [Begin(w, b) EXCEPT !.next = Entry("completed", NoAuth),
                                        !.auth = NoAuth]
    <3>1. ValidEntry(w, Entry("completed", NoAuth))
      BY DEF ValidEntry, Entry
    <3>2. QED
      BY <1>5, <1>9, <2>3, <3>1
  <2>4. CASE /\ MayResume(w, b)
             /\ run' = [Begin(w, b) EXCEPT
                          !.next = Entry("pending", saved[w].resume),
                          !.auth = saved[w].resume]
    <3>1. w = "aria2" /\ ValidEntry(w, Entry("pending", saved[w].resume))
      BY <2>4 DEF MayResume, ValidEntry, Entry
    <3>2. QED
      BY <1>5, <1>9, <2>4, <3>1
  <2>5. CASE CleanThen([Begin(w, b) EXCEPT !.next = Entry("pending", NoAuth)],
                       StagingNames, "rewrite")
    BY <1>6, <1>7, <1>9, <2>5
  <2>6. QED
    BY <2>1, <2>2, <2>3, <2>4, <2>5
<1>10. ASSUME NEW w \in Variants, NEW b \in BOOLEAN, ~Owned,
              run' = [Begin(w, b) EXCEPT !.pc = "attempt"]
       PROVE  StateIsValid'
  <2>1. /\ run'.want = w
        /\ run'.allow => w = "aria2"
        /\ run'.auth = NoAuth /\ run'.next = NoEntry /\ run'.pc = "attempt"
    BY <1>3, <1>10 DEF Workers
  <2>2. AriaOnly(run')
    BY <2>1 DEF AriaOnly, ValidEntry, NoEntry
  <2>3. \A v \in Variants : saved[v] = NoEntry /\ savedDisk[v] = NoEntry
    BY <1>10 DEF StateIsValid, BuildKeepsNoState
  <2>4. QED
    BY <1>1, <2>1, <2>2, <2>3
       DEF StateIsValid, ValidFile, OneEntry, AuthorityIsAria, SoleEntry,
           BuildKeepsNoState
<1>11. \/ /\ Owned
          /\ \E w \in Variants, b \in BOOLEAN :
               ReconcileStale(w) \/ ReconcileCurrent(w, b)
       \/ /\ ~Owned
          /\ \E w \in Variants, b \in BOOLEAN :
               run' = [Begin(w, b) EXCEPT !.pc = "attempt"]
  BY DEF Start
<1>12. QED
  BY <1>8, <1>9, <1>10, <1>11

\* Writing the state file.
LEMMA StateWrite ==
    ASSUME TypeOK, AfterIsPlace, StateIsValid, WriteState
    PROVE  StateIsValid'
<1>1. /\ run \in Workers /\ run.want \in Variants /\ Owned
      /\ AriaOnly(run) /\ ValidFile(saved) /\ ValidFile(savedDisk)
      /\ saved \in [Variants -> Entries]
  BY DEF WriteState, TypeOK, StateIsValid, BuildKeepsNoState, AuthorityIsAria
<1>2. /\ run'.pc = "sync-state" /\ run'.want = run.want
      /\ run'.allow = run.allow /\ run'.auth = run.auth
      /\ run'.next = run.next
  BY <1>1 DEF WriteState, Workers
<1>3. UNCHANGED <<savedDisk, req>>
  BY DEF WriteState
<1>4. \A v \in Variants : v # run.want => saved'[v] = NoEntry
  <2>1. CASE At("rewrite")
    BY <2>1 DEF WriteState
  <2>2. CASE run.pc = "write"
    <3>1. saved' = [saved EXCEPT ![run.want] = run.next]
      BY <2>2 DEF WriteState, At
    <3>2. Rewritten
      BY <2>2 DEF Rewritten
    <3>3. QED
      BY <1>1, <3>1, <3>2 DEF StateIsValid, SoleEntry
  <2>3. QED
    BY <2>1, <2>2 DEF WriteState, At
<1>5. saved'[run.want] = run.next
  BY <1>1 DEF WriteState
<1>6. ValidFile(saved')
  <2>1. \A v \in Variants : ValidEntry(v, saved'[v])
    BY <1>1, <1>4, <1>5 DEF AriaOnly, ValidEntry, NoEntry
  <2>2. QED
    BY <1>4, <2>1 DEF ValidFile, OneEntry
<1>7. AriaOnly(run')
  BY <1>1, <1>2 DEF AriaOnly
<1>8. Owned'
  BY <1>1, <1>3 DEF Owned
<1>9. SoleEntry'
  BY <1>2, <1>4 DEF SoleEntry
<1>10. QED
  BY <1>1, <1>3, <1>6, <1>7, <1>8, <1>9
     DEF StateIsValid, AuthorityIsAria, BuildKeepsNoState

\* Making it durable.
LEMMA StateSync ==
    ASSUME TypeOK, AfterIsPlace, StateIsValid, SyncState
    PROVE  StateIsValid'
<1>1. /\ run \in Workers /\ Owned /\ AriaOnly(run) /\ ValidFile(saved)
      /\ \A v \in Variants : v # run.want => saved[v] = NoEntry
  BY DEF SyncState, At, TypeOK, StateIsValid, BuildKeepsNoState,
         AuthorityIsAria, SoleEntry, Rewritten
<1>2. saved' = saved /\ savedDisk' = saved /\ req' = req
  BY DEF SyncState
<1>3. AriaOnly(run') /\ (run'.pc = "down" \/ run'.want = run.want)
  <2>1. CASE run.after = "down"
    <3>1. run' = [Idle EXCEPT !.result = run.result]
      BY <2>1 DEF SyncState
    <3>2. QED
      BY <1>1, <3>1, EndsAria
  <2>2. CASE run.after # "down"
    <3>1. run' = [run EXCEPT !.pc = run.after, !.next = NoEntry,
                             !.after = "down"]
      BY <2>2 DEF SyncState
    <3>2. /\ run'.want = run.want /\ run'.next = NoEntry
          /\ run'.allow = run.allow /\ run'.auth = run.auth
      BY <1>1, <3>1 DEF Workers
    <3>3. QED
      BY <1>1, <3>2 DEF AriaOnly, ValidEntry, NoEntry
  <2>3. QED
    BY <2>1, <2>2
<1>4. SoleEntry'
  BY <1>1, <1>2, <1>3 DEF SoleEntry, Rewritten
<1>5. Owned'
  BY <1>1, <1>2 DEF Owned
<1>6. QED
  BY <1>1, <1>2, <1>3, <1>4, <1>5
     DEF StateIsValid, AuthorityIsAria, BuildKeepsNoState

\* The transport's answer: an authority is kept for aria2 alone.
LEMMA StateAnswer ==
    ASSUME TypeOK, AriaOnly(run), Answers
    PROVE  Steady
<1>1. run \in Workers /\ At("transport")
  BY DEF Answers, TypeOK
<1>2. PICK o \in Outcomes : Answer(o)
  BY DEF Answers
<1>3. PICK c \in ControlsLeft(o), d \in Received(o) :
        \/ Loses(o, c, d) \/ Stores(o, c, d)
        \/ Preserves(o, c, d) \/ Cleans(o, c, d)
  BY <1>2, AnswerCases
<1>4. Rewritten
  BY <1>1 DEF At, Rewritten
<1>5. /\ Tried.want = run.want /\ Tried.next = run.next
      /\ Tried.allow = run.allow /\ Tried.auth = NoAuth
      /\ Tried = [run EXCEPT !.attempts = run.attempts + 1, !.auth = NoAuth]
  BY <1>1 DEF Tried, Workers
<1>6. CASE Loses(o, c, d)
  <2>1. GoesOn
    BY <1>1, <1>6 DEF Loses, LineageFails, GoesOn, Workers
  <2>2. QED
    BY <1>4, <2>1, GoesOnSteady
<1>7. CASE Stores(o, c, d)
  <2>1. GoesOn
    BY <1>1, <1>5, <1>7 DEF Stores, GoesOn, Workers
  <2>2. QED
    BY <1>4, <2>1, GoesOnSteady
<1>8. CASE Cleans(o, c, d)
  <2>1. PICK after \in {"retry", "cancelled", "rejected", "failed"} :
          run' = [Tried EXCEPT !.pc = "clean", !.after = after, !.stg = 0,
                               !.ctl = 0]
    BY <1>8 DEF Cleans
  <2>2. GoesOn
    BY <1>1, <1>5, <2>1 DEF GoesOn, Workers
  <2>3. QED
    BY <1>4, <2>2, GoesOnSteady
<1>9. CASE Preserves(o, c, d)
  <2>1. run.allow
    BY <1>9 DEF Preserves, Keeps, PreserveOnRetryable, PreserveOnCancelled
  <2>2. /\ run'.want = run.want /\ run'.next = run.next
        /\ run'.pc \in {"retry", "cancelled"}
    BY <1>1, <1>5, <1>9 DEF Preserves, Workers
  <2>3. QED
    BY <1>4, <2>1, <2>2 DEF Steady, AriaOnly
<1>10. QED
  BY <1>3, <1>6, <1>7, <1>8, <1>9

\* Every step.
LEMMA StateStep ==
    ASSUME TypeOK, AfterIsPlace, StateIsValid, [Next]_vars
    PROVE  StateIsValid'
<1> USE DEF At
<1>1. run \in Workers /\ AriaOnly(run)
  BY DEF TypeOK, StateIsValid, AuthorityIsAria
<1>2. ASSUME Steady, UNCHANGED <<saved, savedDisk, req>>
      PROVE  StateIsValid'
  BY <1>2, SteadySuffices
<1>3. CASE Start
  BY <1>3, StateStart
<1>4. CASE WriteState
  BY <1>4, StateWrite
<1>5. CASE SyncState
  BY <1>5, StateSync
<1>6. CASE StateWriteFails
  BY <1>2, <1>6, EndsSteady DEF StateWriteFails, Abort
<1>7. CASE Cancelled \/ SkipExisting \/ RejectExisting
  <2>1. Rewritten /\ UNCHANGED <<saved, savedDisk, req>>
    BY <1>7 DEF Cancelled, SkipExisting, RejectExisting, Rewritten
  <2>2. ASSUME NEW status, NEW auth \in {run.auth, NoAuth}, NEW result,
               auth # NoAuth => status = "pending",
               Conclude(run, status, auth, result)
        PROVE  Steady
    BY <1>1, <2>1, <2>2, ConcludeSteady DEF AriaOnly
  <2>3. /\ [run EXCEPT !.result = "cancelled"] \in Workers
        /\ [run EXCEPT !.result = "cancelled"].want = run.want
        /\ AriaOnly([run EXCEPT !.result = "cancelled"])
    BY <1>1 DEF Workers, Results, AriaOnly
  <2>4. ASSUME NEW r \in {run, [run EXCEPT !.result = "cancelled"]},
               NEW after \in {"down", "skipped"},
               CleanThen(r, StagingNames, after)
        PROVE  Steady
    BY <1>1, <2>1, <2>3, <2>4, CleanSteady
  <2>5. \/ Conclude(run, "pending", run.auth, "cancelled")
        \/ Conclude(run, "completed", NoAuth, "skipped")
        \/ Conclude(run, "pending", NoAuth, "failed")
        \/ CleanThen([run EXCEPT !.result = "cancelled"], StagingNames, "down")
        \/ CleanThen(run, StagingNames, "skipped")
        \/ \E result : Abort(result)
    BY <1>7 DEF Cancelled, SkipExisting, RejectExisting
  <2>6. Steady
    BY <2>2, <2>4, <2>5, EndsSteady DEF Abort
  <2>7. QED
    BY <1>2, <2>1, <2>6
<1>8. CASE Admit
  <2>1. Rewritten /\ UNCHANGED <<saved, savedDisk, req>>
    BY <1>8 DEF Admit, Rewritten
  <2>2. CASE Conclude(run, "pending", NoAuth, "failed")
    BY <1>1, <1>2, <2>1, <2>2, ConcludeSteady
  <2>3. ASSUME NEW i,
               run' = [run EXCEPT !.pc = "transport", !.initial = fs["target"],
                                  !.stg = i, !.ctl = run.auth.ctl]
        PROVE  StateIsValid'
    <3>1. GoesOn
      BY <1>1, <2>3 DEF GoesOn, Workers
    <3>2. QED
      BY <1>1, <1>2, <2>1, <3>1, GoesOnSteady
  <2>4. QED
    BY <1>8, <2>2, <2>3 DEF Admit
<1>9. CASE Answers
  BY <1>1, <1>2, <1>9, StateAnswer DEF Answers
<1>10. CASE \/ Waited \/ TransportBreaks \/ Verify \/ CheckTarget \/ Rename
            \/ PlacementFails \/ SyncPlaced \/ SyncPlacedFails
  <2>1. Rewritten /\ UNCHANGED <<saved, savedDisk, req>>
    BY <1>10 DEF Waited, TransportBreaks, Verify, CheckTarget, Rename,
                 PlacementFails, SyncPlaced, SyncPlacedFails, Rewritten
  <2>2. ASSUME NEW q \in {"attempt", "place", "rename", "placed", "failed",
                          "done"},
               run' = [run EXCEPT !.pc = q]
        PROVE  GoesOn
    BY <1>1, <2>2 DEF GoesOn, Workers
  <2>3. ASSUME NEW a \in {"failed", "retry"},
               run' = [run EXCEPT !.pc = "clean", !.after = a, !.stg = 0,
                                  !.ctl = 0]
        PROVE  GoesOn
    BY <1>1, <2>3 DEF GoesOn, Workers
  <2>4. ASSUME run' = [run EXCEPT !.pc = "clean", !.after = "done", !.ctl = 0]
        PROVE  GoesOn
    BY <1>1, <2>4 DEF GoesOn, Workers
  <2>5. \/ \E q \in {"attempt", "place", "rename", "placed", "failed",
                    "done"} : run' = [run EXCEPT !.pc = q]
        \/ \E a \in {"failed", "retry"} :
             run' = [run EXCEPT !.pc = "clean", !.after = a, !.stg = 0,
                                !.ctl = 0]
        \/ run' = [run EXCEPT !.pc = "clean", !.after = "done", !.ctl = 0]
    BY <1>10 DEF Waited, TransportBreaks, LineageFails, Verify, CheckTarget,
                 Rename, PlacementFails, Unfinished, SyncPlaced,
                 SyncPlacedFails
  <2>6. QED
    BY <1>1, <1>2, <2>1, <2>2, <2>3, <2>4, <2>5, GoesOnSteady
<1>11. CASE CleanSync
  <2>1. UNCHANGED <<saved, savedDisk, req>> /\ run.pc = "clean"
    BY <1>11 DEF CleanSync
  <2>2. CASE run.after = "down"
    BY <1>2, <1>11, <2>1, <2>2, EndsSteady DEF CleanSync
  <2>3. CASE run.after # "down"
    <3>1. run' = [run EXCEPT !.pc = run.after, !.after = "down"]
      BY <1>11, <2>3 DEF CleanSync
    <3>2. /\ run'.pc = run.after /\ run'.want = run.want
          /\ run'.next = run.next /\ run'.allow = run.allow
          /\ run'.auth = run.auth
      BY <1>1, <3>1 DEF Workers
    <3>3. /\ run.after \in {"rewrite", "skipped", "failed", "retry",
                            "cancelled", "rejected", "done"}
          /\ ~Owned => run.after # "rewrite"
      BY <2>1, <2>3 DEF AfterIsPlace, StateIsValid, BuildKeepsNoState
    <3>4. Steady
      BY <1>1, <2>1, <3>2, <3>3 DEF Steady, AriaOnly, Rewritten
    <3>5. QED
      BY <1>2, <2>1, <3>4
  <2>4. QED
    BY <2>2, <2>3
<1>12. CASE CleanSyncFails
  <2>1. UNCHANGED <<saved, savedDisk, req>> /\ run.pc = "clean"
        /\ run.want \in Variants
    BY <1>12 DEF CleanSyncFails, TypeOK
  <2>2. CASE Abort("fatal")
    BY <1>2, <2>1, <2>2, EndsSteady DEF Abort
  <2>3. CASE /\ run.after = "rewrite"
             /\ run' = [run EXCEPT !.pc = "rewrite",
                    !.next = Entry("cleanup_pending", saved[run.want].resume)]
    <3>1. /\ run'.pc = "rewrite" /\ run'.want = run.want
          /\ run'.allow = run.allow /\ run'.auth = run.auth
          /\ run'.next = Entry("cleanup_pending", saved[run.want].resume)
      BY <1>1, <2>3 DEF Workers
    <3>2. ValidEntry(run.want, saved[run.want])
      BY <2>1 DEF StateIsValid, ValidFile
    <3>3. AriaOnly(run')
      BY <1>1, <3>1, <3>2 DEF AriaOnly, ValidEntry, Entry
    <3>4. Owned
      BY <2>1, <2>3 DEF StateIsValid, BuildKeepsNoState
    <3>5. Steady
      BY <3>1, <3>3, <3>4 DEF Steady, Rewritten
    <3>6. QED
      BY <1>2, <2>1, <3>5
  <2>4. CASE run.after # "rewrite" /\ run' = [run EXCEPT !.pc = "failed"]
    <3>1. GoesOn
      BY <1>1, <2>4 DEF GoesOn, Workers
    <3>2. Rewritten
      BY <2>1, <2>4 DEF Rewritten
    <3>3. QED
      BY <1>1, <1>2, <2>1, <3>1, <3>2, GoesOnSteady
  <2>5. QED
    BY <1>12, <2>2, <2>3, <2>4 DEF CleanSyncFails
<1>13. CASE Settle
  <2>1. Rewritten /\ UNCHANGED <<saved, savedDisk, req>>
    BY <1>13 DEF Settle, Rewritten
  <2>2. ASSUME NEW status, NEW auth \in {run.auth, NoAuth}, NEW result,
               auth # NoAuth => status = "pending",
               Conclude(run, status, auth, result)
        PROVE  Steady
    BY <1>1, <2>1, <2>2, ConcludeSteady DEF AriaOnly
  <2>3. ASSUME NEW r \in Workers, AriaOnly(r), r.want = run.want,
               NEW place \in {"wait", "attempt"}, TryAgain(r, place)
        PROVE  Steady
    <3>1. CASE Owned
      <4>1. /\ run'.pc = "write" /\ run'.want = run.want
            /\ run'.allow = r.allow /\ run'.auth = r.auth
            /\ run'.next = Entry("pending", r.auth)
        BY <2>3, <3>1 DEF TryAgain, Workers
      <4>2. AriaOnly(run')
        BY <2>3, <4>1 DEF AriaOnly, ValidEntry, Entry
      <4>3. QED
        BY <2>1, <3>1, <4>1, <4>2 DEF Steady
    <3>2. CASE ~Owned
      <4>1. /\ run'.pc = place /\ run'.want = run.want
            /\ run'.allow = r.allow /\ run'.auth = r.auth
            /\ run'.next = r.next
        BY <2>3, <3>2 DEF TryAgain, Workers
      <4>2. AriaOnly(run')
        BY <2>3, <4>1 DEF AriaOnly
      <4>3. QED
        BY <2>1, <4>1, <4>2 DEF Steady
    <3>3. QED
      BY <3>1, <3>2
  <2>4. /\ [run EXCEPT !.allow = FALSE, !.fallback = TRUE] \in Workers
        /\ [run EXCEPT !.allow = FALSE, !.fallback = TRUE].want = run.want
        /\ AriaOnly([run EXCEPT !.allow = FALSE, !.fallback = TRUE])
    BY <1>1 DEF Workers, AriaOnly
  <2>5. \/ \E status, result : Conclude(run, status, NoAuth, result)
        \/ \E result : Conclude(run, "pending", run.auth, result)
        \/ TryAgain(run, "wait")
        \/ TryAgain([run EXCEPT !.allow = FALSE, !.fallback = TRUE], "attempt")
    BY <1>13 DEF Settle
  <2>6. Steady
    BY <1>1, <2>2, <2>3, <2>4, <2>5
  <2>7. QED
    BY <1>2, <2>1, <2>6
<1>14. CASE Crash
  <2>1. /\ saved' \in {saved, savedDisk} /\ savedDisk' \in {saved, savedDisk}
        /\ run' = [Idle EXCEPT !.result = "crashed"]
    BY <1>14 DEF Crash
  <2>2. AriaOnly(run') /\ run'.pc = "down" /\ Owned'
    <3>1. Owned'
      BY <1>14 DEF Crash, Owned
    <3>2. QED
      BY <1>1, <2>1, <3>1, EndsAria
  <2>3. ValidFile(saved') /\ ValidFile(savedDisk')
    BY <2>1 DEF StateIsValid
  <2>4. QED
    BY <2>2, <2>3 DEF StateIsValid, AuthorityIsAria, SoleEntry, Rewritten,
                      BuildKeepsNoState
<1>15. CASE \/ SaveControl \/ TargetChanges \/ StagingChanges
            \/ UNCHANGED vars
  <2>1. UNCHANGED <<saved, savedDisk, req, run>>
    BY <1>15 DEF SaveControl, TargetChanges, StagingChanges, vars
  <2>2. QED
    BY <2>1 DEF StateIsValid, ValidFile, OneEntry, AuthorityIsAria, SoleEntry,
                Rewritten, BuildKeepsNoState, Owned
<1>16. QED
  BY <1>3, <1>4, <1>5, <1>6, <1>7, <1>8, <1>9, <1>10, <1>11, <1>12, <1>13,
     <1>14, <1>15 DEF Next

\* A state file that speaks of one variant holds at most one entry.
LEMMA OneEntryCounts ==
    ASSUME NEW f, OneEntry(f)
    PROVE  Cardinality({v \in Variants : f[v] # NoEntry}) <= 1
<1> DEFINE S == {v \in Variants : f[v] # NoEntry}
<1>1. CASE S = {}
  BY <1>1, FS_EmptySet
<1>2. CASE S # {}
  <2>1. PICK v : v \in S
    BY <1>2
  <2>2. S = {v}
    BY <2>1 DEF OneEntry
  <2>3. QED
    BY <2>2, FS_Singleton
<1>3. QED
  BY <1>1, <1>2

LEMMA StateIsValidSuffices == StateIsValid => StateStaysValid
BY OneEntryCounts DEF StateIsValid, StateStaysValid, ValidFile, ValidEntry

-----------------------------------------------------------------------------
(* The report.                                                             *)

\* A worker that reports another outcome, or goes on, says nothing of the
\* final path.
LEMMA EndsQuiet ==
    ASSUME NEW r \in Workers, r.result # "downloaded"
    PROVE  /\ \A status, auth, result :
                result # "downloaded" /\ Conclude(r, status, auth, result)
                => ~Placed(run')
           /\ \A result :
                result # "downloaded" /\ run' = [Idle EXCEPT !.result = result]
                => ~Placed(run')
           /\ \A names, after : after # "done" /\ CleanThen(r, names, after)
                => ~Placed(run')
<1>1. ASSUME NEW result, result # "downloaded",
             run' = [Idle EXCEPT !.result = result]
      PROVE  ~Placed(run')
  <2>1. run'.pc = "down" /\ run'.result = result
    BY <1>1 DEF Idle
  <2>2. QED
    BY <1>1, <2>1 DEF Placed
<1>2. ASSUME NEW status, NEW auth, NEW result, result # "downloaded",
             Conclude(r, status, auth, result)
      PROVE  ~Placed(run')
  <2>1. CASE Owned
    <3>1. run'.pc = "write" /\ run'.result = result
      BY <1>2, <2>1 DEF Conclude, Workers
    <3>2. QED
      BY <1>2, <3>1 DEF Placed
  <2>2. CASE ~Owned
    BY <1>1, <1>2, <2>2 DEF Conclude
  <2>3. QED
    BY <2>1, <2>2
<1>3. ASSUME NEW names, NEW after, after # "done", CleanThen(r, names, after)
      PROVE  ~Placed(run')
  <2>1. run'.pc = "clean" /\ run'.after = after /\ run'.result = r.result
    BY <1>3 DEF CleanThen, Workers
  <2>2. QED
    BY <1>3, <2>1 DEF Placed
<1>4. QED
  BY <1>1, <1>2, <1>3

\* A start reports nothing.
LEMMA StartQuiet == ASSUME TypeOK, Start PROVE ~Placed(run')
<1>1. ASSUME NEW w \in Variants, NEW b \in BOOLEAN
      PROVE  /\ Begin(w, b) \in Workers /\ Begin(w, b).result = "none"
             /\ Begin(w, b).pc = "rewrite"
  BY Constants DEF Begin, Idle
<1>2. ASSUME NEW w \in Variants, NEW b \in BOOLEAN, NEW e \in Entries,
             CleanThen([Begin(w, b) EXCEPT !.next = e], StagingNames,
                       "rewrite")
      PROVE  ~Placed(run')
  <2>1. /\ [Begin(w, b) EXCEPT !.next = e] \in Workers
        /\ [Begin(w, b) EXCEPT !.next = e].result = "none"
    BY <1>1 DEF Workers
  <2>2. QED
    BY <1>2, <2>1, EndsQuiet
<1>3. ASSUME NEW w \in Variants, NEW b \in BOOLEAN, NEW e, NEW a,
             \/ run' = [Begin(w, b) EXCEPT !.next = e]
             \/ run' = [Begin(w, b) EXCEPT !.next = e, !.auth = a]
             \/ run' = [Begin(w, b) EXCEPT !.pc = "attempt"]
      PROVE  ~Placed(run')
  <2> DEFINE r == Begin(w, b)
  <2>1. r \in Workers /\ r.result = "none" /\ r.pc = "rewrite"
    BY <1>1
  <2> HIDE DEF r
  <2>2. /\ [r EXCEPT !.next = e].pc = "rewrite"
        /\ [r EXCEPT !.next = e].result = "none"
        /\ [r EXCEPT !.next = e, !.auth = a].pc = "rewrite"
        /\ [r EXCEPT !.next = e, !.auth = a].result = "none"
        /\ [r EXCEPT !.pc = "attempt"].pc = "attempt"
        /\ [r EXCEPT !.pc = "attempt"].result = "none"
    BY <2>1 DEF Workers
  <2>3. run'.pc \in {"rewrite", "attempt"} /\ run'.result = "none"
    BY <1>3, <2>2 DEF r
  <2>4. QED
    BY <2>3 DEF Placed
<1>4. NoEntry \in Entries /\ Entry("pending", NoAuth) \in Entries
  BY Constants DEF Entry, Entries, Statuses
<1>5. ASSUME NEW w \in Variants, ReconcileStale(w)
      PROVE  ~Placed(run')
  <2>1. \/ CleanThen([Begin(w, FALSE) EXCEPT !.next = NoEntry], StagingNames,
                     "rewrite")
        \/ run' = [Begin(w, FALSE) EXCEPT
                     !.next = Entry("cleanup_pending", saved[w].resume)]
    BY <1>5 DEF ReconcileStale
  <2>2. CASE CleanThen([Begin(w, FALSE) EXCEPT !.next = NoEntry],
                       StagingNames, "rewrite")
    BY <1>2, <1>4, <2>2
  <2>3. CASE run' = [Begin(w, FALSE) EXCEPT
                       !.next = Entry("cleanup_pending", saved[w].resume)]
    <3>1. \A e : run' = [Begin(w, FALSE) EXCEPT !.next = e] => ~Placed(run')
      BY <1>3
    <3>2. QED
      BY <2>3, <3>1
  <2>4. QED
    BY <2>1, <2>2, <2>3
<1>6. ASSUME NEW w \in Variants, NEW b \in BOOLEAN, ReconcileCurrent(w, b)
      PROVE  ~Placed(run')
  <2>1. \/ Abort("refused")
        \/ \E e, a : run' = [Begin(w, b) EXCEPT !.next = e, !.auth = a]
        \/ CleanThen([Begin(w, b) EXCEPT !.next = Entry("pending", NoAuth)],
                     StagingNames, "rewrite")
    BY <1>6 DEF ReconcileCurrent
  <2>2. Idle \in Workers /\ Idle.result = "none"
    BY Constants DEF Idle
  <2>3. CASE Abort("refused")
    BY <2>2, <2>3, EndsQuiet DEF Abort
  <2>4. QED
    BY <1>2, <1>3, <1>4, <2>1, <2>3
<1>7. QED
  BY <1>3, <1>5, <1>6 DEF Start

\* What is reported as downloaded was placed and made durable, and the
\* worker does nothing else once it reports.
LEMMA ReportStep ==
    ASSUME TypeOK, AfterIsPlace, ResultComesLast, [Next]_vars
    PROVE  /\ ResultComesLast'
           /\ Placed(run') => Placed(run) \/ SyncPlaced
<1> USE DEF At
<1>1. run \in Workers
  BY DEF TypeOK
<1>2. ASSUME ~Placed(run')
      PROVE  /\ ResultComesLast'
             /\ Placed(run') => Placed(run) \/ SyncPlaced
  BY <1>2 DEF Placed, ResultComesLast
<1>3. ASSUME run.result # "downloaded", NEW q, q # "done", q # "clean",
             run'.pc = q, run'.result = run.result
      PROVE  ~Placed(run')
  BY <1>3 DEF Placed
<1>4. CASE Start
  BY <1>2, <1>4, StartQuiet
<1>5. CASE WriteState
  <2>1. /\ run'.pc = "sync-state" /\ run'.result = run.result
        /\ run'.after = IF Unscheduled THEN "down"
                        ELSE IF At("rewrite") THEN "attempt" ELSE run.after
    BY <1>1, <1>5 DEF WriteState, Workers
  <2>2. run.result = "downloaded" => run.pc = "write" /\ run.after = "down"
    BY <1>5 DEF WriteState, ResultComesLast
  <2>3. QED
    BY <2>1, <2>2 DEF Placed, ResultComesLast, Unscheduled
<1>6. CASE SyncState
  <2>1. CASE run.after = "down"
    <3>1. run'.pc = "down" /\ run'.result = run.result
      BY <1>6, <2>1 DEF SyncState, Idle
    <3>2. QED
      BY <3>1 DEF Placed, ResultComesLast
  <2>2. CASE run.after # "down"
    <3>1. run'.pc = run.after /\ run'.result = run.result
      BY <1>1, <1>6, <2>2 DEF SyncState, Workers
    <3>2. run.after \in {"attempt", "wait"} /\ run.result # "downloaded"
      BY <1>6, <2>2 DEF SyncState, AfterIsPlace, ResultComesLast
    <3>3. QED
      BY <1>2, <1>3, <3>1, <3>2
  <2>3. QED
    BY <2>1, <2>2
<1>7. CASE StateWriteFails \/ Crash
  <2>1. \E result \in {"fatal", "crashed"} :
          run' = [Idle EXCEPT !.result = result]
    BY <1>7 DEF StateWriteFails, Abort, Crash
  <2>2. Idle \in Workers /\ Idle.result = "none"
    BY Constants DEF Idle
  <2>3. QED
    BY <1>2, <2>1, <2>2, EndsQuiet
<1>8. CASE Cancelled \/ SkipExisting \/ RejectExisting
  <2>1. run.result # "downloaded"
    BY <1>8 DEF Cancelled, SkipExisting, RejectExisting, ResultComesLast
  <2>2. /\ [run EXCEPT !.result = "cancelled"] \in Workers
        /\ [run EXCEPT !.result = "cancelled"].result = "cancelled"
    BY <1>1 DEF Workers, Results
  <2>3. \/ \E status, auth, result : /\ result # "downloaded"
                                     /\ Conclude(run, status, auth, result)
        \/ \E r \in {run, [run EXCEPT !.result = "cancelled"]} :
             \E after \in {"down", "skipped"} :
               CleanThen(r, StagingNames, after)
        \/ \E result \in {"failed", "fatal"} : Abort(result)
    BY <1>8 DEF Cancelled, SkipExisting, RejectExisting
  <2>4. QED
    BY <1>1, <1>2, <2>1, <2>2, <2>3, EndsQuiet DEF Abort
<1>9. CASE Admit
  <2>1. run.result # "downloaded"
    BY <1>9 DEF Admit, ResultComesLast
  <2>2. CASE Conclude(run, "pending", NoAuth, "failed")
    BY <1>1, <1>2, <2>1, <2>2, EndsQuiet
  <2>3. ASSUME NEW i,
               run' = [run EXCEPT !.pc = "transport", !.initial = fs["target"],
                                  !.stg = i, !.ctl = run.auth.ctl]
        PROVE  ~Placed(run')
    <3>1. run'.pc = "transport" /\ run'.result = run.result
      BY <1>1, <2>3 DEF Workers
    <3>2. QED
      BY <1>3, <2>1, <3>1
  <2>4. QED
    BY <1>2, <1>9, <2>2, <2>3 DEF Admit
<1>10. CASE Answers
  <2>1. PICK o \in Outcomes : Answer(o)
    BY <1>10 DEF Answers
  <2>2. PICK c \in ControlsLeft(o), d \in Received(o) :
          \/ Loses(o, c, d) \/ Stores(o, c, d)
          \/ Preserves(o, c, d) \/ Cleans(o, c, d)
    BY <2>1, AnswerCases
  <2>3. run.result # "downloaded"
    BY <1>10 DEF Answers, ResultComesLast
  <2>4. Tried = [run EXCEPT !.attempts = run.attempts + 1, !.auth = NoAuth]
    BY DEF Tried
  <2>5. /\ run'.result = run.result
        /\ \/ run'.pc \in {"verify", "retry", "cancelled"}
           \/ run'.pc = "clean" /\ run'.after # "done"
    BY <1>1, <2>2, <2>4
       DEF Loses, LineageFails, Stores, Preserves, Cleans, Workers
  <2>6. QED
    BY <1>2, <2>3, <2>5 DEF Placed
<1>11. CASE \/ Waited \/ TransportBreaks \/ Verify \/ CheckTarget \/ Rename
            \/ PlacementFails \/ SyncPlacedFails
  <2>1. run.result # "downloaded"
    BY <1>11 DEF Waited, TransportBreaks, Verify, CheckTarget, Rename,
                 PlacementFails, SyncPlacedFails, ResultComesLast
  <2>2. \/ \E q \in {"attempt", "place", "rename", "placed", "failed"} :
             run' = [run EXCEPT !.pc = q]
        \/ \E a \in {"failed", "retry"} :
             run' = [run EXCEPT !.pc = "clean", !.after = a, !.stg = 0,
                                !.ctl = 0]
    BY <1>11 DEF Waited, TransportBreaks, LineageFails, Verify, CheckTarget,
                 Rename, PlacementFails, Unfinished, SyncPlacedFails
  <2>3. /\ run'.result = run.result
        /\ \/ run'.pc \in {"attempt", "place", "rename", "placed", "failed"}
           \/ run'.pc = "clean" /\ run'.after \in {"failed", "retry"}
    BY <1>1, <2>2 DEF Workers
  <2>4. QED
    BY <1>2, <2>1, <2>3 DEF Placed
<1>12. CASE SyncPlaced
  <2>1. run.result # "downloaded"
    BY <1>12 DEF SyncPlaced, ResultComesLast
  <2>2. run'.result = run.result
    BY <1>1, <1>12 DEF SyncPlaced, Workers
  <2>3. QED
    BY <1>12, <2>1, <2>2 DEF ResultComesLast
<1>13. CASE CleanSync
  <2>1. run.result # "downloaded" /\ run.pc = "clean"
    BY <1>13 DEF CleanSync, ResultComesLast
  <2>2. CASE run.after = "down"
    <3>1. run' = [Idle EXCEPT !.result = run.result]
      BY <1>13, <2>2 DEF CleanSync
    <3>2. QED
      BY <1>1, <1>2, <2>1, <3>1, EndsQuiet
  <2>3. CASE run.after # "down"
    <3>1. /\ run'.pc = run.after /\ run'.result = run.result
          /\ run'.after = "down"
      BY <1>1, <1>13, <2>3 DEF CleanSync, Workers
    <3>2. QED
      BY <2>1, <3>1 DEF Placed, ResultComesLast
  <2>4. QED
    BY <2>2, <2>3
<1>14. CASE CleanSyncFails
  <2>1. run.result # "downloaded"
    BY <1>14 DEF CleanSyncFails, ResultComesLast
  <2>2. \/ run' = [run EXCEPT !.pc = "rewrite",
                    !.next = Entry("cleanup_pending", saved[run.want].resume)]
        \/ Abort("fatal")
        \/ run' = [run EXCEPT !.pc = "failed"]
    BY <1>14 DEF CleanSyncFails
  <2>3. CASE Abort("fatal")
    BY <1>1, <1>2, <2>1, <2>3, EndsQuiet DEF Abort
  <2>4. CASE ~Abort("fatal")
    <3>1. run'.pc \in {"rewrite", "failed"} /\ run'.result = run.result
      BY <1>1, <2>2, <2>4 DEF Workers
    <3>2. QED
      BY <1>2, <1>3, <2>1, <3>1
  <2>5. QED
    BY <2>3, <2>4
<1>15. CASE Settle
  <2>1. run.result # "downloaded"
    BY <1>15 DEF Settle, ResultComesLast
  <2>2. CASE /\ run.pc = "done"
             /\ Conclude(run, "completed", NoAuth, "downloaded")
    <3>1. CASE Owned
      <4>1. run'.pc = "write" /\ run'.after = "down"
        BY <1>1, <2>2, <3>1 DEF Conclude, Workers
      <4>2. QED
        BY <2>2, <4>1 DEF ResultComesLast, Placed
    <3>2. CASE ~Owned
      <4>1. run'.pc = "down"
        BY <2>2, <3>2 DEF Conclude, Idle
      <4>2. QED
        BY <2>2, <4>1 DEF ResultComesLast, Placed
    <3>3. QED
      BY <3>1, <3>2
  <2>3. ASSUME NEW r \in {run, [run EXCEPT !.allow = FALSE,
                                           !.fallback = TRUE]},
               NEW place \in {"wait", "attempt"}, TryAgain(r, place)
        PROVE  ~Placed(run')
    <3>1. r \in Workers /\ r.result = run.result
      BY <1>1 DEF Workers
    <3>2. run'.result = run.result /\ run'.pc \in {"write", "wait", "attempt"}
      BY <2>3, <3>1 DEF TryAgain, Workers
    <3>3. QED
      BY <1>3, <2>1, <3>2
  <2>4. \/ /\ run.pc = "done"
           /\ Conclude(run, "completed", NoAuth, "downloaded")
        \/ \E status, auth, result : /\ result # "downloaded"
                                     /\ Conclude(run, status, auth, result)
        \/ TryAgain(run, "wait")
        \/ TryAgain([run EXCEPT !.allow = FALSE, !.fallback = TRUE], "attempt")
    BY <1>15 DEF Settle
  <2>5. QED
    BY <1>1, <1>2, <2>1, <2>2, <2>3, <2>4, EndsQuiet
<1>16. CASE \/ SaveControl \/ TargetChanges \/ StagingChanges
            \/ UNCHANGED vars
  <2>1. run' = run
    BY <1>16 DEF SaveControl, TargetChanges, StagingChanges, vars
  <2>2. QED
    BY <2>1 DEF ResultComesLast
<1>17. QED
  BY <1>4, <1>5, <1>6, <1>7, <1>8, <1>9, <1>10, <1>11, <1>12, <1>13, <1>14,
     <1>15, <1>16 DEF Next

\* Only the synced placement makes a file count as placed, and nothing
\* separates what is visible from what is durable afterwards.
LEMMA DurableStep ==
    ASSUME TypeOK, TargetIsWhole, AfterIsPlace, ResultComesLast,
           PlacedIsDurable, [Next]_vars
    PROVE  PlacedIsDurable'
<1>1. SUFFICES ASSUME Placed(run')
               PROVE  disk'["target"] = fs'["target"]
  BY DEF PlacedIsDurable
<1>2. CASE SyncPlaced
  <2>1. disk' = fs /\ (fs' = fs \/ fs' = [fs EXCEPT !["control"] = NoLeaf])
    BY <1>2 DEF SyncPlaced
  <2>2. QED
    BY <2>1 DEF TypeOK, Names, StagingNames
<1>3. CASE Placed(run)
  <2>1. disk["target"] = fs["target"]
    BY <1>3 DEF PlacedIsDurable
  <2>2. CASE CommitsPath
    <3>1. run.pc = "rename"
      BY <2>2 DEF CommitsPath, At
    <3>2. QED
      BY <1>3, <3>1 DEF Placed, ResultComesLast
  <2>3. QED
    BY <2>1, <2>2, PathStep DEF LeavesPath, ChangesPath, CrashesPath
<1>4. QED
  BY <1>1, <1>2, <1>3, ReportStep

LEMMA DurableSuffices ==
    TargetIsWhole /\ PlacedIsDurable => DownloadedIsDurable
<1>1. SUFFICES ASSUME TargetIsWhole, PlacedIsDurable,
                      run.result = "downloaded"
               PROVE  /\ disk["target"] = fs["target"]
                      /\ Seen(disk["target"]) # "part"
  BY DEF DownloadedIsDurable
<1>2. disk["target"] = fs["target"]
  BY <1>1 DEF PlacedIsDurable, Placed
<1>3. Seen(disk["target"]) \in Target!TargetContents
  BY <1>1, FlushedIsWhole DEF TargetIsWhole, Seen
<1>4. QED
  BY <1>2, <1>3 DEF Target!TargetContents

-----------------------------------------------------------------------------
(* The artifacts of a worker that met no fault.                            *)

\* The conditions of the model, said of the directories.
LEMMA Artifacts ==
    /\ NamespaceAbsent <=> Empty(fs)
    /\ \A a : Complete(a) <=> Owns(fs, a)
    /\ Rejected <=> Rejects(fs, req)
<1>1. \A n \in {"staging", "control", "temp"} :
        n \in StagingNames
  BY DEF StagingNames
<1>2. NamespaceAbsent <=> Empty(fs)
  BY DEF NamespaceAbsent, Present, Empty
<1>3. \A a : Complete(a) <=> Owns(fs, a)
  BY DEF Complete, Admitted, Present, Owns
<1>4. Rejected <=> Rejects(fs, req)
  BY DEF Rejected, Present, Rejects
<1>5. QED
  BY <1>2, <1>3, <1>4

\* A worker whose step counts no fault.
Sound(f, r, s, q) == Ordinary(f, r, q) /\ Accounted(f, r, s, q)

LEMMA ConcludeSound ==
    ASSUME NEW r \in Workers, r.fallback => ~r.allow,
           Ordinary(fs, run, req), fs' = fs,
           NEW status, NEW auth, NEW result, result # "refused",
           HeldBy(fs, auth), ~Owned => auth = NoAuth,
           Conclude(r, status, auth, result)
    PROVE  Sound(fs', run', saved', req)
<1>1. CASE Owned
  <2>1. /\ run'.pc = "write" /\ run'.after = "down"
        /\ run'.next = Entry(status, auth) /\ run'.result = result
        /\ run'.fallback = r.fallback /\ run'.allow = r.allow
    BY <1>1 DEF Conclude, Workers
  <2>2. run'.next.resume = auth
    BY <2>1 DEF Entry
  <2>3. QED
    BY <2>1, <2>2 DEF Sound, Ordinary, Accounted
<1>2. CASE ~Owned
  <2>1. run' = [Idle EXCEPT !.result = result]
    BY <1>2 DEF Conclude
  <2>2. run'.pc = "down" /\ run'.result = result /\ run'.allow = FALSE
    BY <2>1 DEF Idle
  <2>3. Empty(fs)
    BY <1>2 DEF HeldBy
  <2>4. QED
    BY <2>2, <2>3 DEF Sound, Ordinary, Accounted, Recoverable
<1>3. QED
  BY <1>1, <1>2

LEMMA EmptySound ==
    ASSUME Empty(fs'), run'.pc = "clean", run'.result # "refused",
           run'.fallback => ~run'.allow,
           run'.after \in {"rewrite", "retry", "cancelled", "rejected"}
             => run'.auth = NoAuth,
           run'.after = "rewrite" => run'.next.resume = NoAuth
    PROVE  Sound(fs', run', saved', req)
<1>1. fs'["temp"].ino = 0
  BY DEF Empty, StagingNames
<1>2. QED
  BY <1>1 DEF Sound, Ordinary, Accounted

LEMMA CleanSound ==
    ASSUME TypeOK, NEW r \in Workers, r.fallback => ~r.allow,
           r.result # "refused", NEW after,
           after \in {"rewrite", "retry", "cancelled", "rejected"}
             => r.auth = NoAuth,
           after = "rewrite" => r.next.resume = NoAuth,
           CleanThen(r, StagingNames, after)
    PROVE  Sound(fs', run', saved', req)
<1>1. /\ run'.pc = "clean" /\ run'.after = after /\ run'.auth = r.auth
      /\ run'.next = r.next /\ run'.result = r.result
      /\ run'.fallback = r.fallback /\ run'.allow = r.allow
  BY DEF CleanThen, Workers
<1>2. Empty(fs')
  BY DEF CleanThen, Same, Empty, Names, NoLeaf
<1>3. QED
  BY <1>1, <1>2, EmptySound

\* A start resolves what the state file says of the artifacts, and is not
\* refused.
LEMMA StartSound ==
    ASSUME TypeOK, StateIsValid, At("down"), Start,
           Sound(fs, run, saved, req)
    PROVE  Sound(fs', run', saved', req)
<1>1. /\ Ordinary(fs, run, req) /\ Recoverable(fs, saved) /\ saved' = saved
  BY DEF Sound, Accounted, At, Start
<1>2. \A u, v \in Variants :
        saved[u] # NoEntry /\ saved[v] # NoEntry => u = v
  BY DEF StateIsValid, ValidFile, OneEntry
<1>3. \A v \in Variants : saved[v].resume # NoAuth => saved[v] # NoEntry
  BY DEF NoEntry
<1>4. \A v \in Variants : saved[v] # NoEntry => StaleResolved(v)
  <2>1. SUFFICES ASSUME NEW v \in Variants, saved[v] # NoEntry, ~Empty(fs)
                 PROVE  StaleResolved(v)
    BY Artifacts DEF StaleResolved
  <2>2. PICK u \in Variants : /\ saved[u].resume # NoAuth
                              /\ Owns(fs, saved[u].resume)
    BY <1>1, <2>1 DEF Recoverable
  <2>3. u = v
    BY <1>2, <1>3, <2>1, <2>2
  <2>4. Complete(saved[v].resume)
    BY <2>2, <2>3, Artifacts
  <2>5. QED
    BY <2>2, <2>3, <2>4 DEF StaleResolved, Complete
<1>5. ASSUME NEW w \in Variants,
             \A v \in Variants : v # w => saved[v] = NoEntry
      PROVE  Discardable(w)
  <2>1. CASE Empty(fs)
    BY <2>1, Artifacts DEF Discardable, NamespaceAbsent, Admitted,
                           StagingNames
  <2>2. CASE ~Empty(fs)
    <3>1. PICK u \in Variants : /\ saved[u].resume # NoAuth
                                /\ Owns(fs, saved[u].resume)
      BY <1>1, <2>2 DEF Recoverable
    <3>2. u = w
      BY <1>3, <1>5, <3>1
    <3>3. Complete(saved[w].resume)
      BY <3>1, <3>2, Artifacts
    <3>4. QED
      BY <3>1, <3>2, <3>3 DEF Discardable, Complete
  <2>3. QED
    BY <2>1, <2>2
<1>6. ASSUME NEW w \in Variants, NEW b \in BOOLEAN
      PROVE  /\ Begin(w, b) \in Workers /\ Begin(w, b).result = "none"
             /\ Begin(w, b).pc = "rewrite" /\ Begin(w, b).fallback = FALSE
             /\ Begin(w, b).auth = NoAuth
  BY Constants DEF Begin, Idle
<1>7. ASSUME NEW w \in Variants, NEW b \in BOOLEAN, NEW e \in Entries,
             e.resume = NoAuth,
             CleanThen([Begin(w, b) EXCEPT !.next = e], StagingNames,
                       "rewrite")
      PROVE  Sound(fs', run', saved', req)
  <2> DEFINE r == [Begin(w, b) EXCEPT !.next = e]
  <2>1. /\ r \in Workers /\ r.next = e /\ r.auth = NoAuth
        /\ r.fallback = FALSE /\ r.result = "none"
    <3> DEFINE b0 == Begin(w, b)
    <3>1. /\ b0 \in Workers /\ b0.result = "none" /\ b0.fallback = FALSE
          /\ b0.auth = NoAuth
      BY <1>6
    <3> HIDE DEF b0
    <3>2. [b0 EXCEPT !.next = e] \in Workers
      BY <3>1 DEF Workers
    <3>3. /\ [b0 EXCEPT !.next = e].next = e
          /\ [b0 EXCEPT !.next = e].auth = NoAuth
          /\ [b0 EXCEPT !.next = e].fallback = FALSE
          /\ [b0 EXCEPT !.next = e].result = "none"
      BY <3>1 DEF Workers
    <3>4. QED
      BY <3>2, <3>3 DEF b0
  <2>2. CleanThen(r, StagingNames, "rewrite")
    BY <1>7
  <2> HIDE DEF r
  <2>3. QED
    BY <1>7, <2>1, <2>2, CleanSound
<1>8. /\ NoEntry \in Entries /\ NoEntry.resume = NoAuth
      /\ Entry("pending", NoAuth) \in Entries
      /\ Entry("pending", NoAuth).resume = NoAuth
  BY Constants DEF Entry, Entries, Statuses, NoEntry
<1>9. ASSUME NEW w \in Variants, NEW b \in BOOLEAN, NEW e, NEW a,
             e.resume = a, HeldBy(fs, a), fs' = fs,
             run' = [Begin(w, b) EXCEPT !.next = e, !.auth = a]
      PROVE  Sound(fs', run', saved', req)
  <2>1. /\ run'.pc = "rewrite" /\ run'.next = e /\ run'.auth = a
        /\ run'.result = "none" /\ run'.fallback = FALSE
    <3> DEFINE b0 == Begin(w, b)
    <3>1. /\ b0 \in Workers /\ b0.result = "none" /\ b0.fallback = FALSE
          /\ b0.pc = "rewrite"
          /\ run' = [b0 EXCEPT !.next = e, !.auth = a]
      BY <1>6, <1>9
    <3> HIDE DEF b0
    <3>2. QED
      BY <3>1 DEF Workers
  <2>2. QED
    BY <1>1, <1>9, <2>1 DEF Sound, Ordinary, Accounted
<1>10. ASSUME NEW w \in Variants, ReconcileStale(w)
       PROVE  Sound(fs', run', saved', req)
  <2>1. CleanThen([Begin(w, FALSE) EXCEPT !.next = NoEntry], StagingNames,
                  "rewrite")
    BY <1>4, <1>10 DEF ReconcileStale
  <2>2. QED
    BY <1>7, <1>8, <2>1
<1>11. ASSUME NEW w \in Variants, NEW b \in BOOLEAN, ReconcileCurrent(w, b)
       PROVE  Sound(fs', run', saved', req)
  <2>1. ~\E v \in Stale(w) : ~StaleResolved(v)
    BY <1>4 DEF Stale
  <2>2. ~(Stale(w) = {} /\ ~Discardable(w))
    BY <1>5 DEF Stale
  <2>3. \/ /\ AlreadyComplete(w) /\ UNCHANGED fs
           /\ run' = [Begin(w, b) EXCEPT !.next = Entry("completed", NoAuth),
                                         !.auth = NoAuth]
        \/ /\ MayResume(w, b) /\ UNCHANGED fs
           /\ run' = [Begin(w, b) EXCEPT
                        !.next = Entry("pending", saved[w].resume),
                        !.auth = saved[w].resume]
        \/ CleanThen([Begin(w, b) EXCEPT !.next = Entry("pending", NoAuth)],
                     StagingNames, "rewrite")
    BY <1>11, <2>1, <2>2 DEF ReconcileCurrent
  <2>4. CASE /\ AlreadyComplete(w) /\ UNCHANGED fs
             /\ run' = [Begin(w, b) EXCEPT !.next = Entry("completed", NoAuth),
                                           !.auth = NoAuth]
    <3>1. saved[w].status = "completed"
      BY <2>4 DEF AlreadyComplete
    <3>2. saved[w] # NoEntry
      BY <3>1 DEF NoEntry
    <3>3. \A v \in Variants : saved[v].resume = NoAuth
      <4>1. ValidEntry(w, saved[w])
        BY DEF StateIsValid, ValidFile
      <4>2. saved[w].resume = NoAuth
        BY <3>1, <4>1 DEF ValidEntry
      <4>3. QED
        BY <1>2, <1>3, <3>2, <4>2
    <3>4. Empty(fs)
      BY <1>1, <3>3 DEF Recoverable
    <3>5. HeldBy(fs, NoAuth) /\ Entry("completed", NoAuth).resume = NoAuth
      BY <3>4 DEF HeldBy, Entry
    <3>6. QED
      BY <1>9, <2>4, <3>5
  <2>5. CASE /\ MayResume(w, b) /\ UNCHANGED fs
             /\ run' = [Begin(w, b) EXCEPT
                          !.next = Entry("pending", saved[w].resume),
                          !.auth = saved[w].resume]
    <3>1. HeldBy(fs, saved[w].resume)
      BY <2>5, Artifacts DEF MayResume, HeldBy
    <3>2. Entry("pending", saved[w].resume).resume = saved[w].resume
      BY DEF Entry
    <3>3. QED
      BY <1>9, <2>5, <3>1, <3>2
  <2>6. CASE CleanThen([Begin(w, b) EXCEPT !.next = Entry("pending", NoAuth)],
                       StagingNames, "rewrite")
    BY <1>7, <1>8, <2>6
  <2>7. QED
    BY <2>3, <2>4, <2>5, <2>6
<1>12. ASSUME NEW w \in Variants, NEW b \in BOOLEAN, ~Owned, fs' = fs,
              run' = [Begin(w, b) EXCEPT !.pc = "attempt"]
       PROVE  Sound(fs', run', saved', req)
  <2>1. /\ run'.pc = "attempt" /\ run'.auth = NoAuth
        /\ run'.result = "none" /\ run'.fallback = FALSE
    <3> DEFINE b0 == Begin(w, b)
    <3>1. /\ b0 \in Workers /\ b0.result = "none" /\ b0.fallback = FALSE
          /\ b0.auth = NoAuth
          /\ run' = [b0 EXCEPT !.pc = "attempt"]
      BY <1>6, <1>12
    <3> HIDE DEF b0
    <3>2. QED
      BY <3>1 DEF Workers
  <2>2. \A v \in Variants : saved[v].resume = NoAuth
    BY <1>12 DEF StateIsValid, BuildKeepsNoState, NoEntry
  <2>3. Empty(fs)
    BY <1>1, <2>2 DEF Recoverable
  <2>4. QED
    BY <1>1, <1>12, <2>1, <2>3 DEF Sound, Ordinary, Accounted, HeldBy
<1>13. QED
  BY <1>10, <1>11, <1>12 DEF Start

\* The transport's answer.
LEMMA AnswerSound ==
    ASSUME TypeOK, HoldsStaging, Answers, Sound(fs, run, saved, req)
    PROVE  Sound(fs', run', saved', req)
<1>1. /\ run \in Workers /\ run.pc = "transport" /\ run.stg # 0
      /\ run.attempts \in Nat
      /\ fs \in [Names -> Leaves]
  BY DEF Answers, At, TypeOK, HoldsStaging, Workers
<1>2. /\ fs["target"] = run.initial /\ ~Rejects(fs, req)
      /\ fs["temp"].ino = 0 /\ run.result # "refused"
      /\ run.fallback => ~run.allow
  BY <1>1 DEF Sound, Ordinary, Accounted
<1>3. PICK o \in Outcomes : Answer(o)
  BY DEF Answers
<1>4. PICK c \in ControlsLeft(o), d \in Received(o) :
        \/ Loses(o, c, d) \/ Stores(o, c, d)
        \/ Preserves(o, c, d) \/ Cleans(o, c, d)
  BY <1>3, AnswerCases
<1>5. /\ "staging" \in Names /\ "control" \in Names /\ "temp" \in Names
      /\ "target" \in Names /\ StagingNames = {"staging", "control", "temp"}
  BY DEF Names, StagingNames
<1>6. /\ Visible(c, d)["staging"].ino = run.stg
      /\ Visible(c, d)["control"] = c
      /\ Visible(c, d)["temp"] = fs["temp"]
      /\ Visible(c, d)["target"] = fs["target"]
      /\ DOMAIN Visible(c, d) = Names
  BY <1>1, <1>5 DEF Visible, Leaf
<1>7. Tried = [run EXCEPT !.attempts = run.attempts + 1, !.auth = NoAuth]
  BY DEF Tried
<1>8. CASE Loses(o, c, d)
  <2>1. c = NoLeaf
    BY <1>2, <1>8 DEF Loses, TargetUnchanged
  <2>2. Empty(fs')
    BY <1>2, <1>5, <1>6, <1>8, <2>1
       DEF Loses, LineageFails, Empty, NoLeaf
  <2>3. /\ run'.pc = "clean" /\ run'.after = "failed"
        /\ run'.result = run.result /\ run'.fallback = run.fallback
        /\ run'.allow = run.allow
    BY <1>1, <1>8 DEF Loses, LineageFails, Workers
  <2>4. QED
    BY <1>2, <2>2, <2>3, EmptySound
<1>9. CASE Stores(o, c, d)
  <2>1. /\ run'.pc = "verify" /\ run'.auth = NoAuth /\ run'.ctl = c.ino
        /\ run'.stg = run.stg /\ run'.initial = run.initial
        /\ run'.result = run.result /\ run'.fallback = run.fallback
        /\ run'.allow = run.allow
    BY <1>1, <1>7, <1>9 DEF Stores, Workers
  <2>2. /\ fs'["target"] = fs["target"] /\ fs'["staging"].ino = run.stg
        /\ fs'["control"] = c /\ fs'["temp"].ino = 0
    BY <1>2, <1>6, <1>9 DEF Stores
  <2>3. ~Rejects(fs', req)
    BY <1>2, <2>2 DEF Rejects
  <2>4. QED
    BY <1>2, <2>1, <2>2, <2>3 DEF Sound, Ordinary, Accounted
<1>10. CASE Preserves(o, c, d)
  <2> DEFINE kept == [stg |-> run.stg, ctl |-> c.ino]
  <2>1. /\ run'.pc = IF o = "retry" THEN "retry" ELSE "cancelled"
        /\ run'.auth = kept /\ run'.attempts = run.attempts + 1
        /\ run'.result = run.result /\ run'.fallback = run.fallback
        /\ run'.allow = run.allow
    BY <1>1, <1>7, <1>10 DEF Preserves, Workers
  <2>2. /\ fs'["target"] = fs["target"] /\ fs'["staging"].ino = run.stg
        /\ fs'["control"] = c /\ fs'["temp"].ino = 0
    BY <1>2, <1>6, <1>10 DEF Preserves
  <2>3. c.ino # 0
    <3>1. c \in {fs["control"], NoLeaf, Leaf(Fresh, "part")}
      BY DEF ControlsLeft
    <3>2. fs["control"] \in Leaves
      BY <1>1, <1>5
    <3>3. Leaf(Fresh, "part").ino # 0
      BY FreshIsNew DEF Leaf
    <3>4. QED
      BY <1>10, <3>1, <3>2, <3>3 DEF Preserves, Leaves
  <2>4. HeldBy(fs', kept)
    BY <1>1, <2>2, <2>3 DEF HeldBy, Owns, NoAuth
  <2>5. run.allow /\ ~run.fallback
    BY <1>2, <1>10
       DEF Preserves, Keeps, PreserveOnRetryable, PreserveOnCancelled
  <2>6. ~Owned => o = "retry" /\ run.attempts + 1 < MaxAttempts
    BY <1>10 DEF Preserves, Keeps, PreserveOnRetryable, PreserveOnCancelled
  <2>7. ~Rejects(fs', req)
    BY <1>2, <2>2 DEF Rejects
  <2> HIDE DEF kept
  <2>8. run'.pc \in {"retry", "cancelled"}
    BY <2>1
  <2>9. Ordinary(fs', run', req)
    BY <1>2, <2>1, <2>2, <2>7 DEF Ordinary
  <2>10. ~Owned => run'.pc = "retry" /\ run'.attempts < MaxAttempts
                   /\ ~run'.fallback
    BY <2>1, <2>5, <2>6
  <2>11. Accounted(fs', run', saved', req)
    BY <2>1, <2>4, <2>8, <2>10 DEF Accounted, Owned
  <2>12. QED
    BY <2>9, <2>11 DEF Sound
<1>11. CASE Cleans(o, c, d)
  <2>1. Empty(fs')
    BY <1>2, <1>5, <1>6, <1>11 DEF Cleans, Empty, NoLeaf
  <2>2. PICK after \in {"retry", "cancelled", "rejected", "failed"} :
          run' = [Tried EXCEPT !.pc = "clean", !.after = after, !.stg = 0,
                               !.ctl = 0]
    BY <1>11 DEF Cleans
  <2>3. /\ run'.pc = "clean" /\ run'.after = after /\ run'.auth = NoAuth
        /\ run'.result = run.result /\ run'.fallback = run.fallback
        /\ run'.allow = run.allow
    BY <1>1, <1>7, <2>2 DEF Workers
  <2>4. QED
    BY <1>2, <2>1, <2>3, EmptySound
<1>12. QED
  BY <1>4, <1>8, <1>9, <1>10, <1>11

\* The state file and the attempt: what is written is what the worker has
\* authority over.
LEMMA StateSound ==
    ASSUME TypeOK, AfterIsPlace, BuildKeepsNoState, WriteState \/ SyncState,
           Sound(fs, run, saved, req)
    PROVE  Sound(fs', run', saved', req)
<1>1. /\ run \in Workers /\ run.want \in Variants /\ fs' = fs
      /\ saved \in [Variants -> Entries]
      /\ Ordinary(fs, run, req) /\ Accounted(fs, run, saved, req)
  BY DEF WriteState, SyncState, At, TypeOK, Sound
<1>2. CASE WriteState
  <2>1. /\ run'.pc = "sync-state" /\ run'.want = run.want
        /\ run'.auth = run.auth /\ run'.result = run.result
        /\ run'.fallback = run.fallback /\ run'.allow = run.allow
        /\ run'.after = IF Unscheduled THEN "down"
                        ELSE IF At("rewrite") THEN "attempt" ELSE run.after
    BY <1>1, <1>2 DEF WriteState, Workers
  <2>2. saved'[run.want] = run.next
    BY <1>1, <1>2 DEF WriteState
  <2>3. HeldBy(fs, run.next.resume)
    BY <1>1, <1>2 DEF WriteState, Accounted
  <2>4. run'.after # "down" => run.next.resume = run.auth
    BY <1>1, <1>2, <2>1 DEF WriteState, Accounted, At
  <2>5. Ordinary(fs', run', req)
    BY <1>1, <2>1 DEF Ordinary
  <2>6. Accounted(fs', run', saved', req)
    BY <1>1, <2>1, <2>2, <2>3, <2>4 DEF Accounted
  <2>7. QED
    BY <2>5, <2>6 DEF Sound
<1>3. CASE SyncState
  <2>1. /\ run.pc = "sync-state" /\ saved' = saved
        /\ HeldBy(fs, saved[run.want].resume)
    BY <1>1, <1>3 DEF SyncState, At, Accounted
  <2>2. CASE run.after = "down"
    <3>1. run' = [Idle EXCEPT !.result = run.result]
      BY <1>3, <2>2 DEF SyncState
    <3>2. run'.pc = "down" /\ run'.result = run.result /\ run'.allow = FALSE
      BY <3>1 DEF Idle
    <3>3. Recoverable(fs, saved)
      BY <1>1, <2>1 DEF HeldBy, Recoverable
    <3>4. QED
      BY <1>1, <2>1, <3>2, <3>3 DEF Sound, Ordinary, Accounted
  <2>3. CASE run.after # "down"
    <3>1. /\ run'.pc = run.after /\ run'.auth = run.auth
          /\ run'.result = run.result /\ run'.fallback = run.fallback
          /\ run'.allow = run.allow
      BY <1>1, <1>3, <2>3 DEF SyncState, Workers
    <3>2. run.after \in {"attempt", "wait"}
      BY <2>1, <2>3 DEF AfterIsPlace
    <3>3. HeldBy(fs, run.auth)
      BY <1>1, <2>1, <2>3 DEF Accounted
    <3>4. QED
      BY <1>1, <3>1, <3>2, <3>3 DEF Sound, Ordinary, Accounted
  <2>4. QED
    BY <2>2, <2>3
<1>4. QED
  BY <1>2, <1>3

\* The existing target, the wait and the admission.
LEMMA AttemptSound ==
    ASSUME TypeOK, Sound(fs, run, saved, req),
           \/ Cancelled \/ Waited \/ SkipExisting \/ RejectExisting
           \/ Admit \/ SaveControl
    PROVE  Sound(fs', run', saved', req)
<1> USE DEF At
<1>1. /\ run \in Workers /\ fs \in [Names -> Leaves] /\ saved' = saved
      /\ Ordinary(fs, run, req) /\ Accounted(fs, run, saved, req)
      /\ run.result # "refused"
      /\ run.fallback => ~run.allow
  BY DEF TypeOK, Sound, Ordinary, Cancelled, Waited, SkipExisting,
         RejectExisting, Admit, SaveControl
<1>2. run.pc \in {"attempt", "wait"} =>
        /\ HeldBy(fs, run.auth)
        /\ run.auth = NoAuth => HeldBy(fs, NoAuth)
        /\ run.auth # NoAuth => Admitted(run.auth) /\ Complete(run.auth)
  BY <1>1, Artifacts DEF Accounted, HeldBy, Complete
<1>3. CASE Cancelled
  <2> DEFINE r == [run EXCEPT !.result = "cancelled"]
  <2>1. /\ r \in Workers /\ r.result = "cancelled"
        /\ r.fallback = run.fallback /\ r.allow = run.allow
    BY <1>1 DEF Workers, Results
  <2> HIDE DEF r
  <2>2. CASE Owned \/ run.auth = NoAuth
    BY <1>1, <1>2, <1>3, <2>2, ConcludeSound DEF Cancelled
  <2>3. CASE ~(Owned \/ run.auth = NoAuth)
    <3>1. CleanThen(r, StagingNames, "down")
      BY <1>2, <1>3, <2>3 DEF Cancelled, r
    <3>2. QED
      BY <1>1, <2>1, <3>1, CleanSound
  <2>4. QED
    BY <2>2, <2>3
<1>4. CASE Waited
  <2>1. /\ run'.pc = "attempt" /\ run'.auth = run.auth
        /\ run'.result = run.result /\ run'.fallback = run.fallback
        /\ run'.allow = run.allow /\ fs' = fs
    BY <1>1, <1>4 DEF Waited, Workers
  <2>2. HeldBy(fs, run.auth)
    BY <1>2, <1>4 DEF Waited
  <2>3. QED
    BY <1>1, <2>1, <2>2 DEF Sound, Ordinary, Accounted
<1>5. CASE SkipExisting
  <2>1. CASE run.auth = NoAuth
    BY <1>1, <1>2, <1>5, <2>1, ConcludeSound DEF SkipExisting
  <2>2. CASE run.auth # NoAuth
    <3>1. CleanThen(run, StagingNames, "skipped")
      BY <1>2, <1>5, <2>2 DEF SkipExisting
    <3>2. QED
      BY <1>1, <3>1, CleanSound
  <2>3. QED
    BY <2>1, <2>2
<1>6. CASE RejectExisting
  <2>1. HeldBy(fs, NoAuth)
    BY <1>1, <1>6, Artifacts DEF RejectExisting, Ordinary, HeldBy
  <2>2. QED
    BY <1>1, <1>6, <2>1, ConcludeSound DEF RejectExisting
<1>7. CASE Admit
  <2>1. ~Rejects(fs, req)
    BY <1>7, Artifacts DEF Admit
  <2>2. IF run.auth # NoAuth THEN Complete(run.auth) ELSE NamespaceAbsent
    BY <1>2, <1>7, Artifacts DEF Admit, HeldBy
  <2>3. /\ fs' = IF run.auth # NoAuth THEN fs
                 ELSE [fs EXCEPT !["staging"] = Leaf(Fresh, "part")]
        /\ run' = [run EXCEPT !.pc = "transport", !.initial = fs["target"],
                     !.stg = IF run.auth # NoAuth THEN run.auth.stg
                             ELSE Leaf(Fresh, "part").ino,
                     !.ctl = run.auth.ctl]
    BY <1>7, <2>2 DEF Admit
  <2>4. /\ run'.pc = "transport" /\ run'.initial = fs["target"]
        /\ run'.stg = IF run.auth # NoAuth THEN run.auth.stg
                      ELSE Leaf(Fresh, "part").ino
        /\ run'.result = run.result /\ run'.fallback = run.fallback
        /\ run'.allow = run.allow
    BY <1>1, <2>3 DEF Workers
  <2>5. "staging" \in Names /\ "staging" # "temp" /\ "staging" # "target"
    BY DEF Names, StagingNames
  <2>6. /\ fs'["temp"] = fs["temp"] /\ fs'["target"] = fs["target"]
        /\ fs'["staging"].ino = run'.stg
    <3>1. CASE run.auth # NoAuth
      <4>1. Owns(fs, run.auth)
        BY <2>2, <3>1, Artifacts
      <4>2. QED
        BY <2>3, <2>4, <3>1, <4>1 DEF Owns
    <3>2. CASE run.auth = NoAuth
      BY <1>1, <2>3, <2>4, <2>5, <3>2
    <3>3. QED
      BY <3>1, <3>2
  <2>7. ~Rejects(fs', req)
    BY <2>1, <2>6 DEF Rejects
  <2>8. QED
    BY <1>1, <2>4, <2>6, <2>7 DEF Sound, Ordinary, Accounted
<1>8. CASE SaveControl
  <2>1. /\ run.pc = "transport" /\ run' = run
        /\ fs' = [fs EXCEPT !["control"] = Leaf(Fresh, "part")]
    BY <1>8 DEF SaveControl
  <2>2. /\ fs'["temp"] = fs["temp"] /\ fs'["target"] = fs["target"]
        /\ fs'["staging"] = fs["staging"]
    BY <1>1, <2>1
  <2>3. fs["target"] = run.initial /\ fs["staging"].ino = run.stg
        /\ ~Rejects(fs, req)
    BY <1>1, <2>1 DEF Accounted
  <2>4. ~Rejects(fs', req)
    BY <2>2, <2>3 DEF Rejects
  <2>5. QED
    BY <1>1, <2>1, <2>2, <2>3, <2>4 DEF Sound, Ordinary, Accounted
<1>9. QED
  BY <1>3, <1>4, <1>5, <1>6, <1>7, <1>8

\* Verification and placement.
LEMMA PlaceSound ==
    ASSUME TypeOK, StagedIsProven, Sound(fs, run, saved, req),
           Verify \/ CheckTarget \/ Rename \/ SyncPlaced
    PROVE  Sound(fs', run', saved', req)
<1> USE DEF At
<1>1. /\ run \in Workers /\ fs \in [Names -> Leaves] /\ saved' = saved
      /\ Ordinary(fs, run, req) /\ Accounted(fs, run, saved, req)
      /\ run.result # "refused" /\ fs["temp"].ino = 0
      /\ run.fallback => ~run.allow
  BY DEF TypeOK, Sound, Ordinary, Verify, CheckTarget, Rename, SyncPlaced
<1>2. /\ "staging" \in Names /\ "control" \in Names /\ "temp" \in Names
      /\ "target" \in Names /\ StagingNames = {"staging", "control", "temp"}
  BY DEF Names, StagingNames
<1>3. ASSUME NEW after \in {"retry", "failed"}, Unfinished(fs, after),
             run.auth = NoAuth
      PROVE  Sound(fs', run', saved', req)
  <2>1. Empty(fs')
    BY <1>1, <1>2, <1>3 DEF Unfinished, Empty, NoLeaf
  <2>2. /\ run'.pc = "clean" /\ run'.after = after /\ run'.auth = run.auth
        /\ run'.result = run.result /\ run'.fallback = run.fallback
        /\ run'.allow = run.allow
    BY <1>1, <1>3 DEF Unfinished, Workers
  <2>3. QED
    BY <1>1, <1>3, <2>1, <2>2, EmptySound
<1>4. ASSUME NEW q, run' = [run EXCEPT !.pc = q]
      PROVE  /\ run'.pc = q /\ run'.auth = run.auth /\ run'.ctl = run.ctl
             /\ run'.stg = run.stg /\ run'.initial = run.initial
             /\ run'.result = run.result /\ run'.fallback = run.fallback
             /\ run'.allow = run.allow
  BY <1>1, <1>4 DEF Workers
<1>5. ASSUME run.pc \in {"verify", "place", "rename"}
      PROVE  /\ fs["target"] = run.initial /\ fs["staging"].ino = run.stg
             /\ ~Rejects(fs, req) /\ run.auth = NoAuth
             /\ run.ctl = 0 => fs["control"].ino = 0
  BY <1>1, <1>5 DEF Accounted
<1>6. CASE Verify
  <2>1. CASE fs["staging"].is = "good"
    <3>1. /\ fs' = [fs EXCEPT !["staging"].flushed = TRUE]
          /\ run' = [run EXCEPT !.pc = "place"]
      BY <1>6, <2>1 DEF Verify
    <3>2. fs["staging"] \in [ino : 1..MaxInode, is : Contents,
                             flushed : BOOLEAN]
      BY <1>1, <1>2, <2>1 DEF Leaves, NoLeaf
    <3>3. /\ fs'["temp"] = fs["temp"] /\ fs'["target"] = fs["target"]
          /\ fs'["control"] = fs["control"]
          /\ fs'["staging"].ino = fs["staging"].ino
      BY <1>1, <1>2, <3>1, <3>2
    <3>4. ~Rejects(fs', req)
      BY <1>5, <1>6, <3>3 DEF Rejects, Verify
    <3>5. QED
      BY <1>1, <1>4, <1>5, <1>6, <3>1, <3>3, <3>4
         DEF Verify, Sound, Ordinary, Accounted
  <2>2. QED
    BY <1>3, <1>5, <1>6, <2>1 DEF Verify
<1>7. CASE CheckTarget
  <2>1. fs' = fs /\ run' = [run EXCEPT !.pc = "rename"] /\ run.pc = "place"
    BY <1>5, <1>7 DEF CheckTarget, TargetUnchanged
  <2>2. QED
    BY <1>1, <1>4, <1>5, <2>1 DEF Sound, Ordinary, Accounted
<1>8. CASE Rename
  <2>1. CASE run.initial = NoLeaf /\ Present("target")
    BY <1>3, <1>5, <1>8, <2>1 DEF Rename
  <2>2. CASE ~(run.initial = NoLeaf /\ Present("target"))
    <3>1. /\ fs' = [fs EXCEPT !["target"] = fs["staging"],
                              !["staging"] = NoLeaf]
          /\ run' = [run EXCEPT !.pc = "placed"] /\ run.pc = "rename"
      BY <1>8, <2>2 DEF Rename
    <3>2. /\ fs'["temp"] = fs["temp"] /\ fs'["target"] = fs["staging"]
          /\ fs'["control"] = fs["control"] /\ fs'["staging"].ino = 0
      BY <1>1, <1>2, <3>1 DEF NoLeaf
    <3>3. ~Rejects(fs', req)
      BY <3>1, <3>2 DEF Rejects, StagedIsProven
    <3>4. QED
      BY <1>1, <1>4, <1>5, <3>1, <3>2, <3>3 DEF Sound, Ordinary, Accounted
  <2>3. QED
    BY <2>1, <2>2
<1>9. CASE SyncPlaced
  <2>1. /\ fs["target"].ino = run.stg /\ fs["staging"].ino = 0
        /\ run.auth = NoAuth
        /\ run.ctl = 0 => fs["control"].ino = 0
    BY <1>1, <1>9 DEF SyncPlaced, Accounted
  <2>2. CASE run.ctl = 0
    <3>1. fs' = fs /\ run' = [run EXCEPT !.pc = "done"]
      BY <1>9, <2>1, <2>2 DEF SyncPlaced
    <3>2. Empty(fs)
      BY <1>1, <1>2, <2>1, <2>2 DEF Empty
    <3>3. QED
      BY <1>1, <1>4, <3>1, <3>2 DEF Sound, Ordinary, Accounted
  <2>3. CASE run.ctl # 0
    <3>1. /\ fs' = [fs EXCEPT !["control"] = NoLeaf]
          /\ run' = [run EXCEPT !.pc = "clean", !.after = "done", !.ctl = 0]
      BY <1>9, <2>1, <2>3 DEF SyncPlaced
    <3>2. Empty(fs')
      BY <1>1, <1>2, <2>1, <3>1 DEF Empty, NoLeaf
    <3>3. /\ run'.pc = "clean" /\ run'.after = "done"
          /\ run'.result = run.result /\ run'.fallback = run.fallback
          /\ run'.allow = run.allow
      BY <1>1, <3>1 DEF Workers
    <3>4. QED
      BY <1>1, <3>2, <3>3, EmptySound
  <2>4. QED
    BY <2>2, <2>3
<1>10. QED
  BY <1>6, <1>7, <1>8, <1>9

\* The clean-up and the outcome.
LEMMA OutcomeSound ==
    ASSUME TypeOK, AfterIsPlace, StateIsValid, Sound(fs, run, saved, req),
           CleanSync \/ Settle
    PROVE  Sound(fs', run', saved', req)
<1> USE DEF At
<1>1. /\ run \in Workers /\ fs' = fs /\ saved' = saved
      /\ Ordinary(fs, run, req) /\ Accounted(fs, run, saved, req)
      /\ run.result # "refused"
      /\ run.fallback => ~run.allow
  BY DEF TypeOK, Sound, Ordinary, CleanSync, Settle
<1>2. CASE CleanSync
  <2>1. run.pc = "clean" /\ Empty(fs)
    BY <1>1, <1>2 DEF CleanSync, Accounted
  <2>2. CASE run.after = "down"
    <3>1. run' = [Idle EXCEPT !.result = run.result]
      BY <1>2, <2>2 DEF CleanSync
    <3>2. run'.pc = "down" /\ run'.result = run.result /\ run'.allow = FALSE
      BY <3>1 DEF Idle
    <3>3. QED
      BY <1>1, <2>1, <3>2 DEF Sound, Ordinary, Accounted, Recoverable
  <2>3. CASE run.after # "down"
    <3>1. /\ run'.pc = run.after /\ run'.auth = run.auth
          /\ run'.next = run.next
          /\ run'.result = run.result /\ run'.fallback = run.fallback
          /\ run'.allow = run.allow
      BY <1>1, <1>2, <2>3 DEF CleanSync, Workers
    <3>2. run.after \in {"rewrite", "skipped", "failed", "retry",
                         "cancelled", "rejected", "done"}
      BY <2>1, <2>3 DEF AfterIsPlace
    <3>3. /\ run.after \in {"rewrite", "retry", "cancelled", "rejected"}
               => run.auth = NoAuth
          /\ run.after = "rewrite" => run.next.resume = NoAuth
      BY <1>1, <2>1 DEF Accounted
    <3>4. QED
      BY <1>1, <2>1, <3>1, <3>2, <3>3 DEF Sound, Ordinary, Accounted, HeldBy
  <2>4. QED
    BY <2>2, <2>3
<1>3. CASE Settle
  <2>1. /\ run.pc \in {"done", "skipped", "failed", "rejected"}
             => HeldBy(fs, NoAuth)
        /\ run.pc \in {"cancelled", "retry"} => HeldBy(fs, run.auth)
        /\ run.pc = "rejected" => run.auth = NoAuth
    BY <1>1 DEF Accounted, HeldBy
  <2>2. ASSUME run.pc = "cancelled" \/ (run.pc = "retry" /\ Exhausted),
               ~Owned
        PROVE  run.auth = NoAuth
    <3>1. CASE run.auth # NoAuth
      <4>1. /\ run.pc = "retry" /\ run.attempts < MaxAttempts
            /\ ~run.fallback
        BY <1>1, <2>2, <3>1 DEF Accounted, Owned
      <4>2. QED
        BY <1>1, <2>2, <4>1, TransferBounds DEF Exhausted, Workers
    <3>2. QED
      BY <3>1
  <2>3. ASSUME NEW status, NEW auth \in {run.auth, NoAuth},
               NEW result, result # "refused", HeldBy(fs, auth),
               ~Owned => auth = NoAuth,
               Conclude(run, status, auth, result)
        PROVE  Sound(fs', run', saved', req)
    BY <1>1, <2>3, ConcludeSound
  <2>4. ASSUME NEW r \in Workers, NEW place \in {"wait", "attempt"},
               r.auth = run.auth, r.fallback => ~r.allow,
               r.result = run.result, HeldBy(fs, r.auth), TryAgain(r, place)
        PROVE  Sound(fs', run', saved', req)
    <3>1. CASE Owned
      <4>1. /\ run'.pc = "write" /\ run'.auth = r.auth
            /\ run'.next = Entry("pending", r.auth)
            /\ run'.result = r.result /\ run'.fallback = r.fallback
            /\ run'.allow = r.allow
        BY <2>4, <3>1 DEF TryAgain, Workers
      <4>2. run'.next.resume = r.auth
        BY <4>1 DEF Entry
      <4>3. QED
        BY <1>1, <2>4, <4>1, <4>2 DEF Sound, Ordinary, Accounted
    <3>2. CASE ~Owned
      <4>1. /\ run'.pc = place /\ run'.auth = r.auth
            /\ run'.result = r.result /\ run'.fallback = r.fallback
            /\ run'.allow = r.allow
        BY <2>4, <3>2 DEF TryAgain, Workers
      <4>2. QED
        BY <1>1, <2>4, <4>1 DEF Sound, Ordinary, Accounted
    <3>3. QED
      BY <3>1, <3>2
  <2>5. CASE run.pc \in {"done", "skipped", "failed"}
    BY <1>3, <2>1, <2>3, <2>5 DEF Settle
  <2>6. CASE run.pc = "cancelled"
    BY <1>3, <2>1, <2>2, <2>3, <2>6 DEF Settle
  <2>7. CASE run.pc = "retry"
    <3>1. CASE Exhausted
      BY <1>3, <2>1, <2>2, <2>3, <2>7, <3>1 DEF Settle
    <3>2. CASE ~Exhausted
      BY <1>1, <1>3, <2>1, <2>4, <2>7, <3>2 DEF Settle
    <3>3. QED
      BY <3>1, <3>2
  <2>8. CASE run.pc = "rejected"
    <3>1. CASE Exhausted
      BY <1>3, <2>1, <2>3, <2>8, <3>1 DEF Settle
    <3>2. CASE ~Exhausted
      <4> DEFINE r == [run EXCEPT !.allow = FALSE, !.fallback = TRUE]
      <4>1. /\ r \in Workers /\ r.auth = run.auth /\ r.allow = FALSE
            /\ r.result = run.result
        BY <1>1 DEF Workers
      <4>2. TryAgain(r, "attempt")
        BY <1>3, <2>8, <3>2 DEF Settle
      <4> HIDE DEF r
      <4>3. QED
        BY <2>1, <2>4, <2>8, <4>1, <4>2
    <3>3. QED
      BY <3>1, <3>2
  <2>9. QED
    BY <1>3, <2>5, <2>6, <2>7, <2>8 DEF Settle
<1>4. QED
  BY <1>2, <1>3

\* A step that counts no fault is one of the worker's own.
LEMMA FaultCounts ==
    ASSUME TypeOK, [Next]_vars, faults' = 0
    PROVE  /\ faults = 0
           /\ \/ Start \/ WriteState \/ SyncState \/ Cancelled \/ Waited
              \/ SkipExisting \/ RejectExisting \/ Admit \/ SaveControl
              \/ Answers \/ Verify \/ CheckTarget \/ Rename \/ SyncPlaced
              \/ CleanSync \/ Settle \/ UNCHANGED vars
<1>1. \A k : ~Fault(k)
  BY DEF Fault, TypeOK
<1>2. ~(\/ StateWriteFails \/ TransportBreaks \/ PlacementFails
        \/ SyncPlacedFails \/ CleanSyncFails \/ TargetChanges
        \/ StagingChanges \/ Crash)
  BY <1>1 DEF StateWriteFails, TransportBreaks, PlacementFails,
              SyncPlacedFails, CleanSyncFails, TargetChanges, StagingChanges,
              Crash
<1>3. \/ Start \/ WriteState \/ SyncState \/ Cancelled \/ Waited
      \/ SkipExisting \/ RejectExisting \/ Admit \/ SaveControl
      \/ Answers \/ Verify \/ CheckTarget \/ Rename \/ SyncPlaced
      \/ CleanSync \/ Settle \/ UNCHANGED vars
  BY <1>2 DEF Next
<1>4. faults' = faults
  BY <1>3 DEF Start, WriteState, SyncState, Cancelled, Waited, SkipExisting,
              RejectExisting, Admit, SaveControl, Answers, Verify,
              CheckTarget, Rename, SyncPlaced, CleanSync, Settle, vars
<1>5. QED
  BY <1>3, <1>4

LEMMA FaultlessStep ==
    ASSUME TypeOK, HoldsStaging, StagedIsProven, AfterIsPlace, StateIsValid,
           FaultlessIsAccounted, [Next]_vars
    PROVE  FaultlessIsAccounted'
<1>1. SUFFICES ASSUME faults' = 0
               PROVE  Sound(fs', run', saved', req')
  BY DEF FaultlessIsAccounted, Sound
<1>2. Sound(fs, run, saved, req)
  BY <1>1, FaultCounts DEF FaultlessIsAccounted, Sound
<1>3. req' = req
  BY PathStep
<1>4. CASE Start
  <2>1. At("down")
    BY <1>4 DEF Start
  <2>2. QED
    BY <1>2, <1>3, <1>4, <2>1, StartSound
<1>5. CASE WriteState \/ SyncState
  BY <1>2, <1>3, <1>5, StateSound DEF StateIsValid
<1>6. CASE \/ Cancelled \/ Waited \/ SkipExisting \/ RejectExisting
           \/ Admit \/ SaveControl
  BY <1>2, <1>3, <1>6, AttemptSound
<1>7. CASE Answers
  BY <1>2, <1>3, <1>7, AnswerSound
<1>8. CASE Verify \/ CheckTarget \/ Rename \/ SyncPlaced
  BY <1>2, <1>3, <1>8, PlaceSound
<1>9. CASE CleanSync \/ Settle
  BY <1>2, <1>3, <1>9, OutcomeSound
<1>10. CASE UNCHANGED vars
  BY <1>2, <1>10 DEF vars
<1>11. QED
  BY <1>1, <1>4, <1>5, <1>6, <1>7, <1>8, <1>9, <1>10, FaultCounts

LEMMA FaultlessSuffices ==
    TransferInv => NothingOrphaned
<1>1. SUFFICES ASSUME TransferInv, faults = 0
               PROVE  /\ At("down") /\ ~NamespaceAbsent
                           => \E v \in Variants :
                                /\ saved[v].resume # NoAuth
                                /\ Complete(saved[v].resume)
                      /\ run.result # "refused"
  BY DEF NothingOrphaned
<1>2. Ordinary(fs, run, req) /\ Accounted(fs, run, saved, req)
  BY <1>1 DEF TransferInv, FaultlessIsAccounted
<1>3. run.result # "refused"
  BY <1>2 DEF Ordinary
<1>4. At("down") => Recoverable(fs, saved)
  BY <1>2 DEF Accounted, At
<1>5. QED
  BY <1>3, <1>4, Artifacts DEF Recoverable

-----------------------------------------------------------------------------
(* Foreign files.                                                          *)

\* The authorities somebody may still act on.
Granted(r, s, d) == {r.auth, r.next.resume} \cup {s[v].resume : v \in Variants}
                                            \cup {d[v].resume : v \in Variants}

\* Somebody else's file has the staging name.
Foreign(n) == fs[n].is = "other" \/ disk[n].is = "other"

\* It is there for good, no authority names it, and the worker does not hold
\* that name.
ForeignApart ==
  \A n \in StagingNames : Foreign(n) =>
    /\ disk[n] = fs[n]
    /\ \A a \in Granted(run, saved, savedDisk) :
         a.stg # fs[n].ino /\ a.ctl # fs[n].ino
    /\ run.pc \notin Held

\* A worker that is down acts on no authority.
DownKnowsNothing(r) == r.pc = "down" => r.auth = NoAuth /\ r.next = NoEntry

ForeignInv == ForeignApart /\ DownKnowsNothing(run)

\* The step under the box of ForeignKept.
KeepsForeign ==
  \A n \in StagingNames :
    fs[n].is = "other" /\ faults' = faults => fs'[n] = fs[n]

\* The worker grants no authority that was not granted before.
GrantsNoMore ==
  /\ {run'.auth, run'.next.resume}
       \subseteq Granted(run, saved, savedDisk) \cup {NoAuth}
  /\ DownKnowsNothing(run')

\* Nor does the state file.
FileGrantsNoMore ==
  \A v \in Variants :
    {saved'[v].resume, savedDisk'[v].resume}
      \subseteq Granted(run, saved, savedDisk) \cup {NoAuth}

\* A step that leaves the staging names alone.
LEMMA ForeignUntouched ==
    ASSUME TypeOK, ForeignInv,
           \A n \in StagingNames :
             fs'[n] = fs[n] /\ disk'[n] \in {fs[n], disk[n]},
           GrantsNoMore, FileGrantsNoMore, run'.pc \notin Held
    PROVE  ForeignInv' /\ KeepsForeign
<1>1. Granted(run', saved', savedDisk')
        \subseteq Granted(run, saved, savedDisk) \cup {NoAuth}
  BY DEF GrantsNoMore, FileGrantsNoMore, Granted
<1>2. ASSUME NEW n \in StagingNames, Foreign(n)'
      PROVE  /\ disk'[n] = fs'[n]
             /\ \A a \in Granted(run', saved', savedDisk') :
                  a.stg # fs'[n].ino /\ a.ctl # fs'[n].ino
  <2>1. Foreign(n)
    BY <1>2 DEF Foreign
  <2>2. /\ disk[n] = fs[n] /\ fs[n].is = "other"
        /\ \A a \in Granted(run, saved, savedDisk) :
             a.stg # fs[n].ino /\ a.ctl # fs[n].ino
    BY <2>1 DEF ForeignInv, ForeignApart, Foreign
  <2>3. fs[n].ino # 0
    BY <2>2 DEF TypeOK, Names, Leaves, NoLeaf
  <2>4. NoAuth.stg # fs[n].ino /\ NoAuth.ctl # fs[n].ino
    BY <2>3 DEF NoAuth
  <2>5. QED
    BY <1>1, <2>2, <2>4
<1>3. ForeignApart'
  BY <1>2 DEF ForeignApart
<1>4. QED
  BY <1>3 DEF ForeignInv, GrantsNoMore, KeepsForeign

\* A step where there is no foreign file, and none appears.
LEMMA NoForeignFile ==
    ASSUME \A n \in StagingNames : ~Foreign(n) /\ ~Foreign(n)',
           DownKnowsNothing(run')
    PROVE  ForeignInv' /\ KeepsForeign
BY DEF ForeignInv, ForeignApart, KeepsForeign, Foreign

\* Where an authority is admitted, or nothing is there, nothing is foreign.
LEMMA AdmittedIsOwn ==
    ASSUME TypeOK, ForeignInv,
           \/ NamespaceAbsent
           \/ \E a \in Granted(run, saved, savedDisk) : Admitted(a)
    PROVE  \A n \in StagingNames : ~Foreign(n)
<1> SUFFICES ASSUME NEW n \in StagingNames, Foreign(n) PROVE FALSE
  OBVIOUS
<1>1. fs[n].is = "other"
  BY DEF ForeignInv, ForeignApart, Foreign
<1>2. Present(n)
  BY <1>1 DEF TypeOK, Names, Leaves, NoLeaf, Present
<1>3. \A a \in Granted(run, saved, savedDisk) :
        a.stg # fs[n].ino /\ a.ctl # fs[n].ino
  BY DEF ForeignInv, ForeignApart
<1>4. QED
  BY <1>2, <1>3 DEF NamespaceAbsent, Admitted, StagingNames

\* While a name is held nothing is foreign.
LEMMA HeldIsOwn ==
    ASSUME ForeignInv, run.pc \in Held
    PROVE  \A n \in StagingNames : ~Foreign(n)
BY DEF ForeignInv, ForeignApart

\* Removing what is there leaves nothing foreign.
LEMMA CleanLeavesNone ==
    ASSUME NEW r \in Workers, NEW after, CleanThen(r, StagingNames, after),
           \A n \in StagingNames : ~Foreign(n), disk' = disk
    PROVE  ForeignInv' /\ KeepsForeign
<1>1. \A n \in StagingNames : fs'[n] = NoLeaf
  BY DEF CleanThen, Same, Names
<1>2. \A n \in StagingNames : ~Foreign(n)'
  BY <1>1 DEF Foreign, NoLeaf
<1>3. run'.pc = "clean"
  BY DEF CleanThen, Workers
<1>4. QED
  BY <1>2, <1>3, NoForeignFile DEF DownKnowsNothing

\* A worker that ends acts on no authority any more.
LEMMA EndsGranting ==
    ASSUME NEW result, run' = [Idle EXCEPT !.result = result]
    PROVE  GrantsNoMore
<1>1. run'.auth = NoAuth /\ run'.next = NoEntry /\ NoEntry.resume = NoAuth
  BY DEF Idle, NoEntry
<1>2. QED
  BY <1>1 DEF GrantsNoMore, DownKnowsNothing

\* One that concludes hands on what it was given, or nothing.
LEMMA ConcludeGrants ==
    ASSUME run \in Workers, NEW status, NEW auth \in {run.auth, NoAuth},
           NEW result, Conclude(run, status, auth, result)
    PROVE  GrantsNoMore
<1>1. CASE Owned
  <2>1. /\ run'.pc = "write" /\ run'.auth = run.auth
        /\ run'.next = Entry(status, auth)
    BY <1>1 DEF Conclude, Workers
  <2>2. run'.next.resume = auth
    BY <2>1 DEF Entry
  <2>3. QED
    BY <2>1, <2>2 DEF GrantsNoMore, DownKnowsNothing, Granted
<1>2. CASE ~Owned
  BY <1>2, EndsGranting DEF Conclude
<1>3. QED
  BY <1>1, <1>2

\* A worker that goes on with what it knew.
LEMMA KeepsGranting ==
    ASSUME run'.auth \in {run.auth, NoAuth},
           run'.next \in {run.next, NoEntry},
           run'.pc = "down" => UNCHANGED run, ForeignInv
    PROVE  GrantsNoMore
BY DEF GrantsNoMore, DownKnowsNothing, Granted, NoEntry, ForeignInv

\* A state file that is left alone.
LEMMA FileUnchanged ==
    ASSUME UNCHANGED <<saved, savedDisk>>
    PROVE  FileGrantsNoMore
BY DEF FileGrantsNoMore, Granted

\* A start knows what the state file grants, or clears what is its own.
LEMMA ForeignStart ==
    ASSUME TypeOK, AfterIsPlace, ForeignInv, Start
    PROVE  ForeignInv' /\ KeepsForeign
<1>0. /\ UNCHANGED <<disk, saved, savedDisk>>
      /\ FileGrantsNoMore
      /\ run'.pc \notin Held
  BY FileUnchanged, StartPhase DEF Start
<1>1. ASSUME NEW w \in Variants, NEW b \in BOOLEAN
      PROVE  /\ Begin(w, b) \in Workers
             /\ Begin(w, b).auth = NoAuth /\ Begin(w, b).next = NoEntry
             /\ Begin(w, b).pc = "rewrite"
  BY Constants DEF Begin, Idle
<1>2. ASSUME GrantsNoMore, UNCHANGED fs
      PROVE  ForeignInv' /\ KeepsForeign
  BY <1>0, <1>2, ForeignUntouched
<1>3. \A v \in Variants :
        saved[v].resume \in Granted(run, saved, savedDisk)
  BY DEF Granted
<1>4. ASSUME NEW w \in Variants, NEW b \in BOOLEAN, NEW e \in Entries,
             CleanThen([Begin(w, b) EXCEPT !.next = e], StagingNames,
                       "rewrite"),
             \A n \in StagingNames : ~Foreign(n)
      PROVE  ForeignInv' /\ KeepsForeign
  <2> DEFINE r == [Begin(w, b) EXCEPT !.next = e]
  <2>1. r \in Workers
    BY <1>1 DEF Workers
  <2>2. CleanThen(r, StagingNames, "rewrite")
    BY <1>4
  <2> HIDE DEF r
  <2>3. QED
    BY <1>0, <1>4, <2>1, <2>2, CleanLeavesNone
<1>5. ASSUME NEW w \in Variants, NEW b \in BOOLEAN, NEW e, NEW a,
             run' = [Begin(w, b) EXCEPT !.next = e, !.auth = a],
             {a, e.resume} \subseteq
               Granted(run, saved, savedDisk) \cup {NoAuth}
      PROVE  GrantsNoMore
  <2>1. run'.pc = "rewrite" /\ run'.next = e /\ run'.auth = a
    BY <1>1, <1>5 DEF Workers
  <2>2. QED
    BY <1>5, <2>1 DEF GrantsNoMore, DownKnowsNothing
<1>6. /\ NoEntry \in Entries /\ Entry("pending", NoAuth) \in Entries
      /\ \A status, auth : Entry(status, auth).resume = auth
  BY Constants DEF Entry, Entries, Statuses
<1>7. ASSUME NEW v \in Variants, StaleResolved(v)
      PROVE  \A n \in StagingNames : ~Foreign(n)
  BY <1>3, <1>7, AdmittedIsOwn DEF StaleResolved
<1>8. ASSUME NEW w \in Variants, ReconcileStale(w)
      PROVE  ForeignInv' /\ KeepsForeign
  <2>1. CASE StaleResolved(w)
    BY <1>4, <1>6, <1>7, <1>8, <2>1 DEF ReconcileStale
  <2>2. CASE ~StaleResolved(w)
    <3> DEFINE e == Entry("cleanup_pending", saved[w].resume)
    <3>1. run' = [Begin(w, FALSE) EXCEPT !.next = e] /\ UNCHANGED fs
      BY <1>8, <2>2 DEF ReconcileStale
    <3>2. e.resume = saved[w].resume
      BY <1>6
    <3> HIDE DEF e
    <3>3. run'.pc = "rewrite" /\ run'.next = e /\ run'.auth = NoAuth
      BY <1>1, <3>1 DEF Workers
    <3>4. GrantsNoMore
      BY <1>3, <3>2, <3>3 DEF GrantsNoMore, DownKnowsNothing
    <3>5. QED
      BY <1>2, <3>1, <3>4
  <2>3. QED
    BY <2>1, <2>2
<1>9. ASSUME NEW w \in Variants, NEW b \in BOOLEAN, ReconcileCurrent(w, b)
      PROVE  ForeignInv' /\ KeepsForeign
  <2>1. \/ Abort("refused") /\ UNCHANGED fs
        \/ /\ run' = [Begin(w, b) EXCEPT !.next = Entry("completed", NoAuth),
                                         !.auth = NoAuth]
           /\ UNCHANGED fs
        \/ /\ run' = [Begin(w, b) EXCEPT
                        !.next = Entry("pending", saved[w].resume),
                        !.auth = saved[w].resume]
           /\ UNCHANGED fs
        \/ /\ CleanThen([Begin(w, b) EXCEPT !.next = Entry("pending", NoAuth)],
                        StagingNames, "rewrite")
           /\ \/ \E v \in Variants : StaleResolved(v)
              \/ Discardable(w)
    BY <1>9 DEF ReconcileCurrent, Stale
  <2>2. CASE Abort("refused") /\ UNCHANGED fs
    BY <1>2, <2>2, EndsGranting DEF Abort
  <2>3. CASE /\ run' = [Begin(w, b) EXCEPT
                          !.next = Entry("completed", NoAuth),
                          !.auth = NoAuth]
             /\ UNCHANGED fs
    BY <1>2, <1>5, <1>6, <2>3
  <2>4. CASE /\ run' = [Begin(w, b) EXCEPT
                          !.next = Entry("pending", saved[w].resume),
                          !.auth = saved[w].resume]
             /\ UNCHANGED fs
    <3> DEFINE a == saved[w].resume
               e == Entry("pending", a)
    <3>1. run' = [Begin(w, b) EXCEPT !.next = e, !.auth = a] /\ UNCHANGED fs
      BY <2>4
    <3>2. e.resume = a /\ a \in Granted(run, saved, savedDisk)
      BY <1>3, <1>6
    <3> HIDE DEF a, e
    <3>3. GrantsNoMore
      BY <1>5, <3>1, <3>2
    <3>4. QED
      BY <1>2, <3>1, <3>3
  <2>5. CASE /\ CleanThen([Begin(w, b) EXCEPT
                             !.next = Entry("pending", NoAuth)],
                          StagingNames, "rewrite")
             /\ \/ \E v \in Variants : StaleResolved(v)
                \/ Discardable(w)
    <3>1. \A n \in StagingNames : ~Foreign(n)
      BY <1>3, <1>7, <2>5, AdmittedIsOwn DEF Discardable
    <3>2. QED
      BY <1>4, <1>6, <2>5, <3>1
  <2>6. QED
    BY <2>1, <2>2, <2>3, <2>4, <2>5
<1>10. ASSUME NEW w \in Variants, NEW b \in BOOLEAN, UNCHANGED fs,
              run' = [Begin(w, b) EXCEPT !.pc = "attempt"]
       PROVE  ForeignInv' /\ KeepsForeign
  <2>1. run'.pc = "attempt" /\ run'.auth = NoAuth /\ run'.next = NoEntry
    BY <1>1, <1>10 DEF Workers
  <2>2. GrantsNoMore
    BY <2>1 DEF GrantsNoMore, DownKnowsNothing, NoEntry
  <2>3. QED
    BY <1>2, <1>10, <2>2
<1>11. QED
  BY <1>8, <1>9, <1>10 DEF Start

\* The state file grants what the worker wrote.
LEMMA ForeignState ==
    ASSUME TypeOK, AfterIsPlace, ForeignInv, WriteState \/ SyncState
    PROVE  ForeignInv' /\ KeepsForeign
<1>0. run \in Workers /\ run.want \in Variants /\ UNCHANGED fs
      /\ saved \in [Variants -> Entries]
      /\ run'.pc \notin Held
  BY OtherPhases DEF TypeOK, WriteState, SyncState, At
<1>1. CASE WriteState
  <2>1. run'.pc = "sync-state" /\ run'.auth = run.auth /\ run'.next = run.next
    BY <1>0, <1>1 DEF WriteState, Workers
  <2>2. /\ \A v \in Variants : saved'[v] \in {run.next, NoEntry, saved[v]}
        /\ savedDisk' = savedDisk /\ disk' = disk
    BY <1>0, <1>1 DEF WriteState
  <2>3. NoEntry.resume = NoAuth
    BY DEF NoEntry
  <2>4. FileGrantsNoMore
    BY <2>2, <2>3 DEF FileGrantsNoMore, Granted
  <2>5. GrantsNoMore
    BY <2>1 DEF GrantsNoMore, DownKnowsNothing, Granted
  <2>6. QED
    BY <1>0, <2>2, <2>4, <2>5, ForeignUntouched
<1>2. CASE SyncState
  <2>1. saved' = saved /\ savedDisk' = saved /\ disk' = disk
    BY <1>2 DEF SyncState
  <2>2. FileGrantsNoMore
    BY <2>1 DEF FileGrantsNoMore, Granted
  <2>3. GrantsNoMore
    <3>1. CASE run.after = "down"
      BY <1>2, <3>1, EndsGranting DEF SyncState
    <3>2. CASE run.after # "down"
      <4>1. /\ run'.auth = run.auth /\ run'.next = NoEntry
            /\ run'.pc \in {"attempt", "wait"}
        BY <1>0, <1>2, <3>2 DEF SyncState, Workers, AfterIsPlace, At
      <4>2. QED
        BY <4>1, KeepsGranting
    <3>3. QED
      BY <3>1, <3>2
  <2>4. QED
    BY <1>0, <2>1, <2>2, <2>3, ForeignUntouched
<1>3. QED
  BY <1>1, <1>2

\* A worker that holds the names only puts its own there.
LEMMA ForeignHeld ==
    ASSUME ForeignInv, run.pc \in Held,
           \A n \in StagingNames : /\ fs'[n].is # "other"
                                   /\ disk'[n] \in {fs[n], disk[n]},
           run'.pc # "down"
    PROVE  ForeignInv' /\ KeepsForeign
<1>1. \A n \in StagingNames : ~Foreign(n)
  BY HeldIsOwn
<1>2. \A n \in StagingNames : ~Foreign(n)'
  BY <1>1 DEF Foreign
<1>3. QED
  BY <1>1, <1>2, NoForeignFile DEF DownKnowsNothing

\* An attempt touches what is its own only.
LEMMA ForeignAttempt ==
    ASSUME TypeOK, AfterIsPlace, ForeignInv,
           \/ Cancelled \/ Waited \/ SkipExisting \/ RejectExisting
           \/ Admit \/ SaveControl
    PROVE  ForeignInv' /\ KeepsForeign
<1>0. /\ run \in Workers /\ fs \in [Names -> Leaves]
      /\ UNCHANGED <<disk, saved, savedDisk>> /\ FileGrantsNoMore
      /\ run.auth \in Granted(run, saved, savedDisk)
  BY FileUnchanged DEF TypeOK, Cancelled, Waited, SkipExisting,
     RejectExisting, Admit, SaveControl, Granted
<1>1. ASSUME GrantsNoMore, UNCHANGED fs, run'.pc \notin Held
      PROVE  ForeignInv' /\ KeepsForeign
  BY <1>0, <1>1, ForeignUntouched
<1>2. ASSUME NEW status, NEW auth \in {run.auth, NoAuth}, NEW result,
             Conclude(run, status, auth, result), UNCHANGED fs
      PROVE  ForeignInv' /\ KeepsForeign
  BY <1>0, <1>1, <1>2, ConcludeGrants, EndsOfPhases
<1>3. ASSUME NEW result, Abort(result), UNCHANGED fs
      PROVE  ForeignInv' /\ KeepsForeign
  BY <1>0, <1>1, <1>3, EndsGranting, EndsOfPhases DEF Abort, Held
<1>4. ASSUME NEW r \in Workers, NEW after, Admitted(run.auth),
             CleanThen(r, StagingNames, after)
      PROVE  ForeignInv' /\ KeepsForeign
  BY <1>0, <1>4, AdmittedIsOwn, CleanLeavesNone
<1>5. CASE Cancelled
  <2>1. [run EXCEPT !.result = "cancelled"] \in Workers
    BY <1>0 DEF Workers, Results
  <2>2. QED
    BY <1>2, <1>3, <1>4, <1>5, <2>1 DEF Cancelled
<1>6. CASE Waited
  <2>1. run'.pc = "attempt" /\ run'.auth = run.auth /\ run'.next = run.next
        /\ UNCHANGED fs
    BY <1>0, <1>6 DEF Waited, Workers
  <2>2. GrantsNoMore
    BY <2>1, KeepsGranting
  <2>3. QED
    BY <1>1, <2>1, <2>2 DEF Held
<1>7. CASE SkipExisting \/ RejectExisting
  BY <1>0, <1>2, <1>3, <1>4, <1>7 DEF SkipExisting, RejectExisting
<1>8. CASE Admit
  <2>1. CASE Conclude(run, "pending", NoAuth, "failed") /\ UNCHANGED fs
    BY <1>2, <2>1
  <2>2. CASE /\ \/ NamespaceAbsent
                \/ Complete(run.auth)
             /\ fs' \in {fs, [fs EXCEPT !["staging"] = Leaf(Fresh, "part")]}
             /\ run'.pc = "transport"
    <3>1. \A n \in StagingNames : ~Foreign(n)
      BY <1>0, <2>2, AdmittedIsOwn DEF Complete
    <3>2. Leaf(Fresh, "part").is = "part"
      BY DEF Leaf
    <3>3. \A n \in StagingNames : fs'[n].is # "other"
      BY <1>0, <2>2, <3>1, <3>2 DEF Foreign, Names
    <3>4. \A n \in StagingNames : ~Foreign(n)'
      BY <1>0, <3>1, <3>3 DEF Foreign
    <3>5. QED
      BY <2>2, <3>1, <3>4, NoForeignFile DEF DownKnowsNothing
  <2>3. CASE ~(IF run.auth # NoAuth THEN Complete(run.auth)
                                    ELSE NamespaceAbsent)
    BY <1>8, <2>1, <2>3 DEF Admit
  <2>4. CASE IF run.auth # NoAuth THEN Complete(run.auth)
                                  ELSE NamespaceAbsent
    <3>1. run'.pc = "transport"
      BY <1>0, <1>8, <2>4 DEF Admit, Workers
    <3>2. fs' \in {fs, [fs EXCEPT !["staging"] = Leaf(Fresh, "part")]}
      BY <1>8, <2>4 DEF Admit
    <3>3. QED
      BY <2>2, <2>4, <3>1, <3>2
  <2>5. QED
    BY <2>3, <2>4
<1>9. CASE SaveControl
  <2>1. run.pc = "transport" /\ run' = run
        /\ fs' = [fs EXCEPT !["control"] = Leaf(Fresh, "part")]
    BY <1>9 DEF SaveControl, At
  <2>2. \A n \in StagingNames : fs[n].is # "other"
    BY <2>1, HeldIsOwn DEF Held, Foreign
  <2>3. Leaf(Fresh, "part").is = "part"
    BY DEF Leaf
  <2>4. \A n \in StagingNames : fs'[n].is # "other"
    BY <1>0, <2>1, <2>2, <2>3
  <2>5. QED
    BY <1>0, <2>1, <2>4, ForeignHeld DEF Held
<1>10. QED
  BY <1>5, <1>6, <1>7, <1>8, <1>9

\* An answer leaves nothing foreign.
LEMMA ForeignAnswer ==
    ASSUME TypeOK, ForeignInv, Answers
    PROVE  ForeignInv' /\ KeepsForeign
<1>0. run \in Workers /\ fs \in [Names -> Leaves] /\ run.pc = "transport"
      /\ disk' = disk
  BY DEF TypeOK, Answers, At
<1>1. PICK o \in Outcomes : Answer(o)
  BY DEF Answers
<1>2. PICK c \in ControlsLeft(o), d \in Received(o) :
        \/ Loses(o, c, d) \/ Stores(o, c, d)
        \/ Preserves(o, c, d) \/ Cleans(o, c, d)
  BY <1>1, AnswerCases
<1>3. \A n \in StagingNames : fs[n].is # "other"
  BY <1>0, HeldIsOwn DEF Held, Foreign
<1>4. \A i, k : Leaf(i, k).is = k
  BY DEF Leaf
<1>5. c.is # "other"
  BY <1>2, <1>3, <1>4 DEF ControlsLeft, StagingNames, NoLeaf
<1>6. Leaf(run.stg, d).is # "other"
  BY <1>2, <1>4 DEF Received
<1>7. /\ Visible(c, d) \in [Names -> {Visible(c, d)[n] : n \in Names}]
      /\ \A n \in StagingNames : Visible(c, d)[n].is # "other"
  BY <1>0, <1>3, <1>5, <1>6 DEF Visible, Names
<1>8. \A n \in StagingNames : fs'[n].is # "other"
  BY <1>2, <1>7 DEF Loses, LineageFails, Stores, Preserves, Cleans, NoLeaf,
     Names
<1>9. run'.pc # "down"
  BY <1>0, <1>2 DEF Loses, LineageFails, Stores, Preserves, Cleans, Tried,
     Workers
<1>10. QED
  BY <1>0, <1>8, <1>9, ForeignHeld DEF Held

\* Verification and placement handle what the worker holds.
LEMMA ForeignPlace ==
    ASSUME TypeOK, StagedIsProven, ForeignInv,
           \/ TransportBreaks \/ Verify \/ CheckTarget \/ Rename
           \/ PlacementFails \/ SyncPlaced \/ SyncPlacedFails
    PROVE  ForeignInv' /\ KeepsForeign
<1>0. run \in Workers /\ fs \in [Names -> Leaves] /\ run.pc \in Held
  BY DEF TypeOK, TransportBreaks, Verify, CheckTarget, Rename,
     PlacementFails, SyncPlaced, SyncPlacedFails, At, Held
<1>1. \A n \in StagingNames : fs[n].is # "other"
  BY <1>0, HeldIsOwn DEF Foreign
<1>2. run'.pc # "down"
  BY <1>0 DEF TransportBreaks, LineageFails, Verify, CheckTarget, Rename,
     PlacementFails, Unfinished, SyncPlaced, SyncPlacedFails, Workers
<1>3. disk' \in {fs, disk}
  BY DEF TransportBreaks, Verify, CheckTarget, Rename, PlacementFails,
     SyncPlaced, SyncPlacedFails
<1>4. \A n \in StagingNames : fs'[n].is # "other"
  <2> USE <1>0, <1>1 DEF Names, StagingNames, NoLeaf
  <2>1. CASE TransportBreaks
    BY <2>1 DEF TransportBreaks, LineageFails
  <2>2. CASE Verify
    <3>1. CASE UNCHANGED fs \/ Unfinished(fs, "retry")
      BY <3>1 DEF Unfinished
    <3>2. CASE fs' = [fs EXCEPT !["staging"].flushed = TRUE]
      <4>1. fs["staging"] # NoLeaf => fs'["staging"].is = fs["staging"].is
        BY <3>2 DEF Leaves
      <4>2. QED
        BY <2>2, <3>2, <4>1 DEF Verify
    <3>3. QED
      BY <2>2, <3>1, <3>2 DEF Verify
  <2>3. CASE CheckTarget \/ PlacementFails
    BY <2>3 DEF CheckTarget, PlacementFails, Unfinished
  <2>4. CASE Rename
    BY <2>4 DEF Rename, Unfinished
  <2>5. CASE SyncPlaced \/ SyncPlacedFails
    BY <2>5 DEF SyncPlaced, SyncPlacedFails
  <2>6. QED
    BY <2>1, <2>2, <2>3, <2>4, <2>5
<1>5. QED
  BY <1>0, <1>2, <1>3, <1>4, ForeignHeld

\* The end of an attempt.
LEMMA ForeignOutcome ==
    ASSUME TypeOK, AfterIsPlace, ForeignInv,
           CleanSync \/ CleanSyncFails \/ StateWriteFails \/ Settle
    PROVE  ForeignInv' /\ KeepsForeign
<1>0. /\ run \in Workers /\ run.want \in Variants
      /\ UNCHANGED <<fs, saved, savedDisk>> /\ FileGrantsNoMore
      /\ run'.pc \notin Held
      /\ \A n \in StagingNames : disk'[n] \in {fs[n], disk[n]}
  <2>1. run \in Workers /\ run.want \in Variants
    BY DEF TypeOK, CleanSync, CleanSyncFails, StateWriteFails, Settle, At
  <2>2. UNCHANGED <<fs, saved, savedDisk>> /\ FileGrantsNoMore
    BY FileUnchanged DEF CleanSync, CleanSyncFails, StateWriteFails, Settle
  <2>3. \A n \in StagingNames : disk'[n] \in {fs[n], disk[n]}
    BY DEF CleanSync, SyncStaging, CleanSyncFails, StateWriteFails, Settle,
       Names
  <2>4. QED
    BY <2>1, <2>2, <2>3, OtherPhases
<1>1. ASSUME GrantsNoMore
      PROVE  ForeignInv' /\ KeepsForeign
  BY <1>0, <1>1, ForeignUntouched
<1>2. CASE CleanSync
  <2>1. CASE run.after = "down"
    BY <1>1, <1>2, <2>1, EndsGranting DEF CleanSync
  <2>2. CASE run.after # "down"
    <3>1. /\ run'.auth = run.auth /\ run'.next = run.next
          /\ run'.pc = run.after
      BY <1>0, <1>2, <2>2 DEF CleanSync, Workers
    <3>2. GrantsNoMore
      BY <2>2, <3>1, KeepsGranting
    <3>3. QED
      BY <1>1, <3>2
  <2>3. QED
    BY <2>1, <2>2
<1>3. CASE CleanSyncFails
  <2>1. CASE Abort("fatal")
    BY <1>1, <2>1, EndsGranting DEF Abort
  <2>2. CASE run' = [run EXCEPT !.pc = "failed"]
    <3>1. run'.auth = run.auth /\ run'.next = run.next /\ run'.pc = "failed"
      BY <1>0, <2>2 DEF Workers
    <3>2. QED
      BY <1>1, <3>1, KeepsGranting
  <2>3. CASE run' = [run EXCEPT !.pc = "rewrite",
                       !.next = Entry("cleanup_pending",
                                      saved[run.want].resume)]
    <3>1. /\ run'.auth = run.auth /\ run'.pc = "rewrite"
          /\ run'.next = Entry("cleanup_pending", saved[run.want].resume)
      BY <1>0, <2>3 DEF Workers
    <3>2. run'.next.resume = saved[run.want].resume
      BY <3>1 DEF Entry
    <3>3. GrantsNoMore
      BY <1>0, <3>1, <3>2 DEF GrantsNoMore, DownKnowsNothing, Granted
    <3>4. QED
      BY <1>1, <3>3
  <2>4. QED
    BY <1>3, <2>1, <2>2, <2>3 DEF CleanSyncFails
<1>4. CASE StateWriteFails
  BY <1>1, <1>4, EndsGranting DEF StateWriteFails, Abort
<1>5. CASE Settle
  <2>1. ASSUME NEW status, NEW auth \in {run.auth, NoAuth}, NEW result,
               Conclude(run, status, auth, result)
        PROVE  ForeignInv' /\ KeepsForeign
    BY <1>0, <1>1, <2>1, ConcludeGrants
  <2>2. ASSUME NEW r \in Workers, r.auth = run.auth, r.next = run.next,
               NEW place \in {"wait", "attempt"}, TryAgain(r, place)
        PROVE  ForeignInv' /\ KeepsForeign
    <3>1. \/ /\ run'.pc = "write" /\ run'.auth = run.auth
             /\ run'.next = Entry("pending", run.auth)
          \/ /\ run'.pc = place /\ run'.auth = run.auth
             /\ run'.next = run.next
      BY <2>2 DEF TryAgain, Workers
    <3>2. Entry("pending", run.auth).resume = run.auth
      BY DEF Entry
    <3>3. GrantsNoMore
      BY <3>1, <3>2 DEF GrantsNoMore, DownKnowsNothing, Granted
    <3>4. QED
      BY <1>1, <3>3
  <2>3. /\ [run EXCEPT !.allow = FALSE, !.fallback = TRUE] \in Workers
        /\ [run EXCEPT !.allow = FALSE, !.fallback = TRUE].auth = run.auth
        /\ [run EXCEPT !.allow = FALSE, !.fallback = TRUE].next = run.next
    BY <1>0 DEF Workers
  <2>4. \/ \E status, result : \E auth \in {run.auth, NoAuth} :
             Conclude(run, status, auth, result)
        \/ TryAgain(run, "wait")
        \/ TryAgain([run EXCEPT !.allow = FALSE, !.fallback = TRUE],
                    "attempt")
    BY <1>5 DEF Settle
  <2>5. QED
    BY <1>0, <2>1, <2>2, <2>3, <2>4
<1>6. QED
  BY <1>2, <1>3, <1>4, <1>5

\* The user's target is none of the staging names.
LEMMA ForeignTarget ==
    ASSUME ForeignInv, TargetChanges
    PROVE  ForeignInv' /\ KeepsForeign
<1>1. /\ run' = run /\ saved' = saved /\ savedDisk' = savedDisk
      /\ Granted(run', saved', savedDisk') = Granted(run, saved, savedDisk)
  BY DEF TargetChanges
<1>2. \A n \in StagingNames : fs'[n] = fs[n] /\ disk'[n] = disk[n]
  <2>1. PICK leaf \in {NoLeaf, Leaf(Another, "other")} :
          /\ fs' = [fs EXCEPT !["target"] = leaf]
          /\ disk' = [disk EXCEPT !["target"] = leaf]
    BY DEF TargetChanges
  <2>2. QED
    BY <2>1 DEF StagingNames
<1>3. ForeignApart'
  <2>1. ASSUME NEW n \in StagingNames, Foreign(n)'
        PROVE  /\ disk'[n] = fs'[n]
               /\ \A a \in Granted(run', saved', savedDisk') :
                    a.stg # fs'[n].ino /\ a.ctl # fs'[n].ino
               /\ run'.pc \notin Held
    <3>1. Foreign(n)
      BY <1>2, <2>1 DEF Foreign
    <3>2. QED
      BY <1>1, <1>2, <3>1 DEF ForeignInv, ForeignApart
  <2>2. QED
    BY <2>1 DEF ForeignApart
<1>4. DownKnowsNothing(run')
  BY <1>1 DEF ForeignInv
<1>5. QED
  BY <1>2, <1>3, <1>4 DEF ForeignInv, KeepsForeign

\* Somebody else's file comes with an inode that nothing refers to.
LEMMA ForeignArrives ==
    ASSUME TypeOK, ForeignInv, StagingChanges
    PROVE  ForeignInv' /\ KeepsForeign
<1>1. /\ run' = run /\ saved' = saved /\ savedDisk' = savedDisk
      /\ Granted(run', saved', savedDisk') = Granted(run, saved, savedDisk)
      /\ run.pc = "down" /\ faults' # faults
  BY DEF TypeOK, StagingChanges, Fault, At
<1>2. PICK m \in StagingNames, leaf \in {NoLeaf, Leaf(Another, "other")} :
        /\ fs' = [fs EXCEPT ![m] = leaf]
        /\ disk' = [disk EXCEPT ![m] = leaf]
  BY DEF StagingChanges
<1>3. \A n \in StagingNames :
        IF n = m THEN fs'[n] = leaf /\ disk'[n] = leaf
                 ELSE fs'[n] = fs[n] /\ disk'[n] = disk[n]
  BY <1>2 DEF TypeOK, Names
<1>4. \A a \in Granted(run, saved, savedDisk) :
        a.stg # Another /\ a.ctl # Another
  <2>1. run.auth = NoAuth /\ run.next.resume = NoAuth
    BY <1>1 DEF ForeignInv, DownKnowsNothing, NoEntry
  <2>2. \A v \in Variants :
          {saved[v].resume.stg, saved[v].resume.ctl,
           savedDisk[v].resume.stg, savedDisk[v].resume.ctl} \subseteq InUse
    BY DEF InUse
  <2>3. Another \notin InUse /\ Another # 0
    BY FreshIsNew, InodesSuffice
  <2>4. QED
    BY <2>1, <2>2, <2>3 DEF Granted, NoAuth
<1>5. ASSUME NEW n \in StagingNames, Foreign(n)'
      PROVE  /\ disk'[n] = fs'[n]
             /\ \A a \in Granted(run', saved', savedDisk') :
                  a.stg # fs'[n].ino /\ a.ctl # fs'[n].ino
             /\ run'.pc \notin Held
  <2>1. CASE n # m
    <3>1. Foreign(n)
      BY <1>3, <1>5, <2>1 DEF Foreign
    <3>2. QED
      BY <1>1, <1>3, <2>1, <3>1 DEF ForeignInv, ForeignApart
  <2>2. CASE n = m
    <3>1. leaf = Leaf(Another, "other")
      BY <1>3, <1>5, <2>2 DEF Foreign, NoLeaf
    <3>2. leaf.ino = Another
      BY <3>1 DEF Leaf
    <3>3. QED
      BY <1>1, <1>3, <1>4, <2>2, <3>2 DEF Held
  <2>3. QED
    BY <2>1, <2>2
<1>6. ForeignApart'
  BY <1>5 DEF ForeignApart
<1>7. DownKnowsNothing(run')
  BY <1>1 DEF ForeignInv
<1>8. QED
  BY <1>1, <1>6, <1>7 DEF ForeignInv, KeepsForeign

\* A crash loses nobody else's file, and grants nothing.
LEMMA ForeignCrash ==
    ASSUME TypeOK, ForeignInv, Crash
    PROVE  ForeignInv' /\ KeepsForeign
<1>1. /\ run' = [Idle EXCEPT !.result = "crashed"] /\ disk' = fs'
      /\ faults' # faults /\ run'.pc \notin Held
  BY DEF TypeOK, Crash, Fault, Idle, Held
<1>2. GrantsNoMore
  BY <1>1, EndsGranting
<1>3. FileGrantsNoMore
  BY DEF Crash, FileGrantsNoMore, Granted
<1>4. Granted(run', saved', savedDisk')
        \subseteq Granted(run, saved, savedDisk) \cup {NoAuth}
  BY <1>2, <1>3 DEF GrantsNoMore, FileGrantsNoMore, Granted
<1>5. \A n \in StagingNames : fs'[n] \in {Torn(fs[n]), Torn(disk[n])}
  BY DEF Crash, Names
<1>6. ASSUME NEW n \in StagingNames, Foreign(n)'
      PROVE  /\ disk'[n] = fs'[n]
             /\ \A a \in Granted(run', saved', savedDisk') :
                  a.stg # fs'[n].ino /\ a.ctl # fs'[n].ino
  <2>1. fs'[n].is = "other"
    BY <1>1, <1>6 DEF Foreign
  <2>2. \A l \in Leaves : Torn(l).is = "other" => Torn(l) = l
    BY DEF Torn, Leaves, NoLeaf
  <2>3. Foreign(n)
    BY <1>5, <2>1, <2>2 DEF TypeOK, Names, Foreign
  <2>4. /\ disk[n] = fs[n] /\ fs[n].is = "other"
        /\ \A a \in Granted(run, saved, savedDisk) :
             a.stg # fs[n].ino /\ a.ctl # fs[n].ino
    BY <2>3 DEF ForeignInv, ForeignApart, Foreign
  <2>5. fs'[n] = fs[n]
    BY <1>5, <2>1, <2>2, <2>4 DEF TypeOK, Names
  <2>6. fs[n].ino # 0
    BY <2>4 DEF TypeOK, Names, Leaves, NoLeaf
  <2>7. NoAuth.stg # fs[n].ino /\ NoAuth.ctl # fs[n].ino
    BY <2>6 DEF NoAuth
  <2>8. QED
    BY <1>1, <1>4, <2>4, <2>5, <2>7
<1>7. ForeignApart'
  BY <1>1, <1>6 DEF ForeignApart
<1>8. QED
  BY <1>1, <1>2, <1>7 DEF ForeignInv, GrantsNoMore, KeepsForeign

\* Every step leaves foreign files alone and unnamed.
LEMMA ForeignStep ==
    ASSUME TransferInv, ForeignInv, [Next]_vars
    PROVE  ForeignInv' /\ KeepsForeign
<1>0. TypeOK /\ AfterIsPlace /\ StagedIsProven
  BY DEF TransferInv
<1>1. CASE Start
  BY <1>0, <1>1, ForeignStart
<1>2. CASE WriteState \/ SyncState
  BY <1>0, <1>2, ForeignState
<1>3. CASE \/ Cancelled \/ Waited \/ SkipExisting \/ RejectExisting
           \/ Admit \/ SaveControl
  BY <1>0, <1>3, ForeignAttempt
<1>4. CASE Answers
  BY <1>0, <1>4, ForeignAnswer
<1>5. CASE \/ TransportBreaks \/ Verify \/ CheckTarget \/ Rename
           \/ PlacementFails \/ SyncPlaced \/ SyncPlacedFails
  BY <1>0, <1>5, ForeignPlace
<1>6. CASE CleanSync \/ CleanSyncFails \/ StateWriteFails \/ Settle
  BY <1>0, <1>6, ForeignOutcome
<1>7. CASE TargetChanges
  BY <1>7, ForeignTarget
<1>8. CASE StagingChanges
  BY <1>0, <1>8, ForeignArrives
<1>9. CASE Crash
  BY <1>0, <1>9, ForeignCrash
<1>10. CASE UNCHANGED vars
  BY <1>10 DEF vars, ForeignInv, ForeignApart, DownKnowsNothing, Foreign,
               Granted, KeepsForeign
<1>11. QED
  BY <1>1, <1>2, <1>3, <1>4, <1>5, <1>6, <1>7, <1>8, <1>9, <1>10 DEF Next

-----------------------------------------------------------------------------
(* The theorems.                                                           *)

\* The leaf that may be there before the first start.
LEMMA FirstLeaf ==
    ASSUME NEW t \in {NoLeaf, Leaf(1, "old")}
    PROVE  /\ t \in Leaves /\ t.is \in {"absent", "old"}
           /\ t.flushed /\ Torn(t) = t
<1>1. Leaf(1, "old") \in Leaves
  BY InodesSuffice, NewLeaves DEF Contents
<1>2. "old" \notin {"good", "bad"}
  OBVIOUS
<1>3. Leaf(1, "old") = [ino |-> 1, is |-> "old", flushed |-> TRUE]
  BY <1>2, Zenon DEF Leaf
<1>4. CASE t = NoLeaf
  BY <1>4, Constants, FlushedIsWhole DEF NoLeaf
<1>5. CASE t = Leaf(1, "old")
  BY <1>1, <1>3, <1>5, FlushedIsWhole
<1>6. QED
  BY <1>4, <1>5

LEMMA InitInv == Init => TransferInv
<1>1. SUFFICES ASSUME Init PROVE TransferInv
  OBVIOUS
<1>2. PICK t \in {NoLeaf, Leaf(1, "old")} :
        fs = [n \in Names |-> IF n = "target" THEN t ELSE NoLeaf]
  BY <1>1 DEF Init
<1>3. /\ disk = fs /\ saved = [v \in Variants |-> NoEntry]
      /\ savedDisk = saved /\ run = Idle /\ starts = 0 /\ faults = 0
      /\ req \in [overwrite : BOOLEAN, checksum : BOOLEAN,
                  owner : {"runtime", "build"}]
  BY <1>1 DEF Init
<1>4. t \in Leaves /\ t.is \in {"absent", "old"} /\ t.flushed
  BY <1>2, FirstLeaf
<1>5. fs \in [Names -> Leaves] /\ fs["target"] = t
      /\ \A n \in StagingNames : fs[n] = NoLeaf
  BY <1>2, <1>4, Constants DEF Names, StagingNames
<1>6. /\ run.pc = "down" /\ run.result = "none" /\ run.allow = FALSE
      /\ run.auth = NoAuth /\ run.next = NoEntry
  BY <1>3 DEF Idle
<1>7. TypeOK
  BY <1>3, <1>5, <1>6, Constants DEF TypeOK
<1>8. TargetIsWhole
  BY <1>3, <1>4, <1>5 DEF TargetIsWhole, Target!TargetContents
<1>9. StagedIsProven /\ HoldsStaging /\ ReplacesOnlyIfAsked /\ AfterIsPlace
      /\ ResultComesLast
  BY <1>6 DEF StagedIsProven, HoldsStaging, ReplacesOnlyIfAsked,
              AfterIsPlace, ResultComesLast
<1>10. PlacedIsDurable
  BY <1>3 DEF PlacedIsDurable
<1>11. StateIsValid
  BY <1>3, <1>6 DEF StateIsValid, ValidFile, OneEntry, ValidEntry,
                    AuthorityIsAria, AriaOnly, SoleEntry, Rewritten,
                    BuildKeepsNoState, NoEntry
<1>12. FaultlessIsAccounted
  <2>1. Empty(fs)
    BY <1>5 DEF Empty, NoLeaf
  <2>2. fs["temp"].ino = 0
    BY <2>1 DEF Empty, StagingNames
  <2>3. QED
    BY <1>6, <2>1, <2>2
       DEF FaultlessIsAccounted, Ordinary, Accounted, Recoverable
<1>13. QED
  BY <1>7, <1>8, <1>9, <1>10, <1>11, <1>12 DEF TransferInv

\* Nothing foreign is there before the first start.
LEMMA ForeignInit == Init => ForeignInv
<1>1. SUFFICES ASSUME Init PROVE ForeignInv
  OBVIOUS
<1>2. PICK t \in {NoLeaf, Leaf(1, "old")} :
        fs = [n \in Names |-> IF n = "target" THEN t ELSE NoLeaf]
  BY <1>1 DEF Init
<1>3. \A n \in StagingNames : fs[n].is = "absent" /\ disk[n] = fs[n]
  BY <1>1, <1>2 DEF Init, Names, StagingNames, NoLeaf
<1>4. \A n \in StagingNames : ~Foreign(n)
  BY <1>3 DEF Foreign
<1>5. run.auth = NoAuth /\ run.next = NoEntry
  BY <1>1 DEF Init, Idle
<1>6. QED
  BY <1>4, <1>5 DEF ForeignInv, ForeignApart, DownKnowsNothing

LEMMA InvStep == TransferInv /\ [Next]_vars => TransferInv'
<1>1. SUFFICES ASSUME TransferInv, [Next]_vars PROVE TransferInv'
  OBVIOUS
<1>2. HeldInv
  BY <1>1 DEF TransferInv, HeldInv
<1>3. TypeOK'
  BY <1>1, TypesStep DEF TransferInv
<1>4. HeldInv'
  BY <1>1, <1>2, HeldStep DEF TransferInv
<1>5. TargetIsWhole'
  BY <1>1, TargetStep DEF TransferInv
<1>6. StateIsValid'
  BY <1>1, StateStep DEF TransferInv
<1>7. ResultComesLast' /\ PlacedIsDurable'
  BY <1>1, ReportStep, DurableStep DEF TransferInv
<1>8. FaultlessIsAccounted'
  BY <1>1, FaultlessStep DEF TransferInv
<1>9. QED
  BY <1>3, <1>4, <1>5, <1>6, <1>7, <1>8 DEF TransferInv, HeldInv

\* The invariant holds throughout: one desired file's transfer, whatever
\* fails around it (coordinate_transfer_attempts, reconcile_runtime_state).
THEOREM InvariantHolds == Spec => []TransferInv
BY InitInv, InvStep, PTL DEF Spec

\* Every variable has its type, whatever the bounds: attempts are counted,
\* inode numbers suffice, and no leaf is torn out of its type.
THEOREM TypesHold == Spec => []TypeOK
<1>1. TransferInv => TypeOK
  BY DEF TransferInv
<1>2. QED
  BY <1>1, InvariantHolds, PTL

\* A download reported as such survives a crash: _verify_and_place syncs
\* both directories, and _inspect_staged_file has flushed the data, before
\* the state file says completed.
THEOREM ReportedIsDurable == Spec => []DownloadedIsDurable
<1>1. TransferInv => DownloadedIsDurable
  BY DurableSuffices DEF TransferInv
<1>2. QED
  BY <1>1, InvariantHolds, PTL

\* The persisted entries stay readable and unambiguous through retries,
\* resumptions and crashes (_validate_runtime_state_entries).
THEOREM EntriesStayValid == Spec => []StateStaysValid
<1>1. TransferInv => StateStaysValid
  BY StateIsValidSuffices DEF TransferInv
<1>2. QED
  BY <1>1, InvariantHolds, PTL

\* A worker that met no fault leaves no artifact without an authority, and
\* no start after it is refused (coordinate_transfer_attempts,
\* _current_resume_authority).
THEOREM WorkerCleansUp == Spec => []NothingOrphaned
<1>1. QED
  BY FaultlessSuffices, InvariantHolds, PTL

\* The transfer implements AtomicTarget: a reader of the final path never
\* finds a partial or a wrong file, not after a crash either, and existing
\* content is replaced only where that was asked for.
THEOREM PathIsAtomic == Spec => ImplementsAtomicTarget
<1>1. Init => Target!Init
  <2>1. SUFFICES ASSUME Init PROVE Target!Init
    OBVIOUS
  <2>2. PICK t \in {NoLeaf, Leaf(1, "old")} :
          fs = [n \in Names |-> IF n = "target" THEN t ELSE NoLeaf]
    BY <2>1 DEF Init
  <2>3. fs["target"] = t /\ disk = fs /\ req.overwrite \in BOOLEAN
    BY <2>1, <2>2 DEF Init, Names
  <2>4. t.is \in {"absent", "old"} /\ Torn(t) = t
    BY <2>2, FirstLeaf
  <2>5. QED
    BY <2>3, <2>4 DEF Target!Init, Seen
<1>2. TransferInv /\ TransferInv' /\ [Next]_vars
        => [Target!Next]_(Target!targetVars)
  BY TargetRefines DEF TransferInv
<1>3. QED
  BY <1>1, <1>2, InvariantHolds, PTL DEF Spec, ImplementsAtomicTarget,
                                         Target!Spec

\* The worker neither removes nor adopts nor writes a file of somebody else
\* under a staging name, whatever it resumes, cleans or retries
\* (_admit_cleanup_leaf, _admit_staging, _unlink_owned_leaf): the
\* authorities it acts on name its own files only.
THEOREM ForeignFilesKept == Spec => ForeignKept
<1>1. TransferInv /\ ForeignInv /\ [Next]_vars
        => ForeignInv' /\ [KeepsForeign]_vars
  BY ForeignStep
<1>2. Spec => []ForeignInv
  BY <1>1, ForeignInit, InvariantHolds, PTL DEF Spec
<1>3. Spec => [][KeepsForeign]_vars
  BY <1>1, <1>2, InvariantHolds, PTL DEF Spec
<1>4. QED
  BY <1>3 DEF KeepsForeign, ForeignKept
=============================================================================
