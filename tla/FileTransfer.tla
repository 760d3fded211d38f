---------------------------- MODULE FileTransfer ----------------------------
(***************************************************************************)
(* One desired file of src/comfyui_docker_helper/container: the transfer   *)
(* core (transfer/core.py), the attempt coordinator                        *)
(* (transfer/coordinator.py), its build and runtime callers                *)
(* (build/downloads.py, runtime/files/download.py), the reconciliation     *)
(* with the persisted state at every start (runtime/files/                 *)
(* reconciliation.py) and the state file (runtime/state.py,                *)
(* runtime/download_state.py).                                             *)
(*                                                                         *)
(* A directory name holds a leaf: an inode, its content, and whether the   *)
(* content was flushed.  "fs" is what processes see, "disk" what a crash   *)
(* leaves of the directories.  An inode number is not given out again      *)
(* while a name, a descriptor or the state file refers to it.              *)
(***************************************************************************)
EXTENDS Integers, FiniteSets

CONSTANTS MaxAttempts,   \* download_max_attempts of the configuration
          MaxStarts,     \* bound: worker starts
          MaxFaults,     \* bound: crashes, I/O errors and outside changes
          FaultKinds,    \* which: "crash", "io", "user", "target", "staging"
          MaxInode       \* bound: inode numbers

ASSUME TransferBounds == /\ MaxAttempts \in Nat \ {0} /\ MaxStarts \in Nat
                         /\ MaxFaults \in Nat

(* Eighteen places refer to an inode, and an action takes up to two more. *)
ASSUME InodesSuffice == MaxInode \in Nat /\ MaxInode >= 20

VARIABLES fs,         \* visible leaf of each name
          disk,       \* durable leaf of each name
          saved,      \* the state file: per identity variant, its entry
          savedDisk,  \* the state file a crash leaves
          req,        \* the desired file: overwrite, checksum, owner
          run,        \* the worker: its place and its local variables
          starts,     \* counts worker starts
          faults      \* counts faults

vars == <<fs, disk, saved, savedDisk, req, run, starts, faults>>

StagingNames == {"staging", "control", "temp"}
Names == StagingNames \cup {"target"}
Variants == {"httpx", "aria2"}       \* the downloader is part of the identity

NoLeaf == [ino |-> 0, is |-> "absent", flushed |-> TRUE]
Leaf(i, c) == [ino |-> i, is |-> c, flushed |-> c \notin {"good", "bad"}]
NoAuth == [stg |-> 0, ctl |-> 0]
NoEntry == [status |-> "none", resume |-> NoAuth]
Entry(s, a) == [status |-> s, resume |-> a]
Present(n) == fs[n].ino # 0

(* An inode number that nothing refers to, and a second one. *)
InUse == {fs[n].ino : n \in Names} \cup {disk[n].ino : n \in Names}
           \cup {run.stg, run.ctl}
           \cup UNION {{saved[v].resume.stg, saved[v].resume.ctl,
                        savedDisk[v].resume.stg, savedDisk[v].resume.ctl} :
                       v \in Variants}
Fresh == CHOOSE i \in 1..MaxInode : i \notin InUse
Another == CHOOSE i \in 1..MaxInode : i \notin InUse \cup {Fresh}

Idle == [pc |-> "down", want |-> "none", resume |-> FALSE, attempts |-> 0,
         allow |-> FALSE, fallback |-> FALSE, auth |-> NoAuth, stg |-> 0,
         ctl |-> 0, initial |-> NoLeaf, next |-> NoEntry, after |-> "down",
         result |-> "none"]

Init ==
  \E t \in {NoLeaf, Leaf(1, "old")} :
    /\ fs = [n \in Names |-> IF n = "target" THEN t ELSE NoLeaf]
    /\ disk = fs
    /\ saved = [v \in Variants |-> NoEntry]
    /\ savedDisk = saved
    /\ req \in [overwrite : BOOLEAN, checksum : BOOLEAN,
                owner : {"runtime", "build"}]
    /\ req.owner = "build" => req.overwrite
    /\ run = Idle
    /\ starts = 0
    /\ faults = 0

At(pc) == run.pc = pc
Fault(kind) == kind \in FaultKinds /\ faults < MaxFaults /\ faults' = faults + 1
Same(S) == [n \in Names |-> IF n \in S THEN NoLeaf ELSE fs[n]]
Owned == req.owner = "runtime"      \* the runtime owns the continuation

-----------------------------------------------------------------------------
(* Steps of the worker that end a phase.                                   *)

ConcludeForgets(r, status, auth, result) ==   \* mutant
  run' = IF Owned
         THEN [r EXCEPT !.pc = "write", !.next = Entry(status, NoAuth),
                        !.after = "down", !.result = result]
         ELSE [Idle EXCEPT !.result = result]

(* The runtime records the outcome in the state file before anything else; *)
(* the build only raises or returns it.                                    *)
Conclude(r, status, auth, result) ==
  run' = IF Owned
         THEN [r EXCEPT !.pc = "write", !.next = Entry(status, auth),
                        !.after = "down", !.result = result]
         ELSE [Idle EXCEPT !.result = result]

(* A failure that leaves the state file as it is. *)
Abort(result) == run' = [Idle EXCEPT !.result = result]

(* Unlink owned leaves now, make it durable in CleanSync, then go on. *)
CleanThen(r, names, after) ==
  /\ fs' = Same(names)
  /\ run' = [r EXCEPT !.pc = "clean", !.after = after, !.stg = 0, !.ctl = 0]

-----------------------------------------------------------------------------
(* A start: reconcile the persisted entries with what is desired.          *)

NamespaceAbsent == \A n \in StagingNames : ~Present(n)

(* Every existing artifact is the one the authority names. *)
Admitted(a) == /\ ~Present("temp")
               /\ Present("staging") => fs["staging"].ino = a.stg
               /\ Present("control") => fs["control"].ino = a.ctl

Complete(a) == Admitted(a) /\ Present("staging") /\ Present("control")

(* A stale entry is dropped once its artifacts are gone. *)
StaleResolved(v) == \/ NamespaceAbsent
                    \/ saved[v].resume # NoAuth /\ Admitted(saved[v].resume)

Stale(want) == {v \in Variants : saved[v] # NoEntry /\ v # want}

AlreadyComplete(want) == /\ saved[want].status = "completed"
                         /\ Present("target") /\ ~req.checksum

MayResume(want, resume) ==
  /\ saved[want].resume # NoAuth /\ Complete(saved[want].resume)
  /\ want = "aria2" /\ resume /\ saved[want].status # "cleanup_pending"

Discardable(want) == \/ saved[want].resume = NoAuth /\ NamespaceAbsent
                     \/ saved[want].resume # NoAuth /\ Admitted(saved[want].resume)

Begin(want, resume) ==
  [Idle EXCEPT !.want = want, !.resume = resume, !.pc = "rewrite",
               !.allow = (want = "aria2" /\ resume)]

(* The identity is not in the plan any more: clean up after it, or keep    *)
(* its entry as pending cleanup when that is not possible.                 *)
ReconcileStale(v) ==
  LET r == Begin(v, FALSE) IN
  /\ saved[v] # NoEntry
  /\ IF StaleResolved(v)
     THEN CleanThen([r EXCEPT !.next = NoEntry], StagingNames, "rewrite")
     ELSE /\ run' = [r EXCEPT !.next = Entry("cleanup_pending", saved[v].resume)]
          /\ UNCHANGED fs

(* The identity is planned: refuse, keep, resume, or discard and restart. *)
ReconcileCurrent(want, resume) ==
  LET r == Begin(want, resume)
      go(entry, auth) == /\ run' = [r EXCEPT !.next = entry, !.auth = auth]
                         /\ UNCHANGED fs
  IN
  IF \E v \in Stale(want) : ~StaleResolved(v)
  THEN Abort("refused") /\ UNCHANGED fs
  ELSE IF AlreadyComplete(want)
  THEN go(Entry("completed", NoAuth), NoAuth)
  ELSE IF MayResume(want, resume)
  THEN go(Entry("pending", saved[want].resume), saved[want].resume)
  ELSE IF Stale(want) = {} /\ ~Discardable(want)
  THEN Abort("refused") /\ UNCHANGED fs
  ELSE CleanThen([r EXCEPT !.next = Entry("pending", NoAuth)],
                 StagingNames, "rewrite")

(* The worker of a runtime generation, or the build phase. *)
Start ==
  /\ At("down") /\ starts < MaxStarts /\ starts' = starts + 1
  /\ \/ /\ Owned
        /\ \E w \in Variants, r \in BOOLEAN :
             ReconcileStale(w) \/ ReconcileCurrent(w, r)
     \/ /\ ~Owned /\ starts = 0
        /\ \E w \in Variants, r \in BOOLEAN :
             run' = [Begin(w, r) EXCEPT !.pc = "attempt"]
        /\ UNCHANGED fs
  /\ UNCHANGED <<disk, saved, savedDisk, req, faults>>

-----------------------------------------------------------------------------
(* The state file: temporary file, rename, directory sync.                 *)

Unscheduled == run.pc = "rewrite" /\ run.next.status # "pending"

WriteStateMerges ==   \* mutant
  /\ run.pc \in {"rewrite", "write"}
  /\ saved' = [saved EXCEPT ![run.want] = run.next]
  /\ run' = [run EXCEPT !.pc = "sync-state",
               !.after = IF Unscheduled THEN "down"
                         ELSE IF At("rewrite") THEN "attempt" ELSE run.after]
  /\ UNCHANGED <<fs, disk, savedDisk, req, starts, faults>>

WriteState ==
  /\ run.pc \in {"rewrite", "write"}
  /\ LET file == IF At("rewrite")
                 THEN [v \in Variants |-> IF v = run.want THEN run.next ELSE NoEntry]
                 ELSE [saved EXCEPT ![run.want] = run.next]
         after == IF Unscheduled THEN "down"
                  ELSE IF At("rewrite") THEN "attempt" ELSE run.after
     IN /\ saved' = file
        /\ run' = [run EXCEPT !.pc = "sync-state", !.after = after]
  /\ UNCHANGED <<fs, disk, savedDisk, req, starts, faults>>

SyncState ==
  /\ At("sync-state")
  /\ savedDisk' = saved
  /\ run' = IF run.after = "down" THEN [Idle EXCEPT !.result = run.result]
            ELSE [run EXCEPT !.pc = run.after, !.next = NoEntry, !.after = "down"]
  /\ UNCHANGED <<fs, disk, saved, req, starts, faults>>

(* RuntimeStateError ends the worker, before or after the rename. *)
StateWriteFails ==
  /\ run.pc \in {"rewrite", "write", "sync-state"} /\ Fault("io")
  /\ Abort("fatal")
  /\ UNCHANGED <<fs, disk, saved, savedDisk, req, starts>>

-----------------------------------------------------------------------------
(* One attempt: existing target, staging admission, transport.             *)

Skippable == /\ Present("target")
             /\ IF req.checksum THEN fs["target"].is = "good" ELSE ~req.overwrite
Rejected == /\ Present("target") /\ req.checksum
            /\ fs["target"].is # "good" /\ ~req.overwrite

(* cancel_requested() holds at the head of an attempt, or during the wait. *)
Cancelled ==
  /\ run.pc \in {"attempt", "wait"}
  /\ IF Owned \/ run.auth = NoAuth
     THEN Conclude(run, "pending", run.auth, "cancelled") /\ UNCHANGED fs
     ELSE IF Admitted(run.auth)
     THEN CleanThen([run EXCEPT !.result = "cancelled"], StagingNames, "down")
     ELSE Abort("failed") /\ UNCHANGED fs
  /\ UNCHANGED <<disk, saved, savedDisk, req, starts, faults>>

Waited ==
  /\ At("wait")
  /\ run' = [run EXCEPT !.pc = "attempt"]
  /\ UNCHANGED <<fs, disk, saved, savedDisk, req, starts, faults>>

(* The existing target is the outcome; a kept partial is discarded first. *)
SkipExisting ==
  /\ At("attempt") /\ Skippable
  /\ IF run.auth = NoAuth
     THEN Conclude(run, "completed", NoAuth, "skipped") /\ UNCHANGED fs
     ELSE IF Admitted(run.auth)
     THEN CleanThen(run, StagingNames, "skipped")
     ELSE Abort("fatal") /\ UNCHANGED fs
  /\ UNCHANGED <<disk, saved, savedDisk, req, starts, faults>>

RejectExisting ==
  /\ At("attempt") /\ Rejected
  /\ Conclude(run, "pending", NoAuth, "failed")
  /\ UNCHANGED <<fs, disk, saved, savedDisk, req, starts, faults>>

(* A clean start creates the staging leaf; a resume must find both leaves  *)
(* of its authority.  Anything else in the way fails the item.             *)
Admit ==
  LET resumes == run.auth # NoAuth
      admitted == IF resumes THEN Complete(run.auth) ELSE NamespaceAbsent
      leaf == Leaf(Fresh, "part")
  IN
  /\ At("attempt") /\ ~Skippable /\ ~Rejected
  /\ IF ~admitted THEN Conclude(run, "pending", NoAuth, "failed") /\ UNCHANGED fs
     ELSE /\ fs' = IF resumes THEN fs ELSE [fs EXCEPT !["staging"] = leaf]
          /\ run' = [run EXCEPT !.pc = "transport", !.initial = fs["target"],
                       !.stg = IF resumes THEN run.auth.stg ELSE leaf.ino,
                       !.ctl = run.auth.ctl]
  /\ UNCHANGED <<disk, saved, savedDisk, req, starts, faults>>

(* aria2 keeps its control file next to the partial while it transfers. *)
SaveControl ==
  /\ At("transport") /\ run.want = "aria2" /\ ~Present("control")
  /\ fs' = [fs EXCEPT !["control"] = Leaf(Fresh, "part")]
  /\ UNCHANGED <<disk, saved, savedDisk, req, run, starts, faults>>

-----------------------------------------------------------------------------
(* The transport answers: one outcome, and what it left of its control.    *)

PreserveOnRetryable == run.allow /\ (Owned \/ run.attempts + 1 < MaxAttempts)
PreserveOnCancelled == run.allow /\ Owned

(* The control file after the answer: left alone, removed by aria2, or     *)
(* replaced by a newer generation.                                         *)
ControlsLeft(outcome) ==
  IF run.want = "httpx" THEN {fs["control"]}
  ELSE IF outcome = "success" THEN {NoLeaf, fs["control"]}
  ELSE {fs["control"], NoLeaf} \cup {Leaf(Fresh, "part")}

Received(outcome) ==
  IF outcome = "success"
  THEN {"good", "part"} \cup (IF req.checksum THEN {"bad"} ELSE {})
  ELSE {"part"}

TargetUnchanged == fs["target"] = run.initial

(* The failed lineage proof cleans the held staging leaf only. *)
LineageFails(visible) ==
  /\ fs' = [visible EXCEPT !["staging"] = NoLeaf]
  /\ run' = [run EXCEPT !.pc = "clean", !.after = "failed", !.stg = 0, !.ctl = 0]

(* A retryable answer: keep the partial with its authority, or clean it.   *)
(* Whether another attempt follows is decided once that is settled.        *)
Answer(outcome) ==
  LET r == [run EXCEPT !.attempts = @ + 1, !.auth = NoAuth] IN
  \E c \in ControlsLeft(outcome), d \in Received(outcome) :
    LET visible == [fs EXCEPT !["control"] = c, !["staging"] = Leaf(run.stg, d)]
        keep == \/ outcome = "retry" /\ PreserveOnRetryable
                \/ outcome = "cancel" /\ PreserveOnCancelled
        clean(after) ==
          /\ fs' = [visible EXCEPT !["staging"] = NoLeaf, !["control"] = NoLeaf]
          /\ run' = [r EXCEPT !.pc = "clean", !.after = after, !.stg = 0, !.ctl = 0]
        kept == [stg |-> run.stg, ctl |-> c.ino]
    IN
    /\ outcome = "rejected" => run.auth # NoAuth
    /\ IF ~TargetUnchanged \/ (keep /\ c = NoLeaf)
       THEN LineageFails(visible)
       ELSE IF outcome = "success"
       THEN fs' = visible /\ run' = [r EXCEPT !.pc = "verify", !.ctl = c.ino]
       ELSE IF keep
       THEN /\ fs' = visible
            /\ run' = [r EXCEPT !.auth = kept, !.stg = 0, !.ctl = 0,
                         !.pc = IF outcome = "retry" THEN "retry" ELSE "cancelled"]
       ELSE clean(CASE outcome = "retry" -> "retry"
                    [] outcome = "cancel" -> "cancelled"
                    [] outcome = "rejected" -> "rejected"
                    [] outcome = "terminal" -> "failed")

Outcomes == {"success", "retry", "terminal", "cancel", "rejected"}

Answers ==
  /\ At("transport") /\ \E o \in Outcomes : Answer(o)
  /\ UNCHANGED <<disk, saved, savedDisk, req, starts, faults>>

(* The adapter raised, or left a temporary control file behind: the staging *)
(* leaf goes, and a control file goes only if it is the held generation.    *)
TransportBreaks ==
  /\ At("transport") /\ Fault("io")
  /\ \/ /\ fs' = [fs EXCEPT !["staging"] = NoLeaf,
                    !["control"] = IF @.ino = run.ctl THEN NoLeaf ELSE @]
        /\ run' = [run EXCEPT !.pc = "clean", !.after = "failed", !.stg = 0, !.ctl = 0]
     \/ run.want = "aria2" /\ LineageFails(fs)
  /\ UNCHANGED <<disk, saved, savedDisk, req, starts>>

-----------------------------------------------------------------------------
(* Verification, placement, durability, control cleanup.                   *)

Unfinished(visible, after) ==
  /\ fs' = [visible EXCEPT !["staging"] = NoLeaf, !["control"] = NoLeaf]
  /\ run' = [run EXCEPT !.pc = "clean", !.after = after, !.stg = 0, !.ctl = 0]

VerifyUnflushed ==   \* mutant
  /\ At("verify")
  /\ IF fs["staging"].is = "good"
     THEN run' = [run EXCEPT !.pc = "place"] /\ UNCHANGED fs
     ELSE Unfinished(fs, "retry")
  /\ UNCHANGED <<disk, saved, savedDisk, req, starts, faults>>

(* Length and checksum are compared, and the data is flushed. *)
Verify ==
  /\ At("verify")
  /\ IF fs["staging"].is = "good"
     THEN /\ fs' = [fs EXCEPT !["staging"].flushed = TRUE]
          /\ run' = [run EXCEPT !.pc = "place"]
     ELSE Unfinished(fs, "retry")
  /\ UNCHANGED <<disk, saved, savedDisk, req, starts, faults>>

CheckTarget ==
  /\ At("place")
  /\ IF TargetUnchanged THEN run' = [run EXCEPT !.pc = "rename"] /\ UNCHANGED fs
     ELSE Unfinished(fs, "failed")
  /\ UNCHANGED <<disk, saved, savedDisk, req, starts, faults>>

(* renameat2(RENAME_NOREPLACE) for a missing target, rename otherwise. *)
Rename ==
  /\ At("rename")
  /\ IF run.initial = NoLeaf /\ Present("target") THEN Unfinished(fs, "failed")
     ELSE /\ fs' = [fs EXCEPT !["target"] = fs["staging"], !["staging"] = NoLeaf]
          /\ run' = [run EXCEPT !.pc = "placed"]
  /\ UNCHANGED <<disk, saved, savedDisk, req, starts, faults>>

(* Verification, or the placement itself, meets an I/O error. *)
PlacementFails ==
  /\ run.pc \in {"verify", "rename"} /\ Fault("io")
  /\ Unfinished(fs, "failed")
  /\ UNCHANGED <<disk, saved, savedDisk, req, starts>>

SyncPlacedSkipped ==   \* mutant
  /\ At("placed")
  /\ run' = [run EXCEPT !.pc = "done"]
  /\ UNCHANGED <<fs, disk, saved, savedDisk, req, starts, faults>>

(* Both directories are synced and the placed leaf is checked. *)
SyncPlaced ==
  /\ At("placed")
  /\ disk' = fs
  /\ IF fs["target"].ino # run.stg
     THEN run' = [run EXCEPT !.pc = "failed"] /\ UNCHANGED fs
     ELSE IF run.ctl = 0
     THEN run' = [run EXCEPT !.pc = "done"] /\ UNCHANGED fs
     ELSE /\ fs' = [fs EXCEPT !["control"] = NoLeaf]
          /\ run' = [run EXCEPT !.pc = "clean", !.after = "done", !.ctl = 0]
  /\ UNCHANGED <<saved, savedDisk, req, starts, faults>>

(* A failure after the rename stays a failure; the new content stays too. *)
SyncPlacedFails ==
  /\ At("placed") /\ Fault("io")
  /\ run' = [run EXCEPT !.pc = "failed"]
  /\ UNCHANGED <<fs, disk, saved, savedDisk, req, starts>>

SyncStaging == disk' = [n \in Names |-> IF n \in StagingNames THEN fs[n] ELSE disk[n]]

CleanSync ==
  /\ At("clean")
  /\ SyncStaging
  /\ run' = IF run.after = "down" THEN [Idle EXCEPT !.result = run.result]
            ELSE [run EXCEPT !.pc = run.after, !.after = "down"]
  /\ UNCHANGED <<fs, saved, savedDisk, req, starts, faults>>

CleanSyncFails ==
  /\ At("clean") /\ Fault("io")
  /\ IF run.after = "rewrite" /\ run.next = NoEntry
     THEN run' = [run EXCEPT !.pc = "rewrite",
                    !.next = Entry("cleanup_pending", saved[run.want].resume)]
     ELSE IF run.after \in {"rewrite", "skipped", "down"}
     THEN Abort("fatal")
     ELSE run' = [run EXCEPT !.pc = "failed"]
  /\ UNCHANGED <<fs, disk, saved, savedDisk, req, starts>>

-----------------------------------------------------------------------------
(* The outcome of an attempt: record it, and try again or stop.            *)

Exhausted == run.attempts >= MaxAttempts \/ (At("retry") /\ run.fallback)

TryAgain(r, place) ==
  run' = IF Owned THEN [r EXCEPT !.pc = "write", !.after = place,
                                 !.next = Entry("pending", r.auth)]
         ELSE [r EXCEPT !.pc = place]

Settle ==
  /\ \/ At("done") /\ Conclude(run, "completed", NoAuth, "downloaded")
     \/ At("skipped") /\ Conclude(run, "completed", NoAuth, "skipped")
     \/ At("failed") /\ Conclude(run, "pending", NoAuth, "failed")
     \/ At("cancelled") /\ Conclude(run, "pending", run.auth, "cancelled")
     \/ At("retry") /\ IF Exhausted
                       THEN Conclude(run, "pending", run.auth, "exhausted")
                       ELSE TryAgain(run, "wait")
     \/ At("rejected") /\ IF Exhausted
                          THEN Conclude(run, "pending", NoAuth, "exhausted")
                          ELSE TryAgain([run EXCEPT !.allow = FALSE,
                                           !.fallback = TRUE], "attempt")
  /\ UNCHANGED <<fs, disk, saved, savedDisk, req, starts, faults>>

-----------------------------------------------------------------------------
(* The world around the worker.                                            *)

(* The user replaces or removes the target: while no worker runs ("user"), *)
(* or also under a running one ("target").                                 *)
TargetChanges ==
  /\ Fault("target") \/ (At("down") /\ Fault("user"))
  /\ \E leaf \in {NoLeaf, Leaf(Another, "other")} :
       /\ fs' = [fs EXCEPT !["target"] = leaf]
       /\ disk' = [disk EXCEPT !["target"] = leaf]
  /\ UNCHANGED <<saved, savedDisk, req, run, starts>>

(* Files under the staging name change only while no worker runs. *)
StagingChanges ==
  /\ At("down") /\ Fault("staging")
  /\ \E n \in StagingNames, leaf \in {NoLeaf, Leaf(Another, "other")} :
       /\ fs' = [fs EXCEPT ![n] = leaf]
       /\ disk' = [disk EXCEPT ![n] = leaf]
  /\ UNCHANGED <<saved, savedDisk, req, run, starts>>

Torn(leaf) == IF leaf.flushed THEN leaf ELSE [leaf EXCEPT !.is = "part"]

(* A power loss or kill: each unsynced name is old or new, a rename is     *)
(* atomic, unflushed data is torn.                                         *)
Crash ==
  /\ ~At("down") /\ Owned /\ Fault("crash")
  /\ \E new \in SUBSET Names :
       /\ (disk["staging"].ino # 0 /\ disk["staging"].ino = fs["target"].ino)
            => ("target" \in new <=> "staging" \in new)
       /\ fs' = [n \in Names |-> Torn(IF n \in new THEN fs[n] ELSE disk[n])]
       /\ disk' = fs'
  /\ \E file \in {saved, savedDisk} : saved' = file /\ savedDisk' = file
  /\ run' = [Idle EXCEPT !.result = "crashed"]
  /\ UNCHANGED <<req, starts>>

Next == \/ Start \/ WriteState \/ SyncState \/ StateWriteFails
        \/ Cancelled \/ Waited \/ SkipExisting \/ RejectExisting \/ Admit
        \/ SaveControl \/ Answers \/ TransportBreaks
        \/ Verify \/ CheckTarget \/ Rename \/ PlacementFails
        \/ SyncPlaced \/ SyncPlacedFails \/ CleanSync \/ CleanSyncFails \/ Settle
        \/ TargetChanges \/ StagingChanges \/ Crash

Spec == Init /\ [][Next]_vars

-----------------------------------------------------------------------------
(* Properties.                                                             *)

Seen(leaf) == Torn(leaf).is

Target == INSTANCE AtomicTarget WITH now <- fs["target"].is,
                                     kept <- Seen(disk["target"]),
                                     overwrite <- req.overwrite

(* The final path keeps the promise of AtomicTarget through retries, outside *)
(* changes, I/O errors and crashes: no reader ever finds a partial or wrong  *)
(* file there, and a file is replaced only where overwriting is configured   *)
(* (_verify_and_place, _place_missing_target, _existing_target_outcome).     *)
ImplementsAtomicTarget == Target!Spec

(* A download reported as such survives a crash: name and content are      *)
(* durable before the state file says completed (_verify_and_place's two   *)
(* directory syncs, _inspect_staged_file's flush).                         *)
DownloadedIsDurable ==
  run.result = "downloaded" => /\ disk["target"] = fs["target"]
                               /\ Seen(disk["target"]) # "part"

(* The persisted entries stay readable and unambiguous: one identity per   *)
(* transfer namespace, resume authority only for an unfinished aria2       *)
(* transfer (_validate_runtime_state_entries, _validate_lifecycle).        *)
StateStaysValid ==
  \A f \in {saved, savedDisk} :
    /\ Cardinality({v \in Variants : f[v] # NoEntry}) <= 1
    /\ \A v \in Variants : f[v].resume # NoAuth =>
         v = "aria2" /\ f[v].status \in {"pending", "cleanup_pending"}

(* A file under the staging name that this identity does not own is never  *)
(* removed, adopted or written by the worker (_admit_cleanup_leaf,         *)
(* _admit_staging, _unlink_owned_leaf).                                    *)
ForeignKept ==
  [][\A n \in StagingNames :
       fs[n].is = "other" /\ faults' = faults => fs'[n] = fs[n]]_vars

(* Without a fault, a worker that ends leaves no artifact behind that the  *)
(* state file gives no exact authority to resume or clean: the next start  *)
(* is never refused (coordinate_transfer_attempts' hand-over of authority, *)
(* _current_resume_authority).                                             *)
NothingOrphaned ==
  /\ faults = 0 /\ At("down") /\ ~NamespaceAbsent
       => \E v \in Variants : saved[v].resume # NoAuth /\ Complete(saved[v].resume)
  /\ faults = 0 => run.result # "refused"

(* An existing target that differs is an ordinary failure of this file     *)
(* (docs/user/runtime.md, target table): when the user only changes the     *)
(* target while no worker runs, no later start is refused.                 *)
NeverRefused == run.result # "refused"

(* Every variable has its type; a leaf without an inode is no leaf.        *)
Inodes == 0..MaxInode
Contents == {"old", "other", "part", "good", "bad"}
Leaves == [ino : 1..MaxInode, is : Contents, flushed : BOOLEAN] \cup {NoLeaf}
Authorities == [stg : Inodes, ctl : Inodes]
Statuses == {"none", "pending", "completed", "cleanup_pending"}
Entries == [status : Statuses, resume : Authorities]
Points == {"down", "rewrite", "write", "sync-state", "attempt", "wait",
           "transport", "verify", "place", "rename", "placed", "clean",
           "done", "skipped", "failed", "cancelled", "retry", "rejected"}
Results == {"none", "refused", "fatal", "failed", "cancelled", "skipped",
            "downloaded", "exhausted", "crashed"}
Workers == [pc : Points, want : Variants \cup {"none"}, resume : BOOLEAN,
            attempts : Nat, allow : BOOLEAN, fallback : BOOLEAN,
            auth : Authorities, stg : Inodes, ctl : Inodes, initial : Leaves,
            next : Entries, after : Points, result : Results]

TypeOK ==
  /\ fs \in [Names -> Leaves] /\ disk \in [Names -> Leaves]
  /\ saved \in [Variants -> Entries] /\ savedDisk \in [Variants -> Entries]
  /\ req \in [overwrite : BOOLEAN, checksum : BOOLEAN,
             owner : {"runtime", "build"}]
  /\ run \in Workers
  /\ run.pc # "down" => run.want \in Variants
  /\ starts \in Nat /\ faults \in Nat
=============================================================================
