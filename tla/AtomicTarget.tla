---------------------------- MODULE AtomicTarget ----------------------------
(***************************************************************************)
(* What a file transfer promises about its final path                      *)
(* (docs/dev/contracts.md, "Existing final content remains in place until  *)
(* a complete verified replacement commits through rename").  The final    *)
(* path shows one content at a time; the transfer changes it only by a     *)
(* commit of the complete content, and never over existing content unless  *)
(* overwriting was asked for.  After a crash it shows what it showed, or   *)
(* what was durable, and nothing in between.                               *)
(***************************************************************************)

VARIABLES now,        \* what a reader of the final path sees
          kept,       \* what a reader would see after a crash
          overwrite   \* whether the transfer may replace existing content

targetVars == <<now, kept, overwrite>>

TargetContents == {"absent", "old", "other", "good"}

Init == /\ now \in {"absent", "old"}
        /\ kept = now
        /\ overwrite \in BOOLEAN

(* The transfer commits the complete content. *)
Commit == /\ now = "absent" \/ overwrite
          /\ now' = "good"
          /\ kept' \in {kept, now'}
          /\ UNCHANGED overwrite

(* What is visible becomes durable. *)
Persist == kept' = now /\ UNCHANGED <<now, overwrite>>

(* The user replaces or removes the file. *)
Outside == /\ now' \in {"absent", "other"}
           /\ kept' = now'
           /\ UNCHANGED overwrite

(* A crash falls back to the durable content, or keeps the visible one. *)
Crash == now' \in {now, kept} /\ kept' = now' /\ UNCHANGED overwrite

Next == Commit \/ Persist \/ Outside \/ Crash

Spec == Init /\ [][Next]_targetVars
=============================================================================
