----------------------------- MODULE LogStorage -----------------------------
(***************************************************************************)
(* The rotating log files of src/comfyui_docker_helper/container/runtime/  *)
(* log_storage.py: the bounded queue and the writer thread of              *)
(* AsyncLogWriter, the catalog, names and inodes of RawLogStore, and one   *)
(* reader that opens a file by the name the catalog gives it.  A byte is   *)
(* its position in the log; name 0 is the active file, n the n-th archive. *)
(***************************************************************************)
EXTENDS Integers, Sequences, FiniteSets

CONSTANTS FileSize,    \* max_size of a file, and of the memory history
          MaxFiles,    \* max_files
          QueueSize,   \* LOG_FILE_QUEUE_BYTES
          MaxInode     \* bound: inode numbers, which are reused

ASSUME StorageBounds == /\ FileSize \in Nat \ {0} /\ MaxFiles \in Nat \ {0}
                        /\ QueueSize \in Nat \ {0}
                        /\ MaxInode \in Nat /\ MaxInode > MaxFiles

VARIABLES names,     \* directory: the inode of each name, 0 for none
          content,   \* per inode: its first position and its length
          store,     \* RawLogStore: spans, rotating, acknowledged, sequence
          writer,    \* AsyncLogWriter: its thread, its queue and its failure
          rd         \* the read in progress

storageVars == <<names, content, store, writer, rd>>

Inodes == 1..MaxInode
NoSpan == [name |-> 0, ino |-> 0, start |-> 0, end |-> 0, off |-> 0]
NoRead == [pc |-> "idle", span |-> NoSpan, at |-> 0, name |-> 0, cur |-> 0,
           again |-> FALSE, data |-> 0]
NoWriter == [pc |-> "none", next |-> 0, failed |-> FALSE,
             closing |-> FALSE, abort |-> FALSE]
Gone == [from |-> 0, len |-> 0]
Closed == writer.pc = "ended" /\ writer.closing
Active == store.spans[Len(store.spans)]

(* What an earlier controller left: "old" bytes in an active file. *)
StorageInit(old) ==
  /\ names = [n \in {0} |-> IF old = 0 THEN 0 ELSE 1]
  /\ content = [i \in Inodes |-> [from |-> -old,
                                  len |-> IF i = 1 THEN old ELSE 0]]
  /\ store = [open |-> FALSE, spans |-> <<>>, rotating |-> NoSpan,
              acked |-> 0, seq |-> 0]
  /\ writer = NoWriter
  /\ rd = NoRead

Named(n) == IF n \in DOMAIN names THEN names[n] ELSE 0
Name(n, i) == [m \in DOMAIN names \cup {n} |-> IF m = n THEN i ELSE names[m]]
FreeInodes == {i \in Inodes : (\A n \in DOMAIN names : names[n] # i)
                              /\ (rd.pc \in {"retained", "rotating", "stat"}
                                    => rd.span.ino # i)}

Span(n, i, s, e) ==
  [name |-> n, ino |-> i, start |-> s, end |-> e, off |-> 0]

-----------------------------------------------------------------------------
(* Admission of the directory by a writer whose first byte is "start": an *)
(* active file with old bytes goes on when nothing was lost in between,   *)
(* and is archived otherwise (the archive made first has number 1).       *)
Admit(start) ==
  LET ino == Named(0)
      old == content[ino].len
      fresh == CHOOSE i \in FreeInodes : TRUE
  IN IF ino = 0
     THEN /\ names' = Name(0, fresh)
          /\ content' = [content EXCEPT ![fresh] = [from |-> start, len |-> 0]]
          /\ store' = [store EXCEPT !.open = TRUE, !.acked = start,
                         !.spans = <<Span(0, fresh, start, start)>>]
     ELSE IF start = 0
     THEN /\ store' = [store EXCEPT !.open = TRUE,
                         !.spans = <<Span(0, ino, -old, 0)>>]
          /\ UNCHANGED <<names, content>>
     ELSE /\ names' = [n \in {0, 1} |-> IF n = 0 THEN fresh ELSE
                                        IF MaxFiles > 1 THEN ino ELSE 0]
          /\ content' = [content EXCEPT ![fresh] = [from |-> start, len |-> 0]]
          /\ store' = [store EXCEPT !.open = TRUE, !.acked = start, !.seq = 1,
                         !.spans = (IF MaxFiles > 1
                                    THEN <<Span(1, ino, -old, 0)>> ELSE <<>>)
                                   \o <<Span(0, fresh, start, start)>>]

(* enqueue: refused after a failure or a close; a full queue is a failure. *)
(* The new queue for bytes up to "end".                                    *)
Enqueued(end) ==
  IF writer.failed \/ writer.closing THEN writer
  ELSE IF end - store.acked > QueueSize
       THEN [writer EXCEPT !.failed = TRUE]
       ELSE [writer EXCEPT !.next = end]

(* The first failure empties the queue for good. *)
Failing == writer' = [writer EXCEPT !.failed = TRUE, !.pc = "ended"]
GoWriter(pc) == writer' = [writer EXCEPT !.pc = pc]

-----------------------------------------------------------------------------
(* The writer thread.                                                      *)

(* The loop ends after a failure, when told to abort, or, told to close, *)
(* with an empty queue; what is on disk is synced, which may fail too.    *)
EndWriter ==
  /\ writer.pc = "idle"
  /\ \/ writer.failed \/ writer.abort
     \/ store.acked = writer.next /\ writer.closing
  /\ \/ GoWriter("ended")
     \/ ~writer.failed /\ ~writer.abort /\ Failing
  /\ UNCHANGED <<names, content, store, rd>>

(* One byte, published as soon as it is written; a full file is rotated    *)
(* first.  The write may fail.                                             *)
AppendByte ==
  /\ \/ writer.pc = "append"
     \/ /\ writer.pc = "idle" /\ store.acked < writer.next
        /\ ~writer.failed /\ ~writer.abort
  /\ \/ /\ Active.end - Active.start < FileSize
        /\ content' = [content EXCEPT ![Active.ino].len = @ + 1]
        /\ store' = [store EXCEPT !.acked = @ + 1,
                                  !.spans[Len(store.spans)].end = @ + 1]
        /\ GoWriter("idle")
     \/ /\ Active.end - Active.start = FileSize
        /\ store' = [store EXCEPT
             !.seq = @ + 1,
             !.rotating = [Active EXCEPT !.name = store.seq + 1]]
        /\ GoWriter("rename") /\ UNCHANGED content
     \/ Failing /\ UNCHANGED <<store, content>>
  /\ UNCHANGED <<names, rd>>

RenameActive ==
  /\ writer.pc = "rename"
  /\ \/ /\ names' = [Name(store.rotating.name, Active.ino) EXCEPT ![0] = 0]
        /\ GoWriter("catalog") /\ UNCHANGED store
     \/ /\ Failing /\ store' = [store EXCEPT !.rotating = NoSpan]
        /\ UNCHANGED names
  /\ UNCHANGED <<content, rd>>

UpdateCatalog ==
  /\ writer.pc = "catalog"
  /\ store' = [store EXCEPT !.spans[Len(store.spans)] = store.rotating,
                            !.rotating = NoSpan]
  /\ GoWriter("evict")
  /\ UNCHANGED <<names, content, rd>>

(* Make room: the oldest file is unlinked, then leaves the catalog. *)
Evict ==
  /\ writer.pc = "evict" /\ Len(store.spans) >= MaxFiles
  /\ \/ /\ names' = [names EXCEPT ![store.spans[1].name] = 0]
        /\ content' = [content EXCEPT ![store.spans[1].ino] = Gone]
        /\ GoWriter("drop")
     \/ Failing /\ UNCHANGED <<names, content>>
  /\ UNCHANGED <<store, rd>>

DropSpan ==
  /\ writer.pc = "drop"
  /\ store' = [store EXCEPT !.spans = Tail(@)]
  /\ GoWriter("evict")
  /\ UNCHANGED <<names, content, rd>>

(* The new active file may have the inode of an evicted one. *)
CreateActive ==
  /\ writer.pc = "evict" /\ Len(store.spans) < MaxFiles
  /\ \/ \E i \in FreeInodes :
          /\ names' = Name(0, i)
          /\ content' = [content EXCEPT ![i].from = store.acked]
          /\ store' = [store EXCEPT !.spans =
                         Append(@, Span(0, i, store.acked, store.acked))]
          /\ GoWriter("append")
     \/ Failing /\ UNCHANGED <<names, content, store>>
  /\ UNCHANGED rd

Write == \/ EndWriter \/ AppendByte \/ RenameActive \/ UpdateCatalog
         \/ Evict \/ DropSpan \/ CreateActive

-----------------------------------------------------------------------------
(* The reader.                                                             *)

Holds(s, i) == \E k \in DOMAIN s : s[k].ino = i
Of(s, i) == s[CHOOSE k \in DOMAIN s : s[k].ino = i]

(* The inode is in the catalog, for the captured range: an evicted inode  *)
(* can come back with a later one.                                        *)
Retained(span) ==
  /\ ~Closed /\ Holds(store.spans, span.ino)
  /\ Of(store.spans, span.ino).start <= span.start
  /\ Of(store.spans, span.ino).end >= span.end

NameOf(span) == Of(store.spans, span.ino).name
Rotating(span) == store.rotating # NoSpan /\ store.rotating.ino = span.ino
GoRead(pc) == rd' = [rd EXCEPT !.pc = pc]
Broken == GoRead(IF rd.again THEN "unavailable" ELSE "refresh")

LookUp ==
  /\ rd.pc = "lookup"
  /\ IF Retained(rd.span)
     THEN rd' = [rd EXCEPT !.pc = "open", !.name = NameOf(rd.span)]
     ELSE GoRead("unavailable")

(* The descriptor keeps the inode: what it reads is what was opened. *)
OpenAndRead ==
  /\ rd.pc = "open"
  /\ IF Named(rd.name) = rd.span.ino
     THEN rd' = [rd EXCEPT !.pc = "retained",
                   !.data = content[rd.span.ino].from + rd.span.off
                              + (rd.at - rd.span.start)]
     ELSE Broken

CheckRetained ==
  /\ rd.pc = "retained"
  /\ IF Retained(rd.span)
     THEN rd' = [rd EXCEPT !.pc = "rotating", !.cur = NameOf(rd.span)]
     ELSE Broken

(* In the window of a rename either name may be the right one. *)
CheckRotating ==
  /\ rd.pc = "rotating"
  /\ rd' = [rd EXCEPT !.pc = "stat",
              !.cur = IF Rotating(rd.span) /\ Named(@) # rd.span.ino
                      THEN store.rotating.name ELSE @]

CheckName ==
  /\ rd.pc = "stat"
  /\ IF Named(rd.cur) = rd.span.ino THEN GoRead("done") ELSE Broken

(* After an error: the catalog first, the rename in progress second. *)
Refresh ==
  /\ rd.pc = "refresh"
  /\ IF Retained(rd.span)
     THEN rd' = [rd EXCEPT !.pc = "retry", !.cur = NameOf(rd.span)]
     ELSE GoRead("unavailable")

Retry ==
  /\ rd.pc = "retry"
  /\ LET name == IF Rotating(rd.span) THEN store.rotating.name ELSE rd.cur
     IN IF name = rd.name THEN GoRead("unavailable")
        ELSE rd' = [rd EXCEPT !.pc = "open", !.name = name, !.again = TRUE]

Read == /\ \/ LookUp \/ OpenAndRead \/ CheckRetained \/ CheckRotating
           \/ CheckName \/ Refresh \/ Retry
        /\ UNCHANGED <<names, content, store, writer>>

-----------------------------------------------------------------------------
(* The files hold what was acknowledged, in order and without a gap after *)
(* the first byte of this controller; the queue holds what comes next.    *)
StorageTypeOK ==
  /\ \A k \in DOMAIN store.spans :
       LET s == store.spans[k] IN
       /\ s.ino \in Inodes /\ s.start <= s.end /\ s.end <= store.acked
       /\ s.end - s.start <= FileSize
       /\ writer.pc # "drop" \/ k > 1 => content[s.ino].from = s.start
       /\ k > 1 /\ s.start > 0 /\ store.spans[k-1].end > 0
            => store.spans[k-1].end = s.start
  /\ Len(store.spans) <= MaxFiles
  /\ writer.pc = "none" \/ store.acked <= writer.next

(* A read of a captured range fails only when the range is gone: a         *)
(* rotation, which moves the file once, is followed (log_storage.py:441).  *)
ReadSurvivesRotation ==
  /\ rd.pc = "unavailable" /\ ~writer.failed
  /\ \E n \in DOMAIN names : names[n] = rd.span.ino
  => ~Retained(rd.span)
=============================================================================
