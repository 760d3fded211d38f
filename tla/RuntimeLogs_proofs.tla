------------------------- MODULE RuntimeLogs_proofs -------------------------
(***************************************************************************)
(* For any sizes of files, histories and queues, and any number of files:  *)
(* the recording has no hole, and what a client of the broker writes is    *)
(* the log, and for two files or more it misses nothing if it succeeds;    *)
(* and no file, history or queue is larger than it may be.                 *)
(* The parts follow a byte: the broker that hands it to the writer (1),    *)
(* the files that hold it (2), the plan a query makes of them (3 and 4),   *)
(* the reader that meets the writer (5), the query (6, 7), what memory and *)
(* files have together (8), and what a client is told (9); the limits of   *)
(* files, histories and queues close the proof (10).                       *)
(***************************************************************************)
EXTENDS RuntimeLogs, SequenceTheorems, FiniteSetTheorems, TLAPS

-----------------------------------------------------------------------------
(* 1. The recording.                                                       *)

Places ==
    {"none", "idle", "append", "rename", "catalog", "evict", "drop", "ended"}

\* What the lock of the broker protects.
BrokerTypes ==
    /\ position \in Nat
    /\ hist \in [start : Nat, end : Nat]
    /\ conf \in [mode : {"unset", "none", "memory", "file"},
                 pc : {"idle", "open", "attach", "done"}, start : Nat]
    /\ sfailed \in BOOLEAN
    /\ broker \in [state : {"open", "closing", "joining", "closed"},
                   drains : {"running", "failed", "ended"},
                   reason : {"none", "broker_closed", "broker_failed"}]
    /\ writer \in [pc : Places, next : Nat, failed : BOOLEAN,
                   closing : BOOLEAN, abort : BOOLEAN]

\* Only the file mode opens a store, and its writer takes over at the end of
\* the memory history, which follows the publication.
Admitted ==
    /\ conf.pc = "idle" <=> conf.mode = "unset"
    /\ conf.pc \in {"open", "attach"} =>
          conf.mode = "file" /\ broker.state = "open"
    /\ writer.pc = "none" => writer = NoWriter
    /\ writer.pc # "none" => conf.pc = "done" /\ conf.mode = "file"
    /\ conf.mode # "none" => hist.end = position

Recorder == BrokerTypes /\ Admitted /\ RecordingHasNoHole

LEMMA InitRecorder == Init => Recorder
<1> SUFFICES ASSUME Init PROVE Recorder
  OBVIOUS
<1>0. /\ position = 0 /\ hist = [start |-> 0, end |-> 0]
      /\ conf = [mode |-> "unset", pc |-> "idle", start |-> 0]
      /\ sfailed = FALSE /\ writer = NoWriter
      /\ broker = [state |-> "open", drains |-> "running",
                   reason |-> "none"]
  BY DEF Init, StorageInit
<1>1. BrokerTypes
  BY <1>0 DEF BrokerTypes, Places, NoWriter
<1>2. Admitted
  BY <1>0 DEF Admitted, NoWriter
<1>3. RecordingHasNoHole
  BY <1>0 DEF RecordingHasNoHole, Attached, NoWriter
<1>4. QED
  BY <1>1, <1>2, <1>3 DEF Recorder

\* The larger and the smaller of two numbers.
LEMMA MostAndLeast ==
  ASSUME NEW a \in Int, NEW b \in Int
  PROVE  /\ Most(a, b) \in {a, b} /\ Most(a, b) >= a /\ Most(a, b) >= b
         /\ Least(a, b) \in {a, b} /\ Least(a, b) <= a /\ Least(a, b) <= b
  BY DEF Most, Least

\* A step of the writer changes its place, or fails.
LEMMA WriteEffect ==
  ASSUME BrokerTypes, Write
  PROVE  /\ writer.pc \notin {"none", "ended"} /\ writer'.pc # "none"
         /\ \E pc \in Places \ {"none"}, failed \in BOOLEAN :
               /\ writer' = [writer EXCEPT !.pc = pc, !.failed = failed]
               /\ writer.failed => failed
<1> USE DEF Places
<1>1. /\ writer \in [pc : Places, next : Nat, failed : BOOLEAN,
                     closing : BOOLEAN, abort : BOOLEAN]
  BY DEF BrokerTypes
<1>2. ASSUME NEW pc \in Places \ {"none"}, GoWriter(pc)
      PROVE  /\ writer'.pc # "none"
             /\ \E p \in Places \ {"none"}, failed \in BOOLEAN :
                   /\ writer' = [writer EXCEPT !.pc = p, !.failed = failed]
                   /\ writer.failed => failed
  <2>1. writer' = [writer EXCEPT !.pc = pc, !.failed = writer.failed]
    BY <1>1, <1>2 DEF GoWriter
  <2>2. QED
    BY <1>1, <2>1
<1>3. ASSUME Failing
      PROVE  /\ writer'.pc # "none"
             /\ \E p \in Places \ {"none"}, failed \in BOOLEAN :
                   /\ writer' = [writer EXCEPT !.pc = p, !.failed = failed]
                   /\ writer.failed => failed
  <2>1. writer' = [writer EXCEPT !.pc = "ended", !.failed = TRUE]
    BY <1>1, <1>3 DEF Failing
  <2>2. QED
    BY <1>1, <2>1
<1>4. \/ Failing
      \/ \E pc \in Places \ {"none"} : GoWriter(pc)
  BY DEF Write, EndWriter, AppendByte, RenameActive, UpdateCatalog, Evict,
         DropSpan, CreateActive
<1>5. writer.pc \notin {"none", "ended"}
  BY DEF Write, EndWriter, AppendByte, RenameActive, UpdateCatalog, Evict,
         DropSpan, CreateActive
<1>6. QED
  BY <1>2, <1>3, <1>4, <1>5

LEMMA StepRecorder == Recorder /\ [Next]_vars => Recorder'
<1> SUFFICES ASSUME Recorder, [Next]_vars PROVE Recorder'
  OBVIOUS
<1> USE LogBounds, StorageBounds DEF Recorder
<1>0. /\ BrokerTypes /\ Admitted /\ RecordingHasNoHole
  OBVIOUS
<1>1. CASE UNCHANGED <<position, hist, conf, sfailed, broker, writer>>
  BY <1>0, <1>1 DEF BrokerTypes, Admitted, RecordingHasNoHole, Attached
<1>2. CASE Publish
  <2> USE <1>2
  <2>1. position' = position + 1 /\ UNCHANGED <<conf, sfailed, broker>>
    BY DEF Publish
  <2>2. /\ hist' \in [start : Nat, end : Nat]
        /\ conf.mode # "none" => hist'.end = position'
    <3>1. Capacity \in Nat
      BY DEF Capacity
    <3>2. Most(hist.start, position + 1 - Capacity) \in Nat
      BY <3>1 DEF Most, BrokerTypes
    <3>3. QED
      BY <3>2 DEF Publish, BrokerTypes, Recording
  <2>3. CASE writer.pc # "none" /\ ~sfailed
    <3>1. writer' = Enqueued(position + 1)
      BY <2>3 DEF Publish
    <3>2. /\ \/ writer' = writer /\ (writer.failed \/ writer.closing)
             \/ writer' = [writer EXCEPT !.failed = TRUE]
             \/ writer' = [writer EXCEPT !.next = position + 1]
      BY <3>1 DEF Enqueued
    <3>3. /\ writer'.pc = writer.pc /\ position' \in Nat
          /\ writer' \in [pc : Places, next : Nat, failed : BOOLEAN,
                           closing : BOOLEAN, abort : BOOLEAN]
          /\ \/ writer'.failed \/ writer'.closing
             \/ writer'.next = position'
      <4> DEFINE Writers == [pc : Places, next : Nat, failed : BOOLEAN,
                             closing : BOOLEAN, abort : BOOLEAN]
      <4>1. writer \in Writers /\ position + 1 \in Nat
        BY DEF BrokerTypes
      <4>2. CASE writer' = writer /\ (writer.failed \/ writer.closing)
        BY <2>1, <4>1, <4>2
      <4>3. CASE writer' = [writer EXCEPT !.failed = TRUE]
        BY <2>1, <4>1, <4>3
      <4>4. CASE writer' = [writer EXCEPT !.next = position + 1]
        BY <2>1, <4>1, <4>4
      <4>5. QED
        BY <3>2, <4>2, <4>3, <4>4
    <3>4. BrokerTypes'
      BY <2>1, <2>2, <3>3 DEF BrokerTypes
    <3>5. Admitted'
      BY <2>1, <2>2, <2>3, <3>3 DEF Admitted
    <3>6. RecordingHasNoHole'
      BY <3>3 DEF RecordingHasNoHole
    <3>7. QED
      BY <3>4, <3>5, <3>6
  <2>4. CASE ~(writer.pc # "none" /\ ~sfailed)
    <3>1. writer' = writer
      BY <2>4 DEF Publish
    <3>2. QED
      BY <2>1, <2>2, <2>4, <3>1
         DEF BrokerTypes, Admitted, RecordingHasNoHole, Attached
  <2>5. QED
    BY <2>3, <2>4
<1>3. CASE DrainFails
  BY <1>3 DEF DrainFails, storageVars, BrokerTypes, Admitted,
              RecordingHasNoHole, Attached
<1>4. CASE Configure
  <2>1. PICK mode \in Modes, start \in Nat :
           /\ conf' = [mode |-> mode, start |-> start,
                       pc |-> IF mode = "file" THEN "open" ELSE "done"]
           /\ hist' = [hist EXCEPT !.start = IF mode = "none" THEN hist.end
                                             ELSE start]
    <3>1. Most(hist.start, hist.end - FileSize) \in Nat
      BY DEF Most, BrokerTypes
    <3>2. QED
      BY <1>4, <3>1 DEF Configure
  <2>2. /\ conf.mode = "unset" /\ broker.state = "open"
        /\ UNCHANGED <<position, sfailed, broker, writer>>
    BY <1>4 DEF Configure, storageVars
  <2>3. QED
    BY <2>1, <2>2 DEF BrokerTypes, Admitted, RecordingHasNoHole, Attached
<1>5. CASE OpenStore
  BY <1>5 DEF OpenStore, BrokerTypes, Admitted, RecordingHasNoHole, Attached
<1>6. CASE Attach
  <2>1. PICK next \in Nat, failed \in BOOLEAN :
           /\ writer' = [NoWriter EXCEPT !.pc = "idle", !.next = next]
           /\ sfailed' = failed
           /\ ~failed => next = hist.end
    BY <1>6 DEF Attach, BrokerTypes
  <2>2. /\ conf.pc = "attach" /\ conf' = [conf EXCEPT !.pc = "done"]
        /\ UNCHANGED <<position, hist, broker>>
    BY <1>6 DEF Attach
  <2>3. QED
    BY <2>1, <2>2 DEF BrokerTypes, Admitted, RecordingHasNoHole, Attached,
                      NoWriter, Places
<1>7. CASE BeginClose
  BY <1>7 DEF BeginClose, storageVars, BrokerTypes, Admitted,
              RecordingHasNoHole, Attached
<1>8. CASE CloseWriter
  <2>1. PICK drains \in {broker.drains, "ended"} :
           /\ broker' = [broker EXCEPT !.state = "joining",
                                       !.drains = drains]
           /\ writer' = IF writer.pc = "none" THEN writer
                        ELSE [writer EXCEPT !.closing = TRUE,
                                            !.abort = (drains = "running")]
    BY <1>8 DEF CloseWriter
  <2>2. broker.state = "closing" /\ UNCHANGED <<position, hist, conf, sfailed>>
    BY <1>8 DEF CloseWriter
  <2>3. (drains = "running") \in BOOLEAN
    OBVIOUS
  <2>4. QED
    BY <2>1, <2>2, <2>3
       DEF BrokerTypes, Admitted, RecordingHasNoHole, Attached, NoWriter
<1>9. CASE CloseFollowers
  <2>1. PICK reason \in {"broker_closed", "broker_failed"} :
           broker' = [broker EXCEPT !.state = "closed", !.reason = reason]
    BY <1>9 DEF CloseFollowers
  <2>2. /\ broker.state = "joining"
        /\ UNCHANGED <<position, hist, conf, sfailed>>
        /\ writer' = [writer EXCEPT
                        !.abort = @ \/ ~(writer.pc \in {"none", "ended"})]
    BY <1>9 DEF CloseFollowers
  <2>3. /\ writer.pc = "none" => writer' = writer
        /\ writer' \in [pc : Places, next : Nat, failed : BOOLEAN,
                        closing : BOOLEAN, abort : BOOLEAN]
        /\ writer'.pc = writer.pc /\ writer'.failed = writer.failed
        /\ writer'.closing = writer.closing /\ writer'.next = writer.next
    BY <2>2 DEF BrokerTypes, Admitted, NoWriter
  <2>4. QED
    BY <2>1, <2>2, <2>3
       DEF BrokerTypes, Admitted, RecordingHasNoHole, Attached
<1>10. CASE Write /\ UNCHANGED brokerVars
  <2>1. /\ writer.pc # "none" /\ writer'.pc # "none"
        /\ \E pc \in Places \ {"none"}, failed \in BOOLEAN :
              /\ writer' = [writer EXCEPT !.pc = pc, !.failed = failed]
              /\ writer.failed => failed
    BY <1>0, <1>10, WriteEffect
  <2>2. UNCHANGED <<position, hist, conf, sfailed, broker>>
    BY <1>10 DEF brokerVars
  <2>3. QED
    BY <2>1, <2>2 DEF BrokerTypes, Admitted, RecordingHasNoHole, Attached
<1>11. QED
  <2>1. \/ Subscribe \/ PlanReplay \/ ReplayMemory \/ StartRead \/ ReadOld
        \/ EndRead \/ EndReplay \/ ReceiveLive \/ LookReason \/ PeerBreaks
        \/ (Read /\ UNCHANGED brokerVars) \/ UNCHANGED vars
        => UNCHANGED <<position, hist, conf, sfailed, broker, writer>>
    BY DEF Subscribe, PlanReplay, ReplayMemory, StartRead, ReadOld, EndRead,
           EndReplay, ReceiveLive, LookReason, PeerBreaks, Read, vars,
           brokerVars, storageVars
  <2>2. QED
    BY <1>1, <1>2, <1>3, <1>4, <1>5, <1>6, <1>7, <1>8, <1>9, <1>10, <2>1
       DEF Next

-----------------------------------------------------------------------------
(* 2. The catalog.                                                         *)

Entries ==
    [name : Nat, ino : Inodes, start : Int, end : Int, off : {0}]
Rotations ==
    [name : Nat, ino : 0..MaxInode, start : Int, end : Int, off : Int]
Stores ==
    [open : BOOLEAN, spans : Seq(Entries), rotating : Rotations, acked : Nat,
     seq : Nat]

StoreTypes ==
    /\ DOMAIN names \subseteq Nat /\ 0 \in DOMAIN names
    /\ names \in [DOMAIN names -> 0..MaxInode]
    /\ content \in [Inodes -> [from : Int, len : Int]]
    /\ store \in Stores

Count == Len(store.spans)
Entry(k) == store.spans[k]

\* The store is open from its admission on; before, the directory is as an
\* earlier controller left it.
Opened ==
    /\ store.open <=> conf.pc = "attach" \/ writer.pc # "none"
    /\ ~store.open =>
          /\ store.spans = <<>> /\ DOMAIN names = {0}
          /\ store.acked = 0 /\ store.seq = 0
          /\ Named(0) # 0 => /\ Named(0) = 1 /\ content[1].len > 0
                             /\ content[1].from = -content[1].len

\* The files follow each other, and only the last one may be empty.
InOrder ==
    /\ \A k \in 1..Count :
          Entry(k).start <= Entry(k).end /\ Entry(k).end <= store.acked
    /\ \A j, k \in 1..Count : j < k =>
          /\ Entry(j).end <= Entry(k).start
          /\ Entry(j).start < Entry(j).end

\* No inode is catalogued or named twice.
Distinct ==
    /\ \A j, k \in 1..Count : Entry(j).ino = Entry(k).ino => j = k
    /\ \A m, n \in Nat : Named(m) = Named(n) /\ Named(m) # 0 => m = n

\* What the catalog says of a file, but of one that is just removed.
Contents ==
    \A k \in 1..Count :
       (writer.pc = "drop" /\ k = 1)
          \/ content[Entry(k).ino].from = Entry(k).start

\* A catalogued file has its name, but for the window of a rotation.
Stands(k) ==
    IF writer.pc = "drop" /\ k = 1
    THEN \A n \in Nat : Named(n) # Entry(1).ino
    ELSE IF writer.pc = "catalog" /\ k = Count
    THEN Named(store.rotating.name) = Entry(k).ino
    ELSE Named(Entry(k).name) = Entry(k).ino

Catalogued ==
    /\ writer.pc # "ended" => \A k \in 1..Count : Stands(k)
    /\ \A k \in 1..Count : Entry(k).name <= store.seq
    /\ writer.pc \in {"idle", "append", "rename", "catalog"}
       \/ conf.pc = "attach" => Count > 0 /\ Active.name = 0
    /\ writer.pc = "drop" => Count > 0
    /\ writer.pc \in {"catalog", "evict", "drop"} => Named(0) = 0
    /\ writer.pc \in {"rename", "catalog"} =>
          /\ store.rotating = [Active EXCEPT !.name = store.seq]
          /\ \A k \in 1..Count : Entry(k).name < store.seq
          /\ Active.start < Active.end
    /\ writer.pc \in {"evict", "drop"} =>
          \A k \in 1..Count : Entry(k).start < Entry(k).end

Catalog ==
    StoreTypes /\ Opened /\ InOrder /\ Distinct /\ Contents /\ Catalogued

LEMMA StoreUpdate ==
  ASSUME NEW s \in Stores, NEW acked \in Nat, NEW spans \in Seq(Entries)
  PROVE  [s EXCEPT !.acked = acked, !.spans = spans] \in Stores
  BY DEF Stores

LEMMA SpansAreTyped ==
  ASSUME StoreTypes
  PROVE  /\ store.spans \in Seq(Entries) /\ Count \in Nat
         /\ DOMAIN store.spans = 1..Count
         /\ \A k \in 1..Count :
               /\ Entry(k) \in Entries
               /\ Entry(k).name \in Nat /\ Entry(k).ino \in Inodes
               /\ Entry(k).start \in Int /\ Entry(k).end \in Int
               /\ Entry(k).off = 0
         /\ store.spans = <<>> <=> Count = 0
<1>1. store.spans \in Seq(Entries)
  BY DEF StoreTypes, Stores
<1>2. /\ Count \in Nat /\ DOMAIN store.spans = 1..Count
      /\ store.spans = <<>> <=> Count = 0
  BY <1>1, LenProperties, EmptySeq DEF Count
<1>3. \A k \in 1..Count : Entry(k) \in Entries
  BY <1>1, <1>2, ElementOfSeq DEF Count, Entry
<1>4. \A e \in Entries : /\ e.name \in Nat /\ e.ino \in Inodes
                         /\ e.start \in Int /\ e.end \in Int /\ e.off = 0
  BY DEF Entries
<1>5. QED
  BY <1>1, <1>2, <1>3, <1>4

LEMMA NamesAreTyped ==
  ASSUME StoreTypes
  PROVE  \A n \in Nat : Named(n) \in 0..MaxInode
<1>1. MaxInode \in Nat /\ names \in [DOMAIN names -> 0..MaxInode]
  BY StorageBounds DEF StoreTypes
<1>2. QED
  BY <1>1 DEF Named

\* A link, a rename or an unlink of one name.
LEMMA NameEffect ==
  ASSUME StoreTypes, NEW n \in Nat, NEW i \in 0..MaxInode,
         names' = Name(n, i)
  PROVE  /\ DOMAIN names' \subseteq Nat /\ 0 \in DOMAIN names'
         /\ names' \in [DOMAIN names' -> 0..MaxInode]
         /\ \A m \in Nat : Named(m)' = IF m = n THEN i ELSE Named(m)
<1>1. /\ DOMAIN names \subseteq Nat /\ 0 \in DOMAIN names
      /\ names \in [DOMAIN names -> 0..MaxInode]
  BY DEF StoreTypes
<1>2. /\ DOMAIN names' = DOMAIN names \cup {n}
      /\ \A m \in DOMAIN names \cup {n} :
            names'[m] = IF m = n THEN i ELSE names[m]
      /\ names' = [m \in DOMAIN names' |-> names'[m]]
  BY DEF Name
<1>3. names' \in [DOMAIN names' -> 0..MaxInode]
  BY <1>1, <1>2
<1>4. \A m \in Nat : Named(m)' = IF m = n THEN i ELSE Named(m)
  BY <1>1, <1>2 DEF Named
<1>5. QED
  BY <1>1, <1>2, <1>3, <1>4

\* A free inode has no name, and is not the one a reader holds.
LEMMA FreeInodeIsFree ==
  ASSUME StoreTypes, NEW i \in FreeInodes
  PROVE  /\ i \in Inodes /\ i \in 0..MaxInode /\ i # 0
         /\ \A n \in Nat : Named(n) # i
         /\ rd.pc \in {"retained", "rotating", "stat"} => rd.span.ino # i
<1>1. /\ i \in Inodes /\ \A n \in DOMAIN names : names[n] # i
      /\ rd.pc \in {"retained", "rotating", "stat"} => rd.span.ino # i
  BY DEF FreeInodes
<1>2. i \in 0..MaxInode /\ i # 0
  BY <1>1, StorageBounds DEF Inodes
<1>3. QED
  BY <1>1, <1>2 DEF Named

\* The active file grows by one byte.
LEMMA GrowEffect ==
  ASSUME StoreTypes, Count > 0,
         store' = [store EXCEPT !.acked = @ + 1,
                                !.spans[Len(store.spans)].end = @ + 1]
  PROVE  /\ store' \in Stores
         /\ store'.open = store.open /\ store'.seq = store.seq
         /\ store'.rotating = store.rotating
         /\ store'.acked = store.acked + 1
         /\ Count' = Count
         /\ \A k \in 1..Count : Entry(k)' =
               IF k = Count THEN [Entry(k) EXCEPT !.end = @ + 1]
               ELSE Entry(k)
<1>1. /\ store.spans \in Seq(Entries) /\ Count \in Nat
      /\ DOMAIN store.spans = 1..Count
      /\ \A k \in 1..Count : Entry(k) \in Entries
  BY SpansAreTyped
<1> DEFINE e == [Entry(Count) EXCEPT !.end = @ + 1]
           s == [store.spans EXCEPT ![Count] = e]
<1>2. e \in Entries
  <2>1. \A r \in Entries : [r EXCEPT !.end = @ + 1] \in Entries
    BY DEF Entries
  <2>2. Entry(Count) \in Entries
    BY <1>1
  <2>3. QED
    BY <2>1, <2>2
<1>3. store' = [store EXCEPT !.acked = store.acked + 1, !.spans = s]
  BY <1>1 DEF Count, Entry, StoreTypes, Stores
<1>4. /\ s \in Seq(Entries) /\ Len(s) = Count
      /\ \A k \in 1..Count : s[k] = IF k = Count THEN e ELSE store.spans[k]
  <2> HIDE DEF e
  <2>1. Len(store.spans) = Count
    BY DEF Count
  <2>2. /\ s \in Seq(Entries) /\ Len(s) = Len(store.spans)
        /\ \A k \in 1..Len(store.spans) :
              s[k] = IF k = Count THEN e ELSE store.spans[k]
    BY <1>1, <1>2, <2>1, ExceptSeq
  <2>3. QED
    BY <2>1, <2>2
<1> HIDE DEF e, s
<1>5. /\ store'.spans = s
      /\ store'.open = store.open /\ store'.seq = store.seq
      /\ store'.rotating = store.rotating
      /\ store'.acked = store.acked + 1
  BY <1>3 DEF StoreTypes, Stores
<1>6. store' \in Stores
  <2>1. store \in Stores /\ store.acked + 1 \in Nat
    BY DEF StoreTypes, Stores
  <2>2. [store EXCEPT !.acked = store.acked + 1, !.spans = s] \in Stores
    BY <1>4, <2>1, StoreUpdate
  <2>3. QED
    BY <1>3, <2>2
<1>7. QED
  BY <1>1, <1>4, <1>5, <1>6 DEF Count, Entry, e

\* The thread goes to another place.
LEMMA PlaceEffect ==
  ASSUME BrokerTypes, NEW pc \in Places, GoWriter(pc)
  PROVE  writer'.pc = pc
  BY DEF BrokerTypes, GoWriter

\* A writer that ends leaves the catalog as it is.
LEMMA EndKeepsCatalog ==
  ASSUME Catalog, writer.pc \notin {"none", "drop"}, writer'.pc = "ended",
         UNCHANGED <<names, content, conf>>,
         \/ UNCHANGED store
         \/ store' = [store EXCEPT !.rotating = NoSpan]
  PROVE  Catalog'
<1> USE DEF Catalog
<1>1. /\ store'.spans = store.spans /\ store'.acked = store.acked
      /\ store'.seq = store.seq /\ store'.open = store.open
      /\ store' \in Stores
  BY StorageBounds DEF StoreTypes, Stores, Rotations, NoSpan
<1>2. /\ Count' = Count /\ \A k \in 1..Count : Entry(k)' = Entry(k)
      /\ Active' = Active
  BY <1>1 DEF Count, Entry, Active
<1>3. \A n \in Nat : Named(n)' = Named(n)
  BY DEF Named
<1>4. StoreTypes'
  BY <1>1 DEF StoreTypes
<1>5. Opened'
  BY <1>1, <1>3 DEF Opened
<1>6. InOrder' /\ Distinct' /\ Contents'
  BY <1>1, <1>2, <1>3 DEF InOrder, Distinct, Contents
<1>7. Catalogued'
  BY <1>1, <1>2 DEF Catalogued
<1>8. QED
  BY <1>4, <1>5, <1>6, <1>7

LEMMA EndWriterKeepsCatalog ==
  ASSUME Catalog, BrokerTypes, EndWriter, UNCHANGED conf
  PROVE  Catalog'
<1>1. writer.pc = "idle" /\ UNCHANGED <<names, content, store>>
  BY DEF EndWriter
<1>2. writer'.pc = "ended"
  BY DEF EndWriter, Failing, GoWriter, BrokerTypes, Places
<1>3. QED
  BY <1>1, <1>2, EndKeepsCatalog

LEMMA AppendKeepsCatalog ==
  ASSUME Catalog, BrokerTypes, AppendByte, UNCHANGED conf
  PROVE  /\ Catalog' /\ Count > 0 /\ Count' = Count
         /\ \A k \in 1..Count : /\ Entry(k)'.ino = Entry(k).ino
                                /\ Entry(k)'.start = Entry(k).start
         /\ \/ writer'.pc = "ended" /\ UNCHANGED store
            \/ /\ writer'.pc = "idle" /\ store'.acked = store.acked + 1
               /\ \A k \in 1..Count : Entry(k)'.end =
                     IF k = Count THEN Entry(k).end + 1 ELSE Entry(k).end
            \/ /\ writer'.pc = "rename" /\ store'.acked = store.acked
               /\ \A k \in 1..Count : Entry(k)'.end = Entry(k).end
               /\ Entry(Count).end - Entry(Count).start = FileSize
<1> USE DEF Catalog
<1>1. /\ writer.pc \in {"append", "idle"} /\ UNCHANGED names
      /\ writer \in [pc : Places, next : Nat, failed : BOOLEAN,
                     closing : BOOLEAN, abort : BOOLEAN]
  BY DEF AppendByte, BrokerTypes
<1>2. /\ Count \in Nat /\ Count > 0 /\ Active = Entry(Count)
      /\ Active.name = 0
      /\ \A k \in 1..Count :
            /\ Entry(k) \in Entries
            /\ Entry(k).name \in Nat /\ Entry(k).ino \in Inodes
            /\ Entry(k).start \in Int /\ Entry(k).end \in Int
            /\ Entry(k).off = 0
  BY <1>1, SpansAreTyped DEF Catalogued, Active, Count, Entry
<1>3. \A n \in Nat : Named(n)' = Named(n)
  BY <1>1 DEF Named
<1>4. FileSize \in Nat \ {0} /\ store.acked \in Nat /\ store.seq \in Nat
  BY StorageBounds DEF StoreTypes, Stores
<1>5. store.open
  BY <1>1 DEF Opened
<1>6. CASE Failing /\ UNCHANGED <<store, content>>
  <2>1. writer'.pc = "ended"
    BY <1>1, <1>6 DEF Failing
  <2>2. Catalog'
    BY <1>1, <1>6, <2>1, EndKeepsCatalog
  <2>3. Count' = Count /\ \A k \in 1..Count : Entry(k)' = Entry(k)
    BY <1>6 DEF Count, Entry
  <2>4. QED
    BY <1>2, <1>6, <2>1, <2>2, <2>3
<1>7. CASE /\ Active.end - Active.start < FileSize
           /\ content' = [content EXCEPT ![Active.ino].len = @ + 1]
           /\ store' = [store EXCEPT !.acked = @ + 1,
                                 !.spans[Len(store.spans)].end = @ + 1]
           /\ GoWriter("idle")
  <2>1. /\ store' \in Stores
        /\ store'.open = store.open /\ store'.seq = store.seq
        /\ store'.rotating = store.rotating
        /\ store'.acked = store.acked + 1
        /\ Count' = Count
        /\ \A k \in 1..Count : Entry(k)' =
              IF k = Count THEN [Entry(k) EXCEPT !.end = @ + 1]
              ELSE Entry(k)
    BY <1>2, <1>7, GrowEffect
  <2>2. \A k \in 1..Count :
           /\ Entry(k)'.name = Entry(k).name /\ Entry(k)'.ino = Entry(k).ino
           /\ Entry(k)'.start = Entry(k).start
           /\ Entry(k)'.end = IF k = Count THEN Entry(k).end + 1
                              ELSE Entry(k).end
    BY <1>2, <2>1 DEF Entries
  <2>3. /\ content' \in [Inodes -> [from : Int, len : Int]]
        /\ \A i \in Inodes : content'[i].from = content[i].from
    BY <1>2, <1>7 DEF StoreTypes
  <2>4. writer'.pc = "idle"
    BY <1>7, PlaceEffect DEF Places
  <2>5. StoreTypes'
    BY <1>1, <2>1, <2>3 DEF StoreTypes
  <2>6. Opened'
    BY <1>5, <2>1, <2>4 DEF Opened
  <2>7. InOrder'
    BY <1>2, <1>4, <2>1, <2>2 DEF InOrder
  <2>8. Distinct' /\ Contents'
    BY <1>1, <1>2, <1>3, <2>1, <2>2, <2>3, <2>4 DEF Distinct, Contents
  <2>9. Catalogued'
    <3>1. Active' = Entry(Count)'
      BY <2>1 DEF Active, Count, Entry
    <3>2. \A k \in 1..Count : Stands(k)'
      BY <1>1, <1>2, <1>3, <2>1, <2>2, <2>4 DEF Catalogued, Stands
    <3>3. QED
      BY <1>1, <1>2, <2>1, <2>2, <2>4, <3>1, <3>2 DEF Catalogued
  <2>10. QED
    BY <1>2, <2>1, <2>2, <2>4, <2>5, <2>6, <2>7, <2>8, <2>9
<1>8. CASE /\ Active.end - Active.start = FileSize
           /\ store' = [store EXCEPT
                !.seq = @ + 1,
                !.rotating = [Active EXCEPT !.name = store.seq + 1]]
           /\ GoWriter("rename") /\ UNCHANGED content
  <2> DEFINE r == [Active EXCEPT !.name = store.seq + 1]
  <2>1. r \in Rotations
    BY <1>2, <1>4, StorageBounds DEF Entries, Rotations, Inodes
  <2> HIDE DEF r
  <2>2. /\ store' \in Stores /\ store'.open = store.open
        /\ store'.seq = store.seq + 1 /\ store'.acked = store.acked
        /\ store'.spans = store.spans
        /\ store'.rotating = [Active EXCEPT !.name = store.seq + 1]
    <3> DEFINE t == [store EXCEPT !.seq = store.seq + 1, !.rotating = r]
    <3>1. store \in Stores /\ store.seq + 1 \in Nat
      BY <1>4 DEF StoreTypes
    <3>2. /\ t \in Stores /\ t.open = store.open
          /\ t.seq = store.seq + 1 /\ t.acked = store.acked
          /\ t.spans = store.spans /\ t.rotating = r
      BY <2>1, <3>1 DEF Stores
    <3>3. store' = t
      BY <1>8 DEF r
    <3> HIDE DEF t
    <3>4. QED
      BY <3>2, <3>3 DEF r
  <2>3. /\ Count' = Count /\ \A k \in 1..Count : Entry(k)' = Entry(k)
        /\ Active' = Active
    BY <2>2 DEF Count, Entry, Active
  <2>4. writer'.pc = "rename"
    BY <1>8, PlaceEffect DEF Places
  <2>5. StoreTypes' /\ Opened'
    BY <1>1, <1>5, <1>8, <2>2, <2>4 DEF StoreTypes, Opened
  <2>6. InOrder' /\ Distinct' /\ Contents'
    BY <1>1, <1>2, <1>3, <1>8, <2>2, <2>3, <2>4
       DEF InOrder, Distinct, Contents
  <2>7. Catalogued'
    <3>1. \A k \in 1..Count : Stands(k)'
      BY <1>1, <1>2, <1>3, <2>2, <2>3, <2>4 DEF Catalogued, Stands
    <3>2. Active.start < Active.end
      BY <1>2, <1>4, <1>8
    <3>3. \A k \in 1..Count : Entry(k).name <= store.seq
      BY DEF Catalogued
    <3>4. QED
      BY <1>1, <1>2, <1>4, <2>2, <2>3, <2>4, <3>1, <3>2, <3>3
         DEF Catalogued
  <2>8. QED
    BY <1>2, <1>8, <2>2, <2>3, <2>4, <2>5, <2>6, <2>7
<1>9. QED
  BY <1>6, <1>7, <1>8 DEF AppendByte

LEMMA RenameKeepsCatalog ==
  ASSUME Catalog, BrokerTypes, RenameActive, UNCHANGED conf
  PROVE  Catalog'
<1> USE DEF Catalog
<1>1. writer.pc = "rename" /\ UNCHANGED content
  BY DEF RenameActive
<1>2. /\ Count \in Nat /\ Count > 0 /\ Active = Entry(Count)
      /\ Active.name = 0 /\ Active.start < Active.end
      /\ \A k \in 1..Count :
            /\ Entry(k) \in Entries
            /\ Entry(k).name \in Nat /\ Entry(k).ino \in Inodes
            /\ Entry(k).start \in Int /\ Entry(k).end \in Int
  BY <1>1, SpansAreTyped DEF Catalogued, Active, Count, Entry
<1>3. /\ store.open
      /\ \A k \in 1..Count : Named(Entry(k).name) = Entry(k).ino
      /\ \A k \in 1..Count : Entry(k).name < store.seq
      /\ store.rotating = [Active EXCEPT !.name = store.seq]
  BY <1>1 DEF Opened, Catalogued, Stands
<1>4. /\ store.seq \in Nat /\ store.seq > 0
      /\ store.rotating.name = store.seq
  <2>1. store.seq \in Nat /\ store.rotating \in Rotations
    BY DEF StoreTypes, Stores
  <2>2. store.rotating.name = store.seq
    BY <1>2, <1>3 DEF Entries
  <2>3. QED
    BY <1>2, <1>3, <2>1, <2>2
<1>5. CASE Failing /\ store' = [store EXCEPT !.rotating = NoSpan]
           /\ UNCHANGED names
  <2>1. writer'.pc = "ended"
    BY <1>5 DEF Failing, BrokerTypes
  <2>2. QED
    BY <1>1, <1>5, <2>1, EndKeepsCatalog
<1>6. CASE /\ names' = [Name(store.rotating.name, Active.ino)
                          EXCEPT ![0] = 0]
           /\ GoWriter("catalog") /\ UNCHANGED store
  <2>1. /\ DOMAIN names' \subseteq Nat /\ 0 \in DOMAIN names'
        /\ names' \in [DOMAIN names' -> 0..MaxInode]
        /\ \A m \in Nat : Named(m)' = IF m = 0 THEN 0
                                      ELSE IF m = store.seq THEN Active.ino
                                      ELSE Named(m)
    <3> DEFINE dir == Name(store.rotating.name, Active.ino)
    <3>1. /\ DOMAIN names \subseteq Nat /\ 0 \in DOMAIN names
          /\ names \in [DOMAIN names -> 0..MaxInode]
      BY DEF StoreTypes
    <3>2. Active.ino \in 0..MaxInode /\ 0 \in 0..MaxInode
      BY <1>2, StorageBounds DEF Inodes
    <3>3. /\ DOMAIN dir = DOMAIN names \cup {store.seq}
          /\ dir \in [DOMAIN dir -> 0..MaxInode]
          /\ \A m \in DOMAIN dir : dir[m] = IF m = store.seq THEN Active.ino
                                            ELSE names[m]
      BY <1>4, <3>1, <3>2 DEF Name
    <3>4. names' = [dir EXCEPT ![0] = 0]
      BY <1>6
    <3> HIDE DEF dir
    <3>5. /\ DOMAIN names' = DOMAIN names \cup {store.seq}
          /\ names' \in [DOMAIN names' -> 0..MaxInode]
          /\ \A m \in DOMAIN names' :
                names'[m] = IF m = 0 THEN 0
                            ELSE IF m = store.seq THEN Active.ino
                            ELSE names[m]
      BY <1>4, <3>1, <3>2, <3>3, <3>4
    <3>6. QED
      BY <1>4, <3>1, <3>5 DEF Named
  <2>2. /\ Count' = Count /\ \A k \in 1..Count : Entry(k)' = Entry(k)
        /\ Active' = Active
    BY <1>6 DEF Count, Entry, Active
  <2>3. writer'.pc = "catalog"
    BY <1>6, PlaceEffect DEF Places
  <2>4. StoreTypes'
    BY <1>1, <1>6, <2>1 DEF StoreTypes
  <2>5. Opened' /\ InOrder' /\ Contents'
    BY <1>1, <1>2, <1>3, <1>6, <2>2, <2>3 DEF Opened, InOrder, Contents
  <2>6. /\ Named(0) = Active.ino
        /\ \A k \in 1..Count : k # Count => Entry(k).name # 0
    BY <1>2, <1>3 DEF Distinct
  <2>7. Distinct'
    <3>1. \A m, n \in Nat : Named(m)' = Named(n)' /\ Named(m)' # 0 => m = n
      BY <1>4, <2>1, <2>6 DEF Distinct
    <3>2. QED
      BY <2>2, <3>1 DEF Distinct
  <2>8. \A k \in 1..Count : Stands(k)'
    <3>1. /\ Named(store.seq)' = Entry(Count).ino
          /\ \A k \in 1..Count :
                k # Count => Named(Entry(k).name)' = Entry(k).ino
      <4>1. /\ \A n \in Nat : n = store.seq => Named(n)' = Active.ino
            /\ \A k \in 1..Count : k # Count =>
                  \A n \in Nat : n = Entry(k).name => Named(n)' = Entry(k).ino
        BY <1>2, <1>3, <1>4, <2>1, <2>6
      <4>2. store'.seq = store.seq
        BY <1>6
      <4>3. QED
        BY <1>2, <1>4, <2>2, <4>1, <4>2
    <3>2. QED
      BY <1>2, <1>4, <1>6, <2>2, <2>3, <3>1 DEF Stands
  <2>9. Catalogued'
    BY <1>1, <1>2, <1>3, <1>4, <1>6, <2>1, <2>2, <2>3, <2>8 DEF Catalogued
  <2>10. QED
    BY <2>4, <2>5, <2>7, <2>9
<1>7. QED
  BY <1>5, <1>6 DEF RenameActive

LEMMA UpdateKeepsCatalog ==
  ASSUME Catalog, BrokerTypes, Admitted, UpdateCatalog, UNCHANGED conf
  PROVE  /\ Catalog' /\ Count' = Count /\ store'.acked = store.acked
         /\ writer'.pc = "evict"
         /\ \A k \in 1..Count : /\ Entry(k)'.ino = Entry(k).ino
                                /\ Entry(k)'.start = Entry(k).start
                                /\ Entry(k)'.end = Entry(k).end
<1> USE DEF Catalog
<1>1. writer.pc = "catalog" /\ UNCHANGED <<names, content>>
  BY DEF UpdateCatalog
<1>2. /\ Count \in Nat /\ Count > 0 /\ Active = Entry(Count)
      /\ DOMAIN store.spans = 1..Count /\ store.spans \in Seq(Entries)
      /\ Active.start < Active.end
      /\ \A k \in 1..Count :
            /\ Entry(k) \in Entries
            /\ Entry(k).name \in Nat /\ Entry(k).ino \in Inodes
            /\ Entry(k).start \in Int /\ Entry(k).end \in Int
  BY <1>1, SpansAreTyped DEF Catalogued, Active, Count, Entry
<1>3. /\ store.open /\ store.seq \in Nat /\ Named(0) = 0
      /\ \A k \in 1..Count : Entry(k).name < store.seq
      /\ store.rotating = [Active EXCEPT !.name = store.seq]
  BY <1>1 DEF Opened, Catalogued, StoreTypes, Stores
<1> DEFINE e == [Active EXCEPT !.name = store.seq]
           s == [store.spans EXCEPT ![Count] = e]
<1>4. /\ e \in Entries /\ e.name = store.seq /\ e.ino = Active.ino
      /\ e.start = Active.start /\ e.end = Active.end
  BY <1>2, <1>3 DEF Entries
<1>5. /\ s \in Seq(Entries) /\ Len(s) = Count
      /\ \A k \in 1..Count : s[k] = IF k = Count THEN e ELSE store.spans[k]
  BY <1>2, <1>4, ExceptSeq DEF Count
<1>6. store.rotating = e
  BY <1>3
<1> HIDE DEF e
<1>7. store' = [store EXCEPT !.spans = s, !.rotating = NoSpan]
  BY <1>6 DEF UpdateCatalog, Count
<1> HIDE DEF s
<1>8. /\ store' \in Stores /\ store'.open = store.open
      /\ store'.seq = store.seq /\ store'.acked = store.acked
      /\ store'.spans = s
  <2> DEFINE t == [store EXCEPT !.spans = s, !.rotating = NoSpan]
  <2>1. store \in Stores /\ NoSpan \in Rotations
    BY StorageBounds DEF StoreTypes, NoSpan, Rotations
  <2>2. /\ t \in Stores /\ t.open = store.open
        /\ t.seq = store.seq /\ t.acked = store.acked
        /\ t.spans = s
    BY <1>5, <2>1 DEF Stores
  <2>3. store' = t
    BY <1>7
  <2> HIDE DEF t
  <2>4. QED
    BY <2>2, <2>3
<1>9. /\ Count' = Count
      /\ \A k \in 1..Count : Entry(k)' = IF k = Count THEN e ELSE Entry(k)
  BY <1>5, <1>8 DEF Count, Entry
<1>10. \A k \in 1..Count :
          /\ Entry(k)'.ino = Entry(k).ino
          /\ Entry(k)'.start = Entry(k).start
          /\ Entry(k)'.end = Entry(k).end
          /\ Entry(k)'.name = IF k = Count THEN store.seq ELSE Entry(k).name
  BY <1>2, <1>4, <1>9
<1>11. writer'.pc = "evict"
  BY PlaceEffect DEF UpdateCatalog, Places
<1>12. \A n \in Nat : Named(n)' = Named(n)
  BY <1>1 DEF Named
<1>13. StoreTypes'
  BY <1>1, <1>8 DEF StoreTypes
<1>14. Opened'
  BY <1>1, <1>3, <1>8, <1>11 DEF Opened
<1>15. InOrder' /\ Distinct' /\ Contents'
  BY <1>1, <1>2, <1>8, <1>9, <1>10, <1>11, <1>12
     DEF InOrder, Distinct, Contents
<1>16. \A k \in 1..Count : Stands(k)'
  BY <1>1, <1>2, <1>3, <1>4, <1>6, <1>9, <1>10, <1>11, <1>12
     DEF Catalogued, Stands
<1>17. /\ \A k \in 1..Count : Entry(k)'.start < Entry(k)'.end
       /\ conf'.pc = "done"
  BY <1>1, <1>2, <1>10 DEF InOrder, Admitted
<1>18. Catalogued'
  BY <1>2, <1>3, <1>8, <1>9, <1>10, <1>11, <1>12, <1>16, <1>17
     DEF Catalogued
<1>19. QED
  BY <1>8, <1>9, <1>10, <1>11, <1>13, <1>14, <1>15, <1>18

LEMMA EvictKeepsCatalog ==
  ASSUME Catalog, BrokerTypes, Admitted, Evict, UNCHANGED conf
  PROVE  Catalog'
<1> USE DEF Catalog
<1>1. /\ writer.pc = "evict" /\ UNCHANGED store
      /\ conf'.pc = "done"
  BY DEF Evict, Admitted
<1>2. /\ Count \in Nat /\ Count > 0
      /\ \A k \in 1..Count :
            /\ Entry(k) \in Entries
            /\ Entry(k).name \in Nat /\ Entry(k).ino \in Inodes
            /\ Entry(k).start \in Int /\ Entry(k).end \in Int
  <2>1. Len(store.spans) >= MaxFiles /\ MaxFiles \in Nat \ {0}
    BY StorageBounds DEF Evict
  <2>2. QED
    BY <2>1, SpansAreTyped DEF Count
<1>3. /\ store.open /\ Named(0) = 0
      /\ \A k \in 1..Count : Named(Entry(k).name) = Entry(k).ino
      /\ \A k \in 1..Count : Entry(k).start < Entry(k).end
      /\ \A k \in 1..Count : Entry(k).name <= store.seq
  BY <1>1 DEF Opened, Catalogued, Stands
<1>4. CASE Failing /\ UNCHANGED <<names, content>>
  <2>1. writer'.pc = "ended"
    BY <1>4 DEF Failing, BrokerTypes
  <2>2. QED
    BY <1>1, <1>4, <2>1, EndKeepsCatalog
<1>5. CASE /\ names' = [names EXCEPT ![store.spans[1].name] = 0]
           /\ content' = [content EXCEPT ![store.spans[1].ino] = Gone]
           /\ GoWriter("drop")
  <2>1. /\ DOMAIN names' = DOMAIN names
        /\ names' \in [DOMAIN names' -> 0..MaxInode]
        /\ \A m \in Nat : Named(m)' = IF m = Entry(1).name THEN 0
                                      ELSE Named(m)
    <3>1. /\ names' = [names EXCEPT ![Entry(1).name] = 0]
          /\ 0 \in 0..MaxInode
      BY <1>5, StorageBounds DEF Entry
    <3>2. QED
      BY <3>1 DEF StoreTypes, Named
  <2>2. /\ content' \in [Inodes -> [from : Int, len : Int]]
        /\ \A i \in Inodes : i # Entry(1).ino => content'[i] = content[i]
    BY <1>2, <1>5 DEF StoreTypes, Gone, Entry
  <2>3. Count' = Count /\ \A k \in 1..Count : Entry(k)' = Entry(k)
    BY <1>1 DEF Count, Entry
  <2>4. writer'.pc = "drop"
    BY <1>5, PlaceEffect DEF Places
  <2>5. StoreTypes'
    BY <1>1, <2>1, <2>2 DEF StoreTypes
  <2>6. Opened' /\ InOrder'
    BY <1>1, <1>3, <2>3, <2>4 DEF Opened, InOrder
  <2>7. \A m, n \in Nat : Named(m)' = Named(n)' /\ Named(m)' # 0 => m = n
    BY <1>2, <2>1 DEF Distinct
  <2>8. Distinct'
    BY <2>3, <2>7 DEF Distinct
  <2>9. \A k \in 1..Count : k # 1 => Entry(k).ino # Entry(1).ino
    BY <1>2 DEF Distinct
  <2>10. Contents'
    BY <1>1, <1>2, <2>2, <2>3, <2>4, <2>9 DEF Contents
  <2>11. \A k \in 1..Count : Stands(k)'
    <3>1. \A n \in Nat : Named(n)' # Entry(1).ino
      BY <1>2, <1>3, <2>1, StorageBounds DEF Distinct, Inodes
    <3>2. \A k \in 1..Count : k # 1 =>
             \A n \in Nat : n = Entry(k).name => Named(n)' = Entry(k).ino
      BY <1>2, <1>3, <2>1, <2>9
    <3>3. QED
      BY <1>2, <2>3, <2>4, <3>1, <3>2 DEF Stands
  <2>12. Catalogued'
    BY <1>1, <1>2, <1>3, <2>1, <2>3, <2>4, <2>11 DEF Catalogued
  <2>13. QED
    BY <2>5, <2>6, <2>8, <2>10, <2>12
<1>6. QED
  BY <1>4, <1>5 DEF Evict

LEMMA DropKeepsCatalog ==
  ASSUME Catalog, BrokerTypes, Admitted, DropSpan, UNCHANGED conf
  PROVE  /\ Catalog' /\ Count' = Count - 1 /\ store'.acked = store.acked
         /\ writer'.pc = "evict"
         /\ \A k \in 1..Count - 1 : Entry(k)' = Entry(k + 1)
<1> USE DEF Catalog
<1>1. /\ writer.pc = "drop" /\ UNCHANGED <<names, content>>
      /\ conf'.pc = "done"
  BY DEF DropSpan, Admitted
<1>2. /\ Count \in Nat /\ Count > 0 /\ store.spans \in Seq(Entries)
      /\ store.spans # <<>>
      /\ \A k \in 1..Count :
            /\ Entry(k) \in Entries
            /\ Entry(k).name \in Nat /\ Entry(k).ino \in Inodes
            /\ Entry(k).start \in Int /\ Entry(k).end \in Int
  BY <1>1, SpansAreTyped DEF Catalogued
<1>3. /\ store.open /\ Named(0) = 0
      /\ \A k \in 2..Count : Named(Entry(k).name) = Entry(k).ino
      /\ \A k \in 1..Count : Entry(k).start < Entry(k).end
      /\ \A k \in 1..Count : Entry(k).name <= store.seq
  BY <1>1, <1>2 DEF Opened, Catalogued, Stands
<1> DEFINE s == Tail(store.spans)
<1>4. /\ s \in Seq(Entries) /\ Len(s) = Count - 1
      /\ \A k \in 1..Count - 1 : s[k] = store.spans[k + 1]
  BY <1>2, HeadTailProperties DEF Count
<1>5. store' = [store EXCEPT !.spans = s]
  BY DEF DropSpan
<1> HIDE DEF s
<1>6. /\ store' \in Stores /\ store'.open = store.open
      /\ store'.seq = store.seq /\ store'.acked = store.acked
      /\ store'.spans = s
  BY <1>4, <1>5 DEF StoreTypes, Stores
<1>7. Count' = Count - 1 /\ \A k \in 1..Count - 1 : Entry(k)' = Entry(k + 1)
  BY <1>4, <1>6 DEF Count, Entry
<1>8. writer'.pc = "evict"
  BY PlaceEffect DEF DropSpan, Places
<1>9. \A n \in Nat : Named(n)' = Named(n)
  BY <1>1 DEF Named
<1>10. StoreTypes'
  BY <1>1, <1>6 DEF StoreTypes
<1>11. Opened'
  BY <1>1, <1>3, <1>6, <1>8 DEF Opened
<1>12. \A k \in 1..Count' :
          /\ k + 1 \in 1..Count /\ k + 1 # 1 /\ k + 1 \in 2..Count
          /\ Entry(k)' = Entry(k + 1)
  BY <1>2, <1>7
<1>13. InOrder'
  BY <1>2, <1>6, <1>12 DEF InOrder
<1>14. Distinct'
  <2>1. \A j, k \in 1..Count' : Entry(j)'.ino = Entry(k)'.ino => j = k
    <3> SUFFICES ASSUME NEW j \in 1..Count', NEW k \in 1..Count',
                        Entry(j)'.ino = Entry(k)'.ino
                 PROVE  j = k
      OBVIOUS
    <3>1. j + 1 = k + 1
      BY <1>12 DEF Distinct
    <3>2. QED
      BY <1>2, <1>7, <3>1
  <2>2. QED
    BY <1>9, <2>1 DEF Distinct
<1>15. Contents'
  BY <1>1, <1>8, <1>12 DEF Contents
<1>16. \A k \in 1..Count' : Stands(k)'
  <2>1. \A k \in 1..Count' :
           \A n \in Nat : n = Entry(k + 1).name => Named(n)' = Entry(k + 1).ino
    BY <1>2, <1>3, <1>9, <1>12
  <2>2. QED
    BY <1>2, <1>8, <1>12, <2>1 DEF Stands
<1>17. Catalogued'
  BY <1>1, <1>2, <1>3, <1>6, <1>8, <1>9, <1>12, <1>16 DEF Catalogued
<1>18. QED
  BY <1>6, <1>7, <1>8, <1>10, <1>11, <1>13, <1>14, <1>15, <1>17

LEMMA CreateKeepsCatalog ==
  ASSUME Catalog, BrokerTypes, Admitted, CreateActive, UNCHANGED conf
  PROVE  /\ Catalog'
         /\ \/ writer'.pc = "ended" /\ UNCHANGED store
            \/ /\ Count' = Count + 1 /\ store'.acked = store.acked
               /\ writer'.pc = "append"
               /\ \A k \in 1..Count : Entry(k)' = Entry(k)
               /\ Entry(Count)'.start = store.acked
               /\ Entry(Count)'.end = store.acked
               /\ \E i \in FreeInodes : Entry(Count)'.ino = i
<1> USE DEF Catalog
<1>1. /\ writer.pc = "evict" /\ conf'.pc = "done"
  BY DEF CreateActive, Admitted
<1>2. /\ Count \in Nat /\ store.spans \in Seq(Entries)
      /\ \A k \in 1..Count :
            /\ Entry(k) \in Entries
            /\ Entry(k).name \in Nat /\ Entry(k).ino \in Inodes
            /\ Entry(k).start \in Int /\ Entry(k).end \in Int
  BY SpansAreTyped
<1>3. /\ store.open /\ Named(0) = 0 /\ store.acked \in Nat
      /\ store.seq \in Nat
      /\ \A k \in 1..Count : Named(Entry(k).name) = Entry(k).ino
      /\ \A k \in 1..Count : Entry(k).start < Entry(k).end
      /\ \A k \in 1..Count : Entry(k).name <= store.seq
  BY <1>1 DEF Opened, Catalogued, Stands, StoreTypes, Stores
<1>4. CASE Failing /\ UNCHANGED <<names, content, store>>
  <2>1. writer'.pc = "ended"
    BY <1>4 DEF Failing, BrokerTypes
  <2>2. Catalog'
    BY <1>1, <1>4, <2>1, EndKeepsCatalog
  <2>3. QED
    BY <1>4, <2>1, <2>2
<1>5. ASSUME NEW i \in FreeInodes,
             names' = Name(0, i),
             content' = [content EXCEPT ![i].from = store.acked],
             store' = [store EXCEPT !.spans =
                         Append(@, Span(0, i, store.acked, store.acked))],
             GoWriter("append")
      PROVE  /\ Catalog'
             /\ Count' = Count + 1 /\ store'.acked = store.acked
             /\ \A k \in 1..Count : Entry(k)' = Entry(k)
             /\ writer'.pc = "append"
             /\ Entry(Count)'.start = store.acked
             /\ Entry(Count)'.end = store.acked
             /\ Entry(Count)'.ino = i
  <2>1. /\ i \in Inodes /\ i \in 0..MaxInode /\ i # 0
        /\ \A n \in Nat : Named(n) # i
    BY FreeInodeIsFree
  <2> DEFINE e == Span(0, i, store.acked, store.acked)
             s == Append(store.spans, e)
  <2>2. /\ e \in Entries /\ e.name = 0 /\ e.ino = i
        /\ e.start = store.acked /\ e.end = store.acked
    BY <1>3, <2>1 DEF Span, Entries
  <2> HIDE DEF e
  <2>3. /\ s \in Seq(Entries) /\ Len(s) = Count + 1
        /\ \A k \in 1..Count : s[k] = store.spans[k]
        /\ s[Count + 1] = e
    BY <1>2, <2>2, AppendProperties DEF Count
  <2>4. store' = [store EXCEPT !.spans = s]
    BY <1>5 DEF e
  <2> HIDE DEF s
  <2>5. /\ store' \in Stores /\ store'.open = store.open
        /\ store'.seq = store.seq /\ store'.acked = store.acked
        /\ store'.spans = s
    <3> DEFINE t == [store EXCEPT !.spans = s]
    <3>1. /\ t \in Stores /\ t.open = store.open
          /\ t.seq = store.seq /\ t.acked = store.acked
          /\ t.spans = s
      BY <2>3 DEF StoreTypes, Stores
    <3>2. store' = t
      BY <2>4
    <3> HIDE DEF t
    <3>3. QED
      BY <3>1, <3>2
  <2>6. /\ Count' = Count + 1 /\ \A k \in 1..Count : Entry(k)' = Entry(k)
        /\ Entry(Count)' = e /\ Active' = e
    <3>1. Count' = Count + 1
      BY <2>3, <2>5 DEF Count
    <3>2. QED
      BY <1>2, <2>3, <2>5, <3>1 DEF Count, Entry, Active
  <2>7. writer'.pc = "append"
    BY <1>5, PlaceEffect DEF Places
  <2>8. /\ DOMAIN names' \subseteq Nat /\ 0 \in DOMAIN names'
        /\ names' \in [DOMAIN names' -> 0..MaxInode]
        /\ \A m \in Nat : Named(m)' = IF m = 0 THEN i ELSE Named(m)
    BY <1>5, <2>1, NameEffect
  <2>9. /\ content' \in [Inodes -> [from : Int, len : Int]]
        /\ content'[i].from = store.acked
        /\ \A j \in Inodes : j # i => content'[j] = content[j]
    <3>1. /\ content \in [Inodes -> [from : Int, len : Int]]
          /\ store.acked \in Int /\ i \in Inodes
      BY <1>3, <2>1 DEF StoreTypes
    <3>2. content' = [content EXCEPT ![i].from = store.acked]
      BY <1>5
    <3>3. QED
      BY <3>1, <3>2
  <2>10. \A k \in 1..Count : Entry(k).ino # i
    BY <1>2, <1>3, <2>1
  <2>11. \A k \in 1..Count' : k \in 1..Count \/ k = Count + 1
    BY <1>2, <2>6
  <2>12. StoreTypes'
    BY <2>5, <2>8, <2>9 DEF StoreTypes
  <2>13. Opened'
    BY <1>3, <2>5, <2>7 DEF Opened
  <2>14. InOrder'
    <3>1. \A k \in 1..Count :
             /\ Entry(k)'.start = Entry(k).start
             /\ Entry(k)'.end = Entry(k).end
             /\ Entry(k).end <= store.acked
      BY <2>6 DEF InOrder
    <3>2. \A k \in 1..Count' :
             Entry(k)'.start <= Entry(k)'.end /\ Entry(k)'.end <= store.acked
      <4>1. \A k \in 1..Count : Entry(k)'.start <= Entry(k)'.end
        BY <3>1 DEF InOrder
      <4>2. \A k \in 1..Count' : k = Count + 1 =>
               Entry(k)'.start = store.acked /\ Entry(k)'.end = store.acked
        BY <2>2, <2>6
      <4>3. QED
        BY <1>3, <2>11, <3>1, <4>1, <4>2
    <3>3. ASSUME NEW j \in 1..Count', NEW k \in 1..Count', j < k
          PROVE  /\ Entry(j)'.end <= Entry(k)'.start
                 /\ Entry(j)'.start < Entry(j)'.end
      <4>1. j \in 1..Count
        BY <1>2, <2>6, <3>3
      <4>2. CASE k \in 1..Count
        BY <3>1, <3>3, <4>1, <4>2 DEF InOrder
      <4>3. CASE k = Count + 1
        <5>1. Entry(k)'.start = store.acked /\ Count > 0
          BY <1>2, <2>2, <2>6, <4>1, <4>3
        <5>2. Entry(j).start < Entry(j).end
          BY <1>3, <4>1
        <5>3. QED
          BY <3>1, <4>1, <5>1, <5>2
      <4>4. QED
        BY <2>11, <4>2, <4>3
    <3>4. QED
      BY <2>5, <3>2, <3>3 DEF InOrder
  <2>15. Distinct'
    <3>1. \A m, n \in Nat : Named(m)' = Named(n)' /\ Named(m)' # 0 => m = n
      BY <2>1, <2>8 DEF Distinct
    <3>2. \A j, k \in 1..Count' : Entry(j)'.ino = Entry(k)'.ino => j = k
      BY <1>2, <2>2, <2>6, <2>10, <2>11 DEF Distinct
    <3>3. QED
      BY <3>1, <3>2 DEF Distinct
  <2>16. Contents'
    <3>1. \A k \in 1..Count :
             /\ Entry(k).ino \in Inodes /\ Entry(k).ino # i
             /\ content[Entry(k).ino].from = Entry(k).start
      BY <1>1, <1>2, <2>10 DEF Contents
    <3>2. \A k \in 1..Count :
             content'[Entry(k)'.ino].from = Entry(k)'.start
      BY <2>6, <2>9, <3>1
    <3>3. content'[Entry(Count)'.ino].from = Entry(Count)'.start
      BY <2>2, <2>6, <2>9
    <3>4. QED
      BY <2>6, <2>11, <3>2, <3>3 DEF Contents
  <2>17. \A k \in 1..Count' : Stands(k)'
    <3>1. \A k \in 1..Count :
             \A n \in Nat : n = Entry(k).name => Named(n)' = Entry(k).ino
      BY <1>2, <1>3, <2>1, <2>8, StorageBounds DEF Inodes
    <3>2. QED
      BY <1>2, <2>2, <2>6, <2>7, <2>8, <2>11, <3>1 DEF Stands
  <2>18. Catalogued'
    BY <1>1, <1>2, <1>3, <2>2, <2>5, <2>6, <2>7, <2>11, <2>17
       DEF Catalogued
  <2>19. Catalog'
    BY <2>12, <2>13, <2>14, <2>15, <2>16, <2>18
  <2>20. QED
    BY <2>2, <2>5, <2>6, <2>7, <2>19
<1>6. QED
  BY <1>4, <1>5 DEF CreateActive

\* A step that touches neither the store nor the place of the writer.
LEMMA CatalogFrame ==
  ASSUME Catalog, UNCHANGED <<names, content, store>>,
         writer'.pc = writer.pc,
         conf'.pc = "attach" <=> conf.pc = "attach"
  PROVE  Catalog'
<1> USE DEF Catalog
<1>1. /\ Count' = Count /\ \A k \in 1..Count : Entry(k)' = Entry(k)
      /\ Active' = Active
  BY DEF Count, Entry, Active
<1>2. \A n \in Nat : Named(n)' = Named(n)
  BY DEF Named
<1>3. StoreTypes' /\ Opened' /\ InOrder' /\ Distinct' /\ Contents'
  BY <1>1, <1>2
     DEF StoreTypes, Opened, InOrder, Distinct, Contents
<1>4. \A k \in 1..Count : Stands(k) => Stands(k)'
  <2> SUFFICES ASSUME NEW k \in 1..Count, Stands(k) PROVE Stands(k)'
    OBVIOUS
  <2>1. UNCHANGED <<names, store>>
    OBVIOUS
  <2>2. Named(Entry(k).name)' = Named(Entry(k).name)
        /\ Named(store.rotating.name)' = Named(store.rotating.name)
    BY <2>1 DEF Named, Entry
  <2>3. QED
    BY <1>1, <1>2, <2>2 DEF Stands
<1>5. Catalogued'
  BY <1>1, <1>2, <1>4 DEF Catalogued
<1>6. QED
  BY <1>3, <1>5

LEMMA InitCatalog == Init => Catalog
<1> SUFFICES ASSUME Init PROVE Catalog
  OBVIOUS
<1> USE StorageBounds, LogBounds
<1>1. PICK old \in 0..MaxOld : StorageInit(old)
  BY DEF Init
<1>2. /\ names = [n \in {0} |-> IF old = 0 THEN 0 ELSE 1]
      /\ content = [i \in Inodes |-> [from |-> -old,
                                      len |-> IF i = 1 THEN old ELSE 0]]
      /\ store = [open |-> FALSE, spans |-> <<>>, rotating |-> NoSpan,
                  acked |-> 0, seq |-> 0]
      /\ writer.pc = "none" /\ conf.pc = "idle" /\ old \in Nat
  BY <1>1 DEF StorageInit, Init, NoWriter
<1>3. /\ DOMAIN names = {0} /\ Named(0) = IF old = 0 THEN 0 ELSE 1
      /\ \A n \in Nat : n # 0 => Named(n) = 0
      /\ names \in [DOMAIN names -> 0..MaxInode]
  BY <1>2 DEF Named
<1>4. Count = 0 /\ store.spans = <<>>
  BY <1>2 DEF Count
<1>5. StoreTypes
  <2>1. <<>> \in Seq(Entries) /\ NoSpan \in Rotations
    BY EmptySeq DEF NoSpan, Rotations
  <2>2. QED
    BY <1>2, <1>3, <2>1 DEF StoreTypes, Stores, Inodes
<1>6. Opened
  <2>1. 1 \in Inodes
    BY DEF Inodes
  <2>2. content[1].len = old /\ content[1].from = -old
    BY <1>2, <2>1
  <2>3. QED
    BY <1>2, <1>3, <2>2 DEF Opened
<1>7. InOrder /\ Distinct /\ Contents /\ Catalogued
  BY <1>2, <1>3, <1>4 DEF InOrder, Distinct, Contents, Catalogued
<1>8. QED
  BY <1>5, <1>6, <1>7 DEF Catalog

LEMMA AttachKeepsCatalog ==
  ASSUME Catalog, BrokerTypes, Admitted, Attach
  PROVE  Catalog'
<1> USE DEF Catalog
<1>1. /\ conf.pc = "attach" /\ conf'.pc = "done" /\ writer.pc = "none"
      /\ writer'.pc = "idle" /\ UNCHANGED <<names, content, store>>
  <2>1. conf.pc = "attach" /\ conf' = [conf EXCEPT !.pc = "done"]
        /\ UNCHANGED <<names, content, store>>
    BY DEF Attach
  <2>2. writer'.pc = "idle"
    BY DEF Attach, NoWriter
  <2>3. QED
    BY <2>1, <2>2 DEF Admitted, BrokerTypes
<1>2. /\ Count' = Count /\ \A k \in 1..Count : Entry(k)' = Entry(k)
      /\ Active' = Active
  BY <1>1 DEF Count, Entry, Active
<1>3. \A n \in Nat : Named(n)' = Named(n)
  BY <1>1 DEF Named
<1>4. StoreTypes' /\ Opened' /\ InOrder' /\ Distinct' /\ Contents'
  BY <1>1, <1>2, <1>3 DEF StoreTypes, Opened, InOrder, Distinct, Contents
<1>5. \A k \in 1..Count : Stands(k)'
  <2>1. \A k \in 1..Count : Named(Entry(k).name) = Entry(k).ino
    BY <1>1 DEF Catalogued, Stands
  <2>2. \A k \in 1..Count : Named(Entry(k).name)' = Entry(k).ino
    BY <1>1, <2>1 DEF Named, Entry
  <2>3. QED
    BY <1>1, <1>2, <2>2 DEF Stands
<1>6. Catalogued'
  BY <1>1, <1>2, <1>3, <1>5 DEF Catalogued
<1>7. QED
  BY <1>4, <1>6

\* The admission of a directory: what it holds when the first byte of this
\* controller is this one.
LEMMA OpenKeepsCatalog ==
  ASSUME Catalog, BrokerTypes, Admitted, rd.pc = "idle", OpenStore
  PROVE  Catalog'
<1> USE DEF Catalog
<1>1. /\ conf.pc = "open" /\ writer.pc = "none" /\ writer'.pc = "none"
      /\ conf.start \in Nat /\ ~store.open
  BY DEF OpenStore, Admitted, BrokerTypes, Opened
<1>2. /\ store.spans = <<>> /\ DOMAIN names = {0}
      /\ store.acked = 0 /\ store.seq = 0 /\ Named(0) = names[0]
      /\ names[0] # 0 => /\ names[0] = 1 /\ content[1].len > 0
                         /\ content[1].from = -content[1].len
  BY <1>1 DEF Opened, Named
<1>3. /\ store \in Stores /\ content \in [Inodes -> [from : Int, len : Int]]
      /\ 1 \in Inodes /\ 2 \in Inodes
  BY StorageBounds DEF StoreTypes, Inodes
<1>5. CASE conf'.pc = "done" /\ UNCHANGED <<names, content, store>>
  BY <1>1, <1>5, CatalogFrame DEF OpenStore
<1>6. CASE Admit(conf.start) /\ conf'.pc = "attach"
  <2> DEFINE start == conf.start
             ino == Named(0)
             old == content[ino].len
             fresh == CHOOSE i \in FreeInodes : TRUE
             file == Span(0, fresh, start, start)
             archive == Span(1, ino, -old, 0)
  <2>1. /\ fresh \in Inodes /\ fresh \in 0..MaxInode /\ fresh # 0
        /\ fresh # ino
    <3>1. \E i \in Inodes : i # names[0]
      BY <1>2, <1>3
    <3>2. FreeInodes # {}
      BY <1>2, <3>1 DEF FreeInodes
    <3>3. fresh \in FreeInodes
      BY <3>2
    <3> HIDE DEF fresh
    <3>4. QED
      BY <1>2, <3>3, FreeInodeIsFree
  <2>2. /\ file \in Entries /\ file.name = 0 /\ file.ino = fresh
        /\ file.start = start /\ file.end = start
    BY <1>1, <2>1 DEF Span, Entries
  <2>3. ino # 0 =>
        /\ ino = 1 /\ old \in Int /\ old > 0 /\ content[ino].from = -old
        /\ archive \in Entries /\ archive.name = 1 /\ archive.ino = ino
        /\ archive.start = -old /\ archive.end = 0
    <3>1. ino # 0 => /\ ino = 1 /\ old \in Int /\ old > 0
                     /\ content[ino].from = -old
      BY <1>2, <1>3
    <3>2. QED
      BY <1>3, <3>1 DEF Span, Entries
  <2> HIDE DEF fresh
  <2>4. CASE ino = 0
    <3>1. /\ names' = Name(0, fresh)
          /\ content' = [content EXCEPT ![fresh] =
                           [from |-> start, len |-> 0]]
          /\ store' = [store EXCEPT !.open = TRUE, !.acked = start,
                         !.spans = <<file>>]
      BY <1>6, <2>4 DEF Admit, fresh
    <3> DEFINE s == <<file>>
    <3>2. s \in Seq(Entries) /\ Len(s) = 1 /\ s[1] = file
      BY <2>2
    <3> HIDE DEF s, file
    <3>3. /\ store' \in Stores /\ store'.open /\ store'.acked = start
          /\ store'.spans = s /\ store'.seq = 0
      <4> DEFINE t == [store EXCEPT !.open = TRUE, !.acked = start,
                                    !.spans = s]
      <4>1. /\ t \in Stores /\ t.open /\ t.acked = start
            /\ t.spans = s /\ t.seq = 0
        BY <1>1, <1>2, <1>3, <3>2 DEF Stores
      <4>2. store' = t
        BY <3>1 DEF s
      <4> HIDE DEF t
      <4>3. QED
        BY <4>1, <4>2
    <3>4. Count' = 1 /\ Entry(1)' = file /\ Active' = file
      BY <3>2, <3>3 DEF Count, Entry, Active
    <3>5. /\ DOMAIN names' \subseteq Nat /\ 0 \in DOMAIN names'
          /\ names' \in [DOMAIN names' -> 0..MaxInode]
          /\ \A m \in Nat : Named(m)' = IF m = 0 THEN fresh ELSE Named(m)
      BY <2>1, <3>1, NameEffect
    <3>6. /\ content' \in [Inodes -> [from : Int, len : Int]]
          /\ content'[fresh].from = start
      BY <1>1, <1>3, <2>1, <3>1
    <3>7. \A m \in Nat : m # 0 => Named(m)' = 0
      BY <1>2, <3>5 DEF Named
    <3>8. StoreTypes' /\ Opened'
      BY <1>6, <3>3, <3>5, <3>6 DEF StoreTypes, Opened
    <3>9. InOrder' /\ Contents'
      BY <1>1, <2>2, <3>3, <3>4, <3>6 DEF InOrder, Contents
    <3>10. Distinct'
      BY <2>1, <3>4, <3>5, <3>7 DEF Distinct
    <3>11. Stands(1)'
      BY <1>1, <2>2, <3>4, <3>5 DEF Stands
    <3>12. Catalogued'
      BY <1>1, <2>2, <3>3, <3>4, <3>11 DEF Catalogued
    <3>13. QED
      BY <3>8, <3>9, <3>10, <3>12
  <2>5. CASE ino # 0 /\ start = 0
    <3> DEFINE e == Span(0, ino, -old, 0)
               s == <<e>>
    <3>1. /\ UNCHANGED <<names, content>>
          /\ store' = [store EXCEPT !.open = TRUE, !.spans = <<e>>]
      BY <1>6, <2>5 DEF Admit
    <3>2. /\ e \in Entries /\ e.name = 0 /\ e.ino = ino
          /\ e.start = -old /\ e.end = 0
      BY <1>3, <2>3, <2>5 DEF Span, Entries
    <3> HIDE DEF e
    <3>3. s \in Seq(Entries) /\ Len(s) = 1 /\ s[1] = e
      BY <3>2
    <3> HIDE DEF s
    <3>4. /\ store' \in Stores /\ store'.open /\ store'.acked = 0
          /\ store'.spans = s /\ store'.seq = 0
      <4> DEFINE t == [store EXCEPT !.open = TRUE, !.spans = s]
      <4>1. /\ t \in Stores /\ t.open /\ t.acked = 0
            /\ t.spans = s /\ t.seq = 0
        BY <1>1, <1>2, <1>3, <3>3 DEF Stores
      <4>2. store' = t
        BY <3>1 DEF s
      <4> HIDE DEF t
      <4>3. QED
        BY <4>1, <4>2
    <3>5. Count' = 1 /\ Entry(1)' = e /\ Active' = e
      BY <3>3, <3>4 DEF Count, Entry, Active
    <3>6. \A m \in Nat : Named(m)' = Named(m)
      BY <3>1 DEF Named
    <3>7. \A m \in Nat : m # 0 => Named(m)' = 0
      BY <1>2, <3>6 DEF Named
    <3>8. StoreTypes' /\ Opened'
      BY <1>6, <3>1, <3>4 DEF StoreTypes, Opened
    <3>9. InOrder' /\ Contents'
      BY <2>3, <2>5, <3>1, <3>2, <3>4, <3>5 DEF InOrder, Contents
    <3>10. Distinct'
      BY <3>5, <3>7 DEF Distinct
    <3>11. Stands(1)'
      BY <1>1, <3>2, <3>5, <3>6 DEF Stands
    <3>12. Catalogued'
      BY <1>1, <3>2, <3>4, <3>5, <3>11 DEF Catalogued
    <3>13. QED
      BY <3>8, <3>9, <3>10, <3>12
  <2>6. CASE ino # 0 /\ start # 0
    <3> DEFINE kept == MaxFiles > 1
               s == (IF kept THEN <<archive>> ELSE <<>>) \o <<file>>
    <3>1. /\ names' = [n \in {0, 1} |-> IF n = 0 THEN fresh ELSE
                                        IF MaxFiles > 1 THEN ino ELSE 0]
          /\ content' = [content EXCEPT ![fresh] =
                           [from |-> start, len |-> 0]]
          /\ store' = [store EXCEPT !.open = TRUE, !.acked = start,
                         !.seq = 1, !.spans = s]
      BY <1>6, <2>6 DEF Admit, fresh
    <3> HIDE DEF file, archive
    <3>2. /\ s \in Seq(Entries)
          /\ kept => Len(s) = 2 /\ s[1] = archive /\ s[2] = file
          /\ ~kept => Len(s) = 1 /\ s[1] = file
      <4>1. /\ <<file>> \in Seq(Entries) /\ <<archive>> \in Seq(Entries)
            /\ <<>> \in Seq(Entries)
        BY <2>2, <2>3, <2>6
      <4>2. CASE kept
        <5>1. s = <<archive>> \o <<file>>
          BY <4>2
        <5>2. /\ <<archive>> \o <<file>> \in Seq(Entries)
              /\ Len(<<archive>> \o <<file>>) = 2
              /\ (<<archive>> \o <<file>>)[1] = archive
              /\ (<<archive>> \o <<file>>)[2] = file
          BY <4>1, ConcatProperties
        <5> HIDE DEF s
        <5>3. QED
          BY <4>2, <5>1, <5>2
      <4>3. CASE ~kept
        <5>1. s = <<file>>
          BY <4>1, <4>3
        <5>2. QED
          BY <4>1, <4>3, <5>1
      <4>4. QED
        BY <4>2, <4>3
    <3> HIDE DEF s
    <3>3. /\ store' \in Stores /\ store'.open /\ store'.acked = start
          /\ store'.spans = s /\ store'.seq = 1
      <4> DEFINE t == [store EXCEPT !.open = TRUE, !.acked = start,
                                    !.seq = 1, !.spans = s]
      <4>1. /\ t \in Stores /\ t.open /\ t.acked = start
            /\ t.spans = s /\ t.seq = 1
        BY <1>1, <1>2, <1>3, <3>2 DEF Stores
      <4>2. store' = t
        BY <3>1
      <4> HIDE DEF t
      <4>3. QED
        BY <4>1, <4>2
    <3>4. /\ Count' = IF kept THEN 2 ELSE 1
          /\ kept => Entry(1)' = archive /\ Entry(2)' = file
          /\ ~kept => Entry(1)' = file
          /\ Active' = file
      BY <3>2, <3>3 DEF Count, Entry, Active
    <3>5. /\ DOMAIN names' = {0, 1}
          /\ names' \in [DOMAIN names' -> 0..MaxInode]
          /\ Named(0)' = fresh /\ Named(1)' = IF kept THEN ino ELSE 0
          /\ \A m \in Nat : m \notin {0, 1} => Named(m)' = 0
      <4>1. /\ DOMAIN names' = {0, 1} /\ names'[0] = fresh
            /\ names'[1] = IF kept THEN ino ELSE 0
            /\ names' = [n \in DOMAIN names' |-> names'[n]]
        BY <3>1
      <4>2. ino \in 0..MaxInode
        BY NamesAreTyped
      <4>3. names' \in [DOMAIN names' -> 0..MaxInode]
        BY <2>1, <4>1, <4>2, StorageBounds
      <4>4. QED
        BY <4>1, <4>3 DEF Named
    <3>6. /\ content' \in [Inodes -> [from : Int, len : Int]]
          /\ content'[fresh].from = start
          /\ content'[ino].from = content[ino].from
      BY <1>1, <1>3, <2>1, <2>3, <2>6, <3>1
    <3>7. StoreTypes' /\ Opened'
      BY <1>6, <3>3, <3>5, <3>6 DEF StoreTypes, Opened
    <3>8. InOrder' /\ Contents'
      BY <1>1, <2>2, <2>3, <2>6, <3>3, <3>4, <3>6 DEF InOrder, Contents
    <3>9. Distinct'
      BY <2>1, <2>2, <2>3, <2>6, <3>4, <3>5 DEF Distinct
    <3>10. \A k \in 1..Count' : Stands(k)'
      BY <1>1, <2>2, <2>3, <2>6, <3>4, <3>5 DEF Stands
    <3>11. Catalogued'
      BY <1>1, <2>2, <2>3, <2>6, <3>3, <3>4, <3>10 DEF Catalogued
    <3>12. QED
      BY <3>7, <3>8, <3>9, <3>11
  <2>7. QED
    BY <2>4, <2>5, <2>6
<1>7. QED
  <2>1. \/ Admit(conf.start) /\ conf' = [conf EXCEPT !.pc = "attach"]
        \/ /\ conf' = [conf EXCEPT !.pc = "done"]
           /\ UNCHANGED <<names, content, store>>
    BY DEF OpenStore
  <2>2. QED
    BY <1>5, <1>6, <2>1 DEF BrokerTypes

-----------------------------------------------------------------------------
(* 3. Some elements of a sequence.                                         *)

\* The places that are kept have the ranks 1 to their number, in order.
LEMMA Ranks ==
  ASSUME NEW n \in Nat, NEW I \in SUBSET (1..n)
  PROVE  /\ Cardinality(I) \in Nat
         /\ \A i \in I : Rank(i, I) \in 1..Cardinality(I)
         /\ \A i, j \in I : i < j => Rank(i, I) < Rank(j, I)
         /\ \A m \in 1..Cardinality(I) : \E i \in I : Rank(i, I) = m
<1> DEFINE Upto(i) == {j \in I : j <= i}
           c == Cardinality(I)
<1>1. IsFiniteSet(I) /\ c \in Nat
  <2>1. IsFiniteSet(1..n)
    BY FS_Interval
  <2>2. IsFiniteSet(I)
    BY <2>1, FS_Subset
  <2>3. QED
    BY <2>2, FS_CardinalityType
<1>2. ASSUME NEW i \in I
      PROVE  /\ IsFiniteSet(Upto(i)) /\ Cardinality(Upto(i)) \in 1..c
  <2>1. Upto(i) \in SUBSET I /\ i \in Upto(i)
    OBVIOUS
  <2>2. IsFiniteSet(Upto(i)) /\ Cardinality(Upto(i)) <= c
    BY <1>1, <2>1, FS_Subset
  <2>3. Cardinality(Upto(i)) \in Nat /\ Cardinality(Upto(i)) # 0
    BY <2>1, <2>2, FS_CardinalityType, FS_EmptySet
  <2>4. QED
    BY <1>1, <2>2, <2>3
<1>3. ASSUME NEW i \in I, NEW j \in I, i < j
      PROVE  Cardinality(Upto(i)) < Cardinality(Upto(j))
  <2>1. Upto(i) \in SUBSET Upto(j) /\ j \in Upto(j) /\ j \notin Upto(i)
    <3>1. i \in Int /\ j \in Int /\ \A k \in I : k \in Int
      OBVIOUS
    <3>2. \A k \in I : k <= i => k <= j
      BY <1>3, <3>1
    <3>3. ~(j <= i) /\ j <= j
      BY <1>3, <3>1
    <3>4. QED
      BY <3>2, <3>3
  <2>2. IsFiniteSet(Upto(j))
    BY <1>2
  <2>3. /\ Cardinality(Upto(i)) <= Cardinality(Upto(j))
        /\ Cardinality(Upto(j)) = Cardinality(Upto(i)) => Upto(j) = Upto(i)
    BY <2>1, <2>2, FS_Subset
  <2>4. /\ Cardinality(Upto(i)) # Cardinality(Upto(j))
        /\ Cardinality(Upto(i)) \in 1..c /\ Cardinality(Upto(j)) \in 1..c
    BY <1>2, <2>1, <2>3
  <2>5. QED
    BY <1>1, <2>3, <2>4
<1>4. \A i : Rank(i, I) = Cardinality(Upto(i))
  BY DEF Rank
<1> HIDE DEF Upto, c
<1>5. /\ \A i \in I : Rank(i, I) \in 1..c
      /\ \A i, j \in I : i < j => Rank(i, I) < Rank(j, I)
  BY <1>2, <1>3, <1>4
<1>6. ASSUME NEW m \in 1..c, \A i \in I : Rank(i, I) # m
      PROVE  FALSE
  <2> DEFINE T == (1..c) \ {m}
             f == [i \in I |-> Rank(i, I)]
  <2>1. IsFiniteSet(T) /\ Cardinality(T) = c - 1
    <3>1. IsFiniteSet(1..c) /\ Cardinality(1..c) = c
      BY <1>1, FS_Interval
    <3>2. QED
      BY <3>1, FS_RemoveElement
  <2>2. f \in [I -> T]
    BY <1>5, <1>6
  <2>3. \A i \in I : f[i] = Rank(i, I)
    OBVIOUS
  <2> HIDE DEF T, f
  <2>4. Cardinality(T) < Cardinality(I)
    BY <1>1, <2>1 DEF c
  <2>5. PICK x \in I, y \in I : x # y /\ Rank(x, I) = Rank(y, I)
    <3>1. \E x, y \in I : x # y /\ f[x] = f[y]
      BY <1>1, <2>1, <2>2, <2>4, FS_PigeonHole
    <3>2. QED
      BY <2>3, <3>1
  <2>6. x \in Int /\ y \in Int /\ (x < y \/ y < x)
    BY <2>5
  <2>7. Rank(x, I) \in 1..c /\ Rank(y, I) \in 1..c
    BY <1>5
  <2>8. QED
    BY <1>1, <1>5, <2>5, <2>6, <2>7
<1>7. QED
  BY <1>1, <1>5, <1>6 DEF c

\* Keep has these elements of s, in their order.
LEMMA KeepProperties ==
  ASSUME NEW S, NEW s \in Seq(S), NEW I \in SUBSET (DOMAIN s)
  PROVE  /\ Keep(s, I) \in Seq(S)
         /\ \E g \in [1..Len(Keep(s, I)) -> I] :
               /\ \A n \in 1..Len(Keep(s, I)) : Keep(s, I)[n] = s[g[n]]
               /\ \A m, n \in 1..Len(Keep(s, I)) : m < n => g[m] < g[n]
               /\ \A i \in I : \E n \in 1..Len(Keep(s, I)) : g[n] = i
<1>1. Len(s) \in Nat /\ DOMAIN s = 1..Len(s) /\ \A i \in DOMAIN s : s[i] \in S
  BY LenProperties, ElementOfSeq
<1> DEFINE c == Cardinality(I)
           g == [n \in 1..c |-> CHOOSE i \in I : Rank(i, I) = n]
<1>2. I \in SUBSET (1..Len(s))
  BY <1>1
<1>3. /\ c \in Nat
      /\ \A i \in I : Rank(i, I) \in 1..c
      /\ \A i, j \in I : i < j => Rank(i, I) < Rank(j, I)
      /\ \A m \in 1..c : \E i \in I : Rank(i, I) = m
  BY <1>1, <1>2, Ranks
<1> HIDE DEF c
<1>4. g \in [1..c -> I] /\ \A n \in 1..c : Rank(g[n], I) = n
  <2>1. \A n \in 1..c : (CHOOSE i \in I : Rank(i, I) = n) \in I
                        /\ Rank(CHOOSE i \in I : Rank(i, I) = n, I) = n
    BY <1>3
  <2>2. QED
    BY <2>1
<1>5. Keep(s, I) = [n \in 1..c |-> s[g[n]]]
  BY DEF Keep, c
<1> HIDE DEF g
<1>6. /\ Keep(s, I) \in [1..c -> S]
      /\ \A n \in 1..c : Keep(s, I)[n] = s[g[n]]
  BY <1>1, <1>2, <1>4, <1>5
<1>7. Keep(s, I) \in Seq(S) /\ Len(Keep(s, I)) = c
  BY <1>3, <1>6
<1>8. ASSUME NEW m \in 1..c, NEW n \in 1..c, m < n PROVE g[m] < g[n]
  <2>1. g[m] \in I /\ g[n] \in I /\ g[m] \in Int /\ g[n] \in Int
    BY <1>2, <1>4
  <2>2. Rank(g[m], I) = m /\ Rank(g[n], I) = n
    BY <1>4
  <2>3. g[m] # g[n] /\ ~(g[n] < g[m])
    BY <1>3, <1>8, <2>1, <2>2
  <2>4. QED
    BY <2>1, <2>3
<1>9. ASSUME NEW i \in I PROVE \E n \in 1..c : g[n] = i
  <2>1. Rank(i, I) \in 1..c
    BY <1>3
  <2>2. g[Rank(i, I)] \in I /\ Rank(g[Rank(i, I)], I) = Rank(i, I)
    BY <1>4, <2>1
  <2>3. /\ g[Rank(i, I)] \in Int /\ i \in Int
        /\ ~(g[Rank(i, I)] < i) /\ ~(i < g[Rank(i, I)])
    BY <1>2, <1>3, <2>1, <2>2
  <2>4. g[Rank(i, I)] = i
    BY <2>3
  <2>5. QED
    BY <2>1, <2>4
<1>10. QED
  <2>1. /\ g \in [1..c -> I]
        /\ \A n \in 1..c : Keep(s, I)[n] = s[g[n]]
        /\ \A m, n \in 1..c : m < n => g[m] < g[n]
        /\ \A i \in I : \E n \in 1..c : g[n] = i
    BY <1>4, <1>6, <1>8, <1>9
  <2>2. QED
    BY <1>7, <2>1

-----------------------------------------------------------------------------
(* 4. The plan of a replay.                                                *)

Artifacts ==
    [name : Nat, ino : Inodes, start : Int, end : Int, off : Int]
Pieces ==
    [kind : {"file", "memory", "missing"}, ino : 0..MaxInode, start : Int,
     end : Int, off : Int, fend : Int]

\* Ranges that follow each other.
Ordered(s) == \A j, k \in 1..Len(s) : j < k => s[j].end <= s[k].start

\* A piece reads a file up to a place before which memory is not asked.
PieceOf(p, f, stop) ==
    /\ p.kind = "file" /\ p.ino = f.ino /\ p.start = f.start
    /\ p.off = f.off /\ p.fend = f.end /\ p.end = Least(f.end, stop)
    /\ p.start < p.end

Clip(s, stop) ==
    LET useful == Keep(s, {k \in DOMAIN s :
                             Least(s[k].end, stop) > s[k].start})
    IN [k \in DOMAIN useful |->
          FilePiece(useful[k], Least(useful[k].end, stop))]

LEMMA ClipProperties ==
  ASSUME NEW s \in Seq(Artifacts), Ordered(s), NEW stop \in Int
  PROVE  /\ Clip(s, stop) \in Seq(Pieces)
         /\ \A k \in 1..Len(Clip(s, stop)) :
               \E i \in 1..Len(s) : PieceOf(Clip(s, stop)[k], s[i], stop)
         /\ Ordered(Clip(s, stop))
         /\ \A i \in 1..Len(s) : Least(s[i].end, stop) > s[i].start =>
               \E k \in 1..Len(Clip(s, stop)) :
                  Clip(s, stop)[k].start = s[i].start
<1> DEFINE I == {k \in DOMAIN s : Least(s[k].end, stop) > s[k].start}
           useful == Keep(s, I)
           p(f) == FilePiece(f, Least(f.end, stop))
           c == Len(useful)
<1>1. /\ Len(s) \in Nat /\ DOMAIN s = 1..Len(s)
      /\ \A i \in 1..Len(s) : s[i] \in Artifacts
  BY LenProperties, ElementOfSeq
<1>2. I \in SUBSET (DOMAIN s)
      /\ \A i \in I : i \in 1..Len(s) /\ Least(s[i].end, stop) > s[i].start
  BY <1>1
<1>3. /\ useful \in Seq(Artifacts)
      /\ \E g \in [1..Len(useful) -> I] :
            /\ \A n \in 1..Len(useful) : useful[n] = s[g[n]]
            /\ \A m, n \in 1..Len(useful) : m < n => g[m] < g[n]
            /\ \A i \in I : \E n \in 1..Len(useful) : g[n] = i
  <2> HIDE DEF I
  <2>1. s \in Seq(Artifacts) /\ I \in SUBSET (DOMAIN s)
    BY <1>2
  <2>2. \A J \in SUBSET (DOMAIN s) :
           /\ Keep(s, J) \in Seq(Artifacts)
           /\ \E g \in [1..Len(Keep(s, J)) -> J] :
                 /\ \A n \in 1..Len(Keep(s, J)) : Keep(s, J)[n] = s[g[n]]
                 /\ \A m, n \in 1..Len(Keep(s, J)) : m < n => g[m] < g[n]
                 /\ \A i \in J : \E n \in 1..Len(Keep(s, J)) : g[n] = i
    BY KeepProperties
  <2>3. QED
    BY <2>1, <2>2
<1>4. /\ useful \in Seq(Artifacts) /\ c \in Nat /\ DOMAIN useful = 1..c
      /\ \A k \in 1..c : useful[k] \in Artifacts
  BY <1>3, LenProperties, ElementOfSeq
<1>5. Clip(s, stop) = [k \in 1..c |-> p(useful[k])]
  BY <1>4 DEF Clip
<1>6. \A f \in Artifacts :
         /\ p(f) \in Pieces
         /\ p(f).kind = "file" /\ p(f).ino = f.ino /\ p(f).start = f.start
         /\ p(f).off = f.off /\ p(f).fend = f.end
         /\ p(f).end = Least(f.end, stop)
  <2> SUFFICES ASSUME NEW f \in Artifacts
               PROVE  /\ p(f) \in Pieces
                      /\ p(f).kind = "file" /\ p(f).ino = f.ino
                      /\ p(f).start = f.start
                      /\ p(f).off = f.off /\ p(f).fend = f.end
                      /\ p(f).end = Least(f.end, stop)
    OBVIOUS
  <2>1. /\ Least(f.end, stop) \in Int /\ f.ino \in 0..MaxInode
        /\ f.start \in Int /\ f.end \in Int /\ f.off \in Int
    BY StorageBounds DEF Artifacts, Inodes, Least
  <2>2. QED
    BY <2>1 DEF FilePiece, Piece, Pieces
<1> HIDE DEF I, useful, p, c
<1>7. PICK g \in [1..c -> I] :
         /\ \A n \in 1..c : useful[n] = s[g[n]]
         /\ \A m, n \in 1..c : m < n => g[m] < g[n]
         /\ \A i \in I : \E n \in 1..c : g[n] = i
  BY <1>3 DEF c
<1>8. /\ Clip(s, stop) \in Seq(Pieces) /\ Len(Clip(s, stop)) = c
      /\ \A k \in 1..c : Clip(s, stop)[k] = p(s[g[k]])
  <2>1. Clip(s, stop) \in [1..c -> Pieces]
    BY <1>4, <1>5, <1>6
  <2>2. QED
    BY <1>4, <1>5, <1>7, <2>1
<1>9. \A k \in 1..c : /\ g[k] \in I /\ g[k] \in 1..Len(s)
                      /\ s[g[k]] \in Artifacts
                      /\ PieceOf(p(s[g[k]]), s[g[k]], stop)
  BY <1>1, <1>2, <1>6, <1>7 DEF PieceOf
<1>10. \A k \in 1..c : \E i \in 1..Len(s) :
          PieceOf(Clip(s, stop)[k], s[i], stop)
  BY <1>8, <1>9
<1>11. Ordered(Clip(s, stop))
  <2> SUFFICES ASSUME NEW j \in 1..c, NEW k \in 1..c, j < k
               PROVE  p(s[g[j]]).end <= p(s[g[k]]).start
    BY <1>8 DEF Ordered
  <2>1. s[g[j]].end <= s[g[k]].start
    BY <1>7, <1>9 DEF Ordered
  <2>2. /\ p(s[g[j]]).end = Least(s[g[j]].end, stop)
        /\ p(s[g[k]]).start = s[g[k]].start
        /\ s[g[j]].end \in Int /\ s[g[k]].start \in Int
    BY <1>6, <1>9 DEF Artifacts
  <2>3. QED
    BY <2>1, <2>2, MostAndLeast
<1>12. ASSUME NEW i \in 1..Len(s), Least(s[i].end, stop) > s[i].start
       PROVE  \E k \in 1..c : Clip(s, stop)[k].start = s[i].start
  <2>1. i \in I
    BY <1>1, <1>12 DEF I
  <2>2. PICK k \in 1..c : g[k] = i
    BY <1>7, <2>1
  <2>3. QED
    BY <1>6, <1>8, <1>9, <2>2
<1>13. QED
  BY <1>8, <1>10, <1>11, <1>12

\* Two parts that are in order, the first before the second, are in order.
LEMMA OrderedConcat ==
  ASSUME NEW S, NEW s \in Seq(S), NEW t \in Seq(S),
         \A e \in S : e.start \in Int /\ e.end \in Int,
         Ordered(s), Ordered(t), NEW middle \in Int,
         \A k \in 1..Len(s) : s[k].end <= middle,
         \A k \in 1..Len(t) : middle <= t[k].start
  PROVE  Ordered(s \o t)
<1>1. /\ Len(s) \in Nat /\ Len(t) \in Nat
      /\ Len(s \o t) = Len(s) + Len(t)
      /\ \A i \in 1..Len(s) + Len(t) :
            (s \o t)[i] = IF i <= Len(s) THEN s[i] ELSE t[i - Len(s)]
      /\ \A k \in 1..Len(s) : s[k] \in S
      /\ \A k \in 1..Len(t) : t[k] \in S
  BY ConcatProperties, LenProperties, ElementOfSeq
<1> SUFFICES ASSUME NEW j \in 1..Len(s) + Len(t),
                    NEW k \in 1..Len(s) + Len(t), j < k
             PROVE  (s \o t)[j].end <= (s \o t)[k].start
  BY <1>1 DEF Ordered
<1>2. CASE k <= Len(s)
  BY <1>1, <1>2 DEF Ordered
<1>3. CASE j > Len(s)
  <2>1. /\ j - Len(s) \in 1..Len(t) /\ k - Len(s) \in 1..Len(t)
        /\ j - Len(s) < k - Len(s) /\ ~(j <= Len(s)) /\ ~(k <= Len(s))
    BY <1>1, <1>3
  <2>2. t[j - Len(s)].end <= t[k - Len(s)].start
    BY <2>1 DEF Ordered
  <2>3. QED
    BY <1>1, <2>1, <2>2
<1>4. CASE j <= Len(s) /\ k > Len(s)
  <2>1. /\ j \in 1..Len(s) /\ k - Len(s) \in 1..Len(t) /\ ~(k <= Len(s))
    BY <1>1, <1>4
  <2>2. /\ s[j].end <= middle /\ middle <= t[k - Len(s)].start
        /\ s[j].end \in Int /\ t[k - Len(s)].start \in Int
    BY <1>1, <2>1
  <2>3. QED
    BY <1>1, <2>1, <2>2
<1>5. QED
  BY <1>1, <1>2, <1>3, <1>4

ReadPlaces ==
    {"idle", "lookup", "open", "retained", "rotating", "stat", "refresh",
     "retry", "done", "unavailable"}

Reads ==
    [pc : ReadPlaces, span : Rotations, at : Int, name : Nat, cur : Nat,
     again : BOOLEAN, data : Int]
Lives ==
    [on : BOOLEAN, from : Nat, to : Nat,
     reason : {"none", "overflow", "client_closed", "broker_closed",
               "broker_failed"}]
Queries ==
    [pc : {"none", "plan", "replay", "live", "asked", "ended"},
     follow : BOOLEAN, endpoint : Nat, mem : Nat, filed : BOOLEAN,
     files : Seq(Entries), spans : Seq(Pieces), at : Int,
     complete : BOOLEAN]
Clients ==
    [out : Seq(Int), result : {"none", "ok", "failed"}, first : Int]

QueryTypes ==
    rd \in Reads /\ live \in Lives /\ query \in Queries /\ client \in Clients

\* A range of an inode that holds the bytes from start - off on: where the
\* catalog has this inode for a range that may contain this one, it is it.
Traced(ino, start, end, off) ==
    IF conf.mode = "none"
    THEN ino = 1 /\ start - off = content[1].from
    ELSE /\ writer.pc # "none" /\ end <= store.acked
         /\ \A k \in 1..Count :
               Entry(k).ino = ino /\ Entry(k).start <= start =>
                  Entry(k).start = start - off

\* The files a query captured.
Captures ==
    /\ \A k \in 1..Len(query.files) :
          query.files[k].start <= query.files[k].end
    /\ \A j, k \in 1..Len(query.files) : j < k =>
          /\ query.files[j].end <= query.files[k].start
          /\ query.files[j].start < query.files[j].end
    /\ query.filed => writer.pc # "none"
    /\ query.files # <<>> => query.filed \/ conf.mode = "none"
    /\ \A k \in 1..Len(query.files) :
          query.files[k].start < query.files[k].end =>
             Traced(query.files[k].ino, query.files[k].start,
                    query.files[k].end, query.files[k].off)

LEMMA QueryIsTyped ==
  ASSUME QueryTypes
  PROVE  /\ query.files \in Seq(Entries) /\ Len(query.files) \in Nat
         /\ DOMAIN query.files = 1..Len(query.files)
         /\ \A k \in 1..Len(query.files) : query.files[k] \in Entries
         /\ query.files = <<>> <=> Len(query.files) = 0
         /\ query.spans \in Seq(Pieces) /\ Len(query.spans) \in Nat
         /\ DOMAIN query.spans = 1..Len(query.spans)
         /\ \A k \in 1..Len(query.spans) : query.spans[k] \in Pieces
         /\ query.spans = <<>> <=> Len(query.spans) = 0
<1>1. query.files \in Seq(Entries) /\ query.spans \in Seq(Pieces)
  BY DEF QueryTypes, Queries
<1>2. /\ Len(query.files) \in Nat
      /\ DOMAIN query.files = 1..Len(query.files)
      /\ query.files = <<>> <=> Len(query.files) = 0
      /\ \A k \in 1..Len(query.files) : query.files[k] \in Entries
  BY <1>1, LenProperties, EmptySeq, ElementOfSeq
<1>3. /\ Len(query.spans) \in Nat
      /\ DOMAIN query.spans = 1..Len(query.spans)
      /\ query.spans = <<>> <=> Len(query.spans) = 0
      /\ \A k \in 1..Len(query.spans) : query.spans[k] \in Pieces
  BY <1>1, LenProperties, EmptySeq, ElementOfSeq
<1>4. QED
  BY <1>1, <1>2, <1>3

\* An entry of the catalog, from some place of its file on.
LEMMA CatalogIsTraced ==
  ASSUME Catalog, Admitted, writer.pc # "none", NEW k \in 1..Count,
         NEW off \in Int
  PROVE  Traced(Entry(k).ino, Entry(k).start + off, Entry(k).end, off)
<1>1. conf.mode # "none" /\ Entry(k).end <= store.acked
  BY DEF Admitted, Catalog, InOrder
<1>2. \A j \in 1..Count : Entry(j).ino = Entry(k).ino => j = k
  BY DEF Catalog, Distinct
<1>3. Entry(k).start \in Int
  BY SpansAreTyped DEF Catalog
<1>4. QED
  BY <1>1, <1>2, <1>3 DEF Traced

\* The files a replay plans with.
LEMMA FilesAreTraced ==
  ASSUME Catalog, BrokerTypes, Admitted, QueryTypes, Captures
  PROVE  /\ FilesNow \in Seq(Artifacts) /\ Ordered(FilesNow)
         /\ \A k \in 1..Len(FilesNow) :
               FilesNow[k].start < FilesNow[k].end =>
                  Traced(FilesNow[k].ino, FilesNow[k].start,
                         FilesNow[k].end, FilesNow[k].off)
         /\ query.files # <<>> =>
               /\ Len(query.files) <= Len(FilesNow)
               /\ \A k \in 1..Len(query.files) :
                     FilesNow[k] = query.files[k]
<1>1. /\ query.files \in Seq(Entries) /\ Len(query.files) \in Nat
      /\ \A k \in 1..Len(query.files) : query.files[k] \in Entries
      /\ query.files = <<>> <=> Len(query.files) = 0
  BY QueryIsTyped
<1>2. /\ store.spans \in Seq(Entries) /\ Count \in Nat
      /\ DOMAIN store.spans = 1..Count /\ Len(store.spans) = Count
      /\ \A k \in 1..Count : store.spans[k] = Entry(k)
      /\ \A k \in 1..Count : Entry(k) \in Entries
  BY SpansAreTyped DEF Catalog, Count, Entry
<1>3. Entries \subseteq Artifacts
  BY DEF Entries, Artifacts
<1>4. /\ query.files \in Seq(Artifacts) /\ store.spans \in Seq(Artifacts)
      /\ <<>> \in Seq(Artifacts)
  BY <1>1, <1>2, <1>3, SeqMonotonic, EmptySeq
<1>5. \A e \in Artifacts : /\ e.start \in Int /\ e.end \in Int
                           /\ e.ino \in Inodes /\ e.off \in Int
  BY DEF Artifacts
<1>6. \A e \in Entries : e.off = 0 /\ e.start \in Int /\ e.end \in Int
  BY DEF Entries
<1>7. Ordered(query.files)
  BY DEF Captures, Ordered
<1>8. CASE conf.mode = "none"
  <2>1. FilesNow = query.files
    BY <1>8 DEF FilesNow
  <2>2. QED
    BY <1>1, <1>4, <1>7, <2>1 DEF Captures
<1>9. CASE conf.mode # "none" /\ ~Attached
  <2>1. FilesNow = <<>> /\ query.files = <<>>
    BY <1>9 DEF FilesNow, Captures, Attached, Admitted
  <2>2. Len(<<>>) = 0
    OBVIOUS
  <2>3. QED
    BY <1>4, <2>1, <2>2 DEF Ordered
<1>10. CASE conf.mode # "none" /\ Attached /\ ~query.filed
  <2>1. FilesNow = store.spans /\ query.files = <<>>
    BY <1>10 DEF FilesNow, Captures
  <2>2. Ordered(store.spans)
    BY <1>2 DEF Ordered, Catalog, InOrder
  <2>3. ASSUME NEW k \in 1..Count
        PROVE  Traced(Entry(k).ino, Entry(k).start, Entry(k).end,
                      Entry(k).off)
    <3>1. Traced(Entry(k).ino, Entry(k).start + 0, Entry(k).end, 0)
      BY <1>10, CatalogIsTraced DEF Attached
    <3>2. Entry(k).start + 0 = Entry(k).start /\ Entry(k).off = 0
      BY <1>2, <1>6
    <3>3. QED
      BY <3>1, <3>2
  <2>4. QED
    BY <1>2, <1>4, <2>1, <2>2, <2>3
<1>11. CASE conf.mode # "none" /\ Attached /\ query.filed
  <2> DEFINE files == query.files
             oldEnd == IF files = <<>> THEN 0 ELSE files[Len(files)].end
             newer == Newer(oldEnd)
             cut(s) == [s EXCEPT !.start = Most(@, oldEnd),
                                 !.off = @ + Most(0, oldEnd - s.start)]
             c == [k \in DOMAIN newer |-> cut(newer[k])]
  <2>1. FilesNow = files \o c
    BY <1>11 DEF FilesNow, Bridged
  <2>2. oldEnd \in Int /\ \A k \in 1..Len(files) : files[k].end <= oldEnd
    <3>1. CASE files = <<>>
      BY <1>1, <3>1
    <3>2. CASE files # <<>>
      <4>1. Len(files) \in 1..Len(files) /\ oldEnd = files[Len(files)].end
        BY <1>1, <3>2
      <4>2. \A k \in 1..Len(files) :
               /\ files[k].end \in Int /\ files[k].start \in Int
               /\ files[k].start <= files[k].end
               /\ k < Len(files) => files[k].end <= files[Len(files)].start
        BY <1>1, <1>6, <4>1 DEF Captures
      <4>3. QED
        BY <1>1, <4>1, <4>2
    <3>3. QED
      BY <3>1, <3>2
  <2> HIDE DEF oldEnd
  <2>3. /\ newer \in Seq(Entries) /\ Len(newer) \in Nat
        /\ DOMAIN newer = 1..Len(newer)
        /\ \E g \in [1..Len(newer) -> 1..Count] :
              /\ \A n \in 1..Len(newer) :
                    newer[n] = Entry(g[n]) /\ Entry(g[n]).end > oldEnd
              /\ \A m, n \in 1..Len(newer) : m < n => g[m] < g[n]
    <3> DEFINE I == {k \in DOMAIN store.spans : store.spans[k].end > oldEnd}
    <3>1. newer = Keep(store.spans, I)
      BY DEF Newer
    <3>2. /\ I \in SUBSET (DOMAIN store.spans)
          /\ \A i \in I : i \in 1..Count /\ store.spans[i] = Entry(i)
                          /\ Entry(i).end > oldEnd
      BY <1>2
    <3> HIDE DEF I, newer
    <3>3. \A J \in SUBSET (DOMAIN store.spans) :
             /\ Keep(store.spans, J) \in Seq(Entries)
             /\ \E g \in [1..Len(Keep(store.spans, J)) -> J] :
                   /\ \A n \in 1..Len(Keep(store.spans, J)) :
                         Keep(store.spans, J)[n] = store.spans[g[n]]
                   /\ \A m, n \in 1..Len(Keep(store.spans, J)) :
                         m < n => g[m] < g[n]
      BY <1>2, KeepProperties
    <3>4. /\ newer \in Seq(Entries)
          /\ \E g \in [1..Len(newer) -> I] :
                /\ \A n \in 1..Len(newer) : newer[n] = store.spans[g[n]]
                /\ \A m, n \in 1..Len(newer) : m < n => g[m] < g[n]
      BY <3>1, <3>2, <3>3
    <3>5. PICK g \in [1..Len(newer) -> I] :
             /\ \A n \in 1..Len(newer) : newer[n] = store.spans[g[n]]
             /\ \A m, n \in 1..Len(newer) : m < n => g[m] < g[n]
      BY <3>4
    <3>6. g \in [1..Len(newer) -> 1..Count]
      BY <3>2
    <3>7. \A n \in 1..Len(newer) :
             newer[n] = Entry(g[n]) /\ Entry(g[n]).end > oldEnd
      BY <3>2, <3>5
    <3>8. Len(newer) \in Nat /\ DOMAIN newer = 1..Len(newer)
      BY <3>4, LenProperties
    <3>9. QED
      BY <3>4, <3>5, <3>6, <3>7, <3>8
  <2> HIDE DEF newer
  <2>4. PICK g \in [1..Len(newer) -> 1..Count] :
           /\ \A n \in 1..Len(newer) :
                 newer[n] = Entry(g[n]) /\ Entry(g[n]).end > oldEnd
           /\ \A m, n \in 1..Len(newer) : m < n => g[m] < g[n]
    BY <2>3
  <2>5. ASSUME NEW e \in Entries
        PROVE  /\ cut(e) \in Artifacts /\ cut(e).ino = e.ino
               /\ cut(e).end = e.end /\ cut(e).start >= oldEnd
               /\ cut(e).start >= e.start /\ cut(e).off \in Int
               /\ cut(e).start = e.start + cut(e).off
               /\ e.end > oldEnd /\ e.end >= e.start =>
                     cut(e).start <= e.end
    <3> DEFINE a == Most(e.start, oldEnd)
               b == e.off + Most(0, oldEnd - e.start)
    <3>1. /\ a \in Int /\ b \in Int /\ a >= oldEnd /\ a >= e.start
          /\ a = e.start + b
          /\ e.end > oldEnd /\ e.end >= e.start => a <= e.end
      BY <1>6, <2>2 DEF Most
    <3>2. cut(e) = [e EXCEPT !.start = a, !.off = b]
      OBVIOUS
    <3> HIDE DEF a, b
    <3>3. /\ cut(e) \in Artifacts /\ cut(e).ino = e.ino
          /\ cut(e).end = e.end /\ cut(e).start = a /\ cut(e).off = b
      <4> HIDE DEF cut
      <4>1. QED
        BY <3>1, <3>2 DEF Entries, Artifacts
    <3> HIDE DEF cut
    <3>4. QED
      BY <3>1, <3>3
  <2> HIDE DEF cut
  <2>6. /\ c \in Seq(Artifacts) /\ Len(c) = Len(newer)
        /\ \A k \in 1..Len(newer) : c[k] = cut(Entry(g[k]))
    <3>1. \A k \in 1..Len(newer) : newer[k] \in Entries
      BY <1>2, <2>4
    <3>2. c \in [1..Len(newer) -> Artifacts]
      BY <2>3, <2>5, <3>1
    <3>3. QED
      BY <2>3, <2>4, <3>2
  <2> HIDE DEF c
  <2>7. \A k \in 1..Len(c) :
           /\ g[k] \in 1..Count /\ Entry(g[k]) \in Entries
           /\ c[k].ino = Entry(g[k]).ino /\ c[k].end = Entry(g[k]).end
           /\ oldEnd <= c[k].start /\ c[k].off \in Int
           /\ c[k].start = Entry(g[k]).start + c[k].off
           /\ Entry(g[k]).start <= c[k].start
    BY <1>2, <1>6, <2>2, <2>4, <2>5, <2>6
  <2>8. Ordered(c)
    <3> SUFFICES ASSUME NEW j \in 1..Len(c), NEW k \in 1..Len(c), j < k
                 PROVE  c[j].end <= c[k].start
      BY DEF Ordered
    <3>1. Entry(g[j]).end <= Entry(g[k]).start
      BY <2>4, <2>6, <2>7 DEF Catalog, InOrder
    <3>2. /\ Entry(g[j]).end \in Int /\ Entry(g[k]).start \in Int
          /\ c[k].start \in Int
      BY <1>6, <2>7
    <3>3. QED
      BY <2>7, <3>1, <3>2
  <2>9. \A k \in 1..Len(c) :
           Traced(c[k].ino, c[k].start, c[k].end, c[k].off)
    BY <1>11, <2>7, CatalogIsTraced DEF Attached
  <2>10. Ordered(files \o c)
    BY <1>4, <1>5, <1>7, <2>2, <2>6, <2>7, <2>8, OrderedConcat
  <2>11. /\ files \o c \in Seq(Artifacts)
         /\ Len(files \o c) = Len(files) + Len(c)
         /\ \A k \in 1..Len(files) + Len(c) :
               (files \o c)[k] = IF k <= Len(files) THEN files[k]
                                 ELSE c[k - Len(files)]
    BY <1>4, <2>6, ConcatProperties
  <2>12. Len(files) \in Nat /\ Len(c) \in Nat
    BY <1>1, <2>3, <2>6
  <2>13. ASSUME NEW k \in 1..Len(files \o c),
                (files \o c)[k].start < (files \o c)[k].end
         PROVE  Traced((files \o c)[k].ino, (files \o c)[k].start,
                       (files \o c)[k].end, (files \o c)[k].off)
    <3>1. CASE k <= Len(files)
      BY <2>11, <2>12, <2>13, <3>1 DEF Captures
    <3>2. CASE ~(k <= Len(files))
      <4>1. k - Len(files) \in 1..Len(c)
        BY <2>11, <2>12, <3>2
      <4>2. (files \o c)[k] = c[k - Len(files)]
        BY <2>11, <2>12, <3>2
      <4>3. QED
        BY <2>9, <4>1, <4>2
    <3>3. QED
      BY <3>1, <3>2
  <2>14. QED
    BY <2>1, <2>10, <2>11, <2>12, <2>13
<1>12. QED
  BY <1>8, <1>9, <1>10, <1>11

\* The first byte of the files, and the oldest of two places.
LEMMA OldestFile ==
  ASSUME NEW s \in Seq(Entries),
         \A k \in 1..Len(s) : s[k].start <= s[k].end,
         \A j, k \in 1..Len(s) : j < k =>
            s[j].end <= s[k].start /\ s[j].start < s[j].end
  PROVE  \/ SpanStarts(s) = {}
         \/ /\ 1 \in 1..Len(s) /\ s[1].start < s[1].end
            /\ s[1].start \in SpanStarts(s)
            /\ \A x \in SpanStarts(s) : x \in Int /\ s[1].start <= x
<1>1. /\ Len(s) \in Nat /\ DOMAIN s = 1..Len(s)
      /\ \A k \in 1..Len(s) : s[k].start \in Int /\ s[k].end \in Int
  <2>1. Len(s) \in Nat /\ DOMAIN s = 1..Len(s)
        /\ \A k \in 1..Len(s) : s[k] \in Entries
    BY LenProperties, ElementOfSeq
  <2>2. QED
    BY <2>1 DEF Entries
<1>2. CASE SpanStarts(s) = {}
  BY <1>2
<1>3. CASE SpanStarts(s) # {}
  <2>1. PICK i \in 1..Len(s) : s[i].start < s[i].end
    BY <1>1, <1>3 DEF SpanStarts
  <2>2. 1 \in 1..Len(s) /\ s[1].start < s[1].end
    <3>1. CASE i = 1
      BY <2>1, <3>1
    <3>2. CASE i # 1
      <4>1. 1 \in 1..Len(s) /\ 1 < i
        BY <1>1, <3>2
      <4>2. QED
        BY <4>1
    <3>3. QED
      BY <3>1, <3>2
  <2>3. s[1].start \in SpanStarts(s)
    BY <1>1, <2>2 DEF SpanStarts
  <2>4. ASSUME NEW x \in SpanStarts(s)
        PROVE  x \in Int /\ s[1].start <= x
    <3>1. PICK k \in 1..Len(s) : x = s[k].start
      BY <1>1 DEF SpanStarts
    <3>2. CASE k = 1
      BY <1>1, <3>1, <3>2
    <3>3. CASE k # 1
      <4>1. 1 < k /\ 1 \in 1..Len(s)
        BY <1>1, <3>3
      <4>2. s[1].end <= s[k].start
        BY <4>1
      <4>3. QED
        BY <1>1, <2>2, <3>1, <4>1, <4>2
    <3>4. QED
      BY <3>2, <3>3
  <2>5. QED
    BY <2>2, <2>3, <2>4
<1>4. QED
  BY <1>2, <1>3

LEMMA SmallestIsLeast ==
  ASSUME NEW A, NEW m \in A, NEW default, \A x \in A : x \in Int /\ m <= x
  PROVE  SmallestOf(A, default) = m
<1>1. A # {} /\ \A y \in A : m <= y
  OBVIOUS
<1>2. \A x \in A : (\A y \in A : x <= y) => x = m
  OBVIOUS
<1>3. QED
  BY <1>1, <1>2 DEF SmallestOf

LEMMA FirstByte ==
  ASSUME NEW s \in Seq(Entries),
         \A k \in 1..Len(s) : s[k].start <= s[k].end,
         \A j, k \in 1..Len(s) : j < k =>
            s[j].end <= s[k].start /\ s[j].start < s[j].end,
         NEW B, B = {} \/ \E b \in Int : B = {b}, NEW default \in Int
  PROVE  /\ SmallestOf(SpanStarts(s) \cup B, default) \in Int
         /\ \A x \in SpanStarts(s) \cup B :
               SmallestOf(SpanStarts(s) \cup B, default) <= x
         /\ SpanStarts(s) \cup B # {} =>
               SmallestOf(SpanStarts(s) \cup B, default)
                  \in SpanStarts(s) \cup B
         /\ SpanStarts(s) \cup B = {} =>
               SmallestOf(SpanStarts(s) \cup B, default) = default
<1> DEFINE A == SpanStarts(s) \cup B
<1>1. \/ SpanStarts(s) = {}
      \/ /\ s[1].start \in SpanStarts(s)
         /\ \A x \in SpanStarts(s) : x \in Int /\ s[1].start <= x
  BY OldestFile
<1>2. CASE A = {}
  <2>1. SmallestOf(A, default) = default
    BY <1>2 DEF SmallestOf
  <2>2. QED
    BY <1>2, <2>1
<1>3. CASE A # {}
  <2>1. \E m \in A : \A x \in A : x \in Int /\ m <= x
    <3>1. CASE B = {}
      BY <1>1, <1>3, <3>1
    <3>2. CASE B # {}
      <4>1. PICK b \in Int : B = {b}
        BY <3>2
      <4>2. CASE SpanStarts(s) = {}
        BY <4>1, <4>2
      <4>3. CASE SpanStarts(s) # {}
        <5>1. /\ s[1].start \in SpanStarts(s) /\ s[1].start \in Int
              /\ \A x \in SpanStarts(s) : x \in Int /\ s[1].start <= x
          BY <1>1, <4>3
        <5>2. CASE s[1].start <= b
          BY <4>1, <5>1, <5>2
        <5>3. CASE b < s[1].start
          <6>1. \A x \in SpanStarts(s) : x \in Int /\ b <= x
            BY <5>1, <5>3
          <6>2. QED
            BY <4>1, <6>1
        <5>4. QED
          BY <5>1, <5>2, <5>3
      <4>4. QED
        BY <4>2, <4>3
    <3>3. QED
      BY <3>1, <3>2
  <2>2. PICK m \in A : \A x \in A : x \in Int /\ m <= x
    BY <2>1
  <2> HIDE DEF A
  <2>3. SmallestOf(A, default) = m
    BY <2>2, SmallestIsLeast
  <2>4. QED
    BY <1>3, <2>2, <2>3 DEF A
<1>4. QED
  BY <1>2, <1>3

\* The files that were captured are like that.
LEMMA OldestCaptured ==
  ASSUME QueryTypes, Captures
  PROVE  SmallestOf(SpanStarts(query.files), query.mem) \in Int
<1>1. query.files \in Seq(Entries) /\ query.mem \in Int
  BY QueryIsTyped DEF QueryTypes, Queries
<1>2. SpanStarts(query.files) \cup {} = SpanStarts(query.files)
  OBVIOUS
<1>3. SmallestOf(SpanStarts(query.files) \cup {}, query.mem) \in Int
  <2> DEFINE B == {}
  <2>1. B = {} \/ \E b \in Int : B = {b}
    OBVIOUS
  <2> HIDE DEF B
  <2>2. SmallestOf(SpanStarts(query.files) \cup B, query.mem) \in Int
    BY <1>1, <2>1, FirstByte DEF Captures
  <2>3. QED
    BY <2>2 DEF B
<1>4. QED
  BY <1>2, <1>3

\* The parts of a plan.
StopOf(start) ==
    IF Recording THEN Least(start, query.endpoint) ELSE query.endpoint
MemoryPart(start) ==
    IF Recording /\ query.endpoint > start
    THEN <<Piece("memory", 0, start, query.endpoint, 0)>> ELSE <<>>
Found(start) == Clip(FilesNow, StopOf(start)) \o MemoryPart(start)
Expected == SmallestOf(SpanStarts(query.files), query.mem)
EndOf(start) ==
    IF Found(start) = <<>> THEN query.endpoint
    ELSE Least(query.endpoint, Found(start)[1].start)
Missing(start) ==
    /\ Recording /\ start > query.mem
    /\ Found(start) = <<>> \/ Found(start)[1].start > Expected
    /\ EndOf(start) > Expected

LEMMA PlanHasParts ==
  ASSUME NEW start
  PROVE  PlanOf(start) =
           IF Missing(start)
           THEN <<Piece("missing", 0, Expected, EndOf(start), 0)>>
                  \o Found(start)
           ELSE Found(start)
  BY DEF PlanOf, Missing, Expected, EndOf, Found, MemoryPart, StopOf, Clip

\* A piece of a replay.
Readable(p) ==
    /\ p.start < p.end /\ p.end <= query.endpoint
    /\ p.kind = "file" => /\ p.ino \in Inodes /\ p.end <= p.fend
                          /\ Traced(p.ino, p.start, p.fend, p.off)

\* Files and then memory, in order, up to the endpoint.
LEMMA FoundIsReadable ==
  ASSUME Catalog, BrokerTypes, Admitted, QueryTypes, Captures,
         NEW start \in Nat, start <= query.endpoint
  PROVE  /\ Found(start) \in Seq(Pieces) /\ Ordered(Found(start))
         /\ \A k \in 1..Len(Found(start)) :
               Readable(Found(start)[k]) /\ Found(start)[k].kind # "missing"
         /\ StopOf(start) \in Nat
         /\ \A i \in 1..Len(FilesNow) :
               Least(FilesNow[i].end, StopOf(start)) > FilesNow[i].start =>
                  \E k \in 1..Len(Found(start)) :
                     Found(start)[k].start = FilesNow[i].start
         /\ Recording /\ start < query.endpoint =>
               /\ Len(Found(start)) > 0
               /\ Found(start)[Len(Found(start))] =
                     Piece("memory", 0, start, query.endpoint, 0)
<1> DEFINE stop == StopOf(start)
           files == Clip(FilesNow, stop)
           memory == MemoryPart(start)
           piece == Piece("memory", 0, start, query.endpoint, 0)
<1>1. query.endpoint \in Nat /\ MaxInode \in Nat
  BY StorageBounds DEF QueryTypes, Queries
<1>2. /\ stop \in Nat /\ stop <= query.endpoint
      /\ Recording => stop <= start
  BY <1>1 DEF StopOf, Least
<1>3. /\ FilesNow \in Seq(Artifacts) /\ Ordered(FilesNow)
      /\ \A k \in 1..Len(FilesNow) :
            FilesNow[k].start < FilesNow[k].end =>
               Traced(FilesNow[k].ino, FilesNow[k].start,
                      FilesNow[k].end, FilesNow[k].off)
      /\ \A k \in 1..Len(FilesNow) : FilesNow[k] \in Artifacts
  BY FilesAreTraced, ElementOfSeq
<1> HIDE DEF stop
<1>4. /\ files \in Seq(Pieces)
      /\ \A k \in 1..Len(files) :
            \E i \in 1..Len(FilesNow) : PieceOf(files[k], FilesNow[i], stop)
      /\ Ordered(files)
      /\ \A i \in 1..Len(FilesNow) :
            Least(FilesNow[i].end, stop) > FilesNow[i].start =>
               \E k \in 1..Len(files) : files[k].start = FilesNow[i].start
  BY <1>2, <1>3, ClipProperties
<1> HIDE DEF files
<1>5. Len(files) \in Nat /\ \A k \in 1..Len(files) : files[k] \in Pieces
  BY <1>4, LenProperties, ElementOfSeq
<1>6. /\ piece \in Pieces /\ piece.start = start
      /\ piece.end = query.endpoint /\ piece.kind = "memory"
  BY <1>1 DEF Piece, Pieces
<1>7. \A k \in 1..Len(files) :
         /\ Readable(files[k]) /\ files[k].kind = "file"
         /\ files[k].end <= stop
  <2> SUFFICES ASSUME NEW k \in 1..Len(files)
               PROVE  /\ Readable(files[k]) /\ files[k].kind = "file"
                      /\ files[k].end <= stop
    OBVIOUS
  <2>1. PICK i \in 1..Len(FilesNow) : PieceOf(files[k], FilesNow[i], stop)
    BY <1>4
  <2>2. /\ FilesNow[i] \in Artifacts /\ FilesNow[i].end \in Int
        /\ FilesNow[i].start \in Int /\ FilesNow[i].ino \in Inodes
        /\ Least(FilesNow[i].end, stop) <= stop
        /\ Least(FilesNow[i].end, stop) <= FilesNow[i].end
        /\ Least(FilesNow[i].end, stop) \in Int
    <3>1. /\ FilesNow[i] \in Artifacts /\ FilesNow[i].end \in Int
          /\ FilesNow[i].start \in Int /\ FilesNow[i].ino \in Inodes
      BY <1>3 DEF Artifacts
    <3> DEFINE e == FilesNow[i].end
    <3>2. e \in Int /\ stop \in Int
      BY <1>2, <3>1
    <3> HIDE DEF e
    <3>3. /\ Least(e, stop) <= stop /\ Least(e, stop) <= e
          /\ Least(e, stop) \in Int
      BY <3>2 DEF Least
    <3>4. QED
      BY <3>1, <3>3 DEF e
  <2>3. /\ files[k].kind = "file" /\ files[k].ino = FilesNow[i].ino
        /\ files[k].start = FilesNow[i].start
        /\ files[k].off = FilesNow[i].off /\ files[k].fend = FilesNow[i].end
        /\ files[k].end = Least(FilesNow[i].end, stop)
        /\ files[k].start < files[k].end
    BY <2>1 DEF PieceOf
  <2>4. FilesNow[i].start < FilesNow[i].end
    BY <2>2, <2>3
  <2>5. Traced(files[k].ino, files[k].start, files[k].fend, files[k].off)
    BY <1>3, <2>3, <2>4
  <2>6. files[k].end <= query.endpoint /\ files[k].end <= stop
    BY <1>1, <1>2, <2>2, <2>3
  <2>7. QED
    BY <2>2, <2>3, <2>5, <2>6 DEF Readable
<1>8. CASE Recording /\ query.endpoint > start
  <2>1. memory = <<piece>>
    BY <1>8 DEF MemoryPart
  <2>2. memory \in Seq(Pieces) /\ Len(memory) = 1 /\ memory[1] = piece
    BY <1>6, <2>1
  <2> HIDE DEF memory, piece
  <2>3. /\ files \o memory \in Seq(Pieces)
        /\ Len(files \o memory) = Len(files) + 1
        /\ \A k \in 1..Len(files) + 1 :
              (files \o memory)[k] = IF k <= Len(files) THEN files[k]
                                     ELSE memory[k - Len(files)]
    <3>1. files \in Seq(Pieces) /\ memory \in Seq(Pieces)
      BY <1>4, <2>2
    <3>2. /\ files \o memory \in Seq(Pieces)
          /\ Len(files \o memory) = Len(files) + Len(memory)
          /\ \A k \in 1..Len(files) + Len(memory) :
                (files \o memory)[k] = IF k <= Len(files) THEN files[k]
                                       ELSE memory[k - Len(files)]
      BY <3>1, ConcatProperties
    <3>3. Len(memory) = 1
      BY <2>2
    <3>4. QED
      BY <3>2, <3>3
  <2>4. (files \o memory)[Len(files) + 1] = piece
    BY <1>5, <2>2, <2>3
  <2>5. Readable(piece) /\ piece.kind # "missing"
    <3>1. /\ start < query.endpoint /\ query.endpoint <= query.endpoint
          /\ piece.kind # "file" /\ piece.kind # "missing"
      BY <1>1, <1>6, <1>8
    <3>2. QED
      BY <1>6, <3>1 DEF Readable
  <2>6. Ordered(files \o memory)
    <3>1. Ordered(memory)
      BY <2>2 DEF Ordered
    <3>2. \A e \in Pieces : e.start \in Int /\ e.end \in Int
      BY DEF Pieces
    <3>3. \A k \in 1..Len(files) : files[k].end <= stop
      BY <1>7
    <3>4. stop \in Int /\ \A k \in 1..Len(memory) : stop <= memory[k].start
      BY <1>2, <1>6, <1>8, <2>2
    <3>5. QED
      BY <1>4, <2>2, <3>1, <3>2, <3>3, <3>4, OrderedConcat
  <2>7. \A k \in 1..Len(files \o memory) :
           \/ k \in 1..Len(files) /\ (files \o memory)[k] = files[k]
           \/ (files \o memory)[k] = piece
    BY <1>5, <2>3, <2>4
  <2>8. \A k \in 1..Len(files) :
           k \in 1..Len(files \o memory) /\ (files \o memory)[k] = files[k]
    BY <1>5, <2>3
  <2>9. Found(start) = files \o memory
    BY DEF Found, files, memory, stop
  <2> DEFINE found == files \o memory
  <2>10. /\ found \in Seq(Pieces) /\ Ordered(found)
         /\ Len(found) = Len(files) + 1 /\ Len(found) > 0
         /\ found[Len(found)] = piece
    BY <1>5, <2>3, <2>4, <2>6
  <2>11. \A k \in 1..Len(found) :
            Readable(found[k]) /\ found[k].kind # "missing"
    <3> HIDE DEF found
    <3>1. \A k \in 1..Len(files) : Readable(files[k])
                                   /\ files[k].kind # "missing"
      BY <1>7
    <3>2. QED
      BY <2>5, <2>7, <3>1 DEF found
  <2>12. \A i \in 1..Len(FilesNow) :
            Least(FilesNow[i].end, stop) > FilesNow[i].start =>
               \E k \in 1..Len(found) : found[k].start = FilesNow[i].start
    BY <1>4, <2>8
  <2> HIDE DEF found
  <2>13. Found(start) = found /\ stop = StopOf(start) /\ stop \in Nat
    BY <1>2, <2>9 DEF found, stop
  <2>14. piece = Piece("memory", 0, start, query.endpoint, 0)
    BY DEF piece
  <2>15. QED
    BY <2>10, <2>11, <2>12, <2>13, <2>14
<1>9. CASE ~(Recording /\ query.endpoint > start)
  <2>1. Found(start) = files
    <3>1. memory = <<>>
      BY <1>9 DEF MemoryPart
    <3>2. files \o <<>> = files
      BY <1>4
    <3>3. QED
      BY <3>1, <3>2 DEF Found, files, stop
  <2>2. \A k \in 1..Len(files) : Readable(files[k])
                                 /\ files[k].kind # "missing"
    BY <1>7
  <2>3. ~(Recording /\ start < query.endpoint)
    BY <1>1, <1>9
  <2>4. QED
    BY <1>2, <1>4, <2>1, <2>2, <2>3 DEF stop
<1>10. QED
  BY <1>8, <1>9

\* A plan is readable pieces in their order; only the first may be a gap.
LEMMA PlanIsReadable ==
  ASSUME Catalog, BrokerTypes, Admitted, QueryTypes, Captures,
         NEW start \in Nat, start <= query.endpoint
  PROVE  /\ PlanOf(start) \in Seq(Pieces) /\ Ordered(PlanOf(start))
         /\ \A k \in 1..Len(PlanOf(start)) : Readable(PlanOf(start)[k])
         /\ \A k \in 2..Len(PlanOf(start)) :
               PlanOf(start)[k].kind # "missing"
         /\ Missing(start) <=> /\ Len(PlanOf(start)) > 0
                               /\ PlanOf(start)[1].kind = "missing"
<1> DEFINE found == Found(start)
           gap == Piece("missing", 0, Expected, EndOf(start), 0)
<1>1. /\ found \in Seq(Pieces) /\ Ordered(found)
      /\ \A k \in 1..Len(found) :
            Readable(found[k]) /\ found[k].kind # "missing"
  BY FoundIsReadable
<1>2. /\ Len(found) \in Nat /\ found = <<>> <=> Len(found) = 0
      /\ \A k \in 1..Len(found) :
            /\ found[k] \in Pieces
            /\ found[k].start \in Int /\ found[k].end \in Int
  <2>1. /\ Len(found) \in Nat /\ found = <<>> <=> Len(found) = 0
        /\ \A k \in 1..Len(found) : found[k] \in Pieces
    <3> HIDE DEF found
    <3>1. QED
      BY <1>1, LenProperties, EmptySeq, ElementOfSeq
  <2>2. QED
    BY <2>1 DEF Pieces
<1>3. query.endpoint \in Nat /\ Expected \in Int /\ MaxInode \in Nat
  BY OldestCaptured, StorageBounds DEF QueryTypes, Queries, Expected
<1>4. CASE ~Missing(start)
  <2>1. PlanOf(start) = found
    BY <1>4, PlanHasParts
  <2>2. \A k \in 2..Len(found) : k \in 1..Len(found)
    BY <1>2
  <2>3. Len(found) > 0 => 1 \in 1..Len(found)
    BY <1>2
  <2> HIDE DEF found
  <2>4. QED
    BY <1>1, <1>4, <2>1, <2>2, <2>3
<1>5. CASE Missing(start)
  <2>1. PlanOf(start) = <<gap>> \o found
    BY <1>5, PlanHasParts
  <2>2. /\ EndOf(start) \in Int /\ EndOf(start) <= query.endpoint
        /\ EndOf(start) > Expected
        /\ found # <<>> => EndOf(start) <= found[1].start
    <3>1. CASE found = <<>>
      BY <1>3, <1>5, <3>1 DEF EndOf, Missing
    <3>2. CASE found # <<>>
      <4>1. /\ EndOf(start) = Least(query.endpoint, found[1].start)
            /\ found[1].start \in Int
        BY <1>2, <3>2 DEF EndOf
      <4>2. QED
        BY <1>3, <1>5, <4>1 DEF Least, Missing
    <3>3. QED
      BY <3>1, <3>2
  <2>3. /\ gap \in Pieces /\ gap.start = Expected /\ gap.end = EndOf(start)
        /\ gap.kind = "missing"
    BY <1>3, <2>2 DEF Piece, Pieces
  <2> HIDE DEF gap, found
  <2>4. /\ <<gap>> \in Seq(Pieces) /\ Len(<<gap>>) = 1 /\ <<gap>>[1] = gap
    BY <2>3
  <2>5. /\ <<gap>> \o found \in Seq(Pieces)
        /\ Len(<<gap>> \o found) = 1 + Len(found)
        /\ \A k \in 1..1 + Len(found) :
              (<<gap>> \o found)[k] = IF k <= 1 THEN <<gap>>[k]
                                      ELSE found[k - 1]
    BY <1>1, <2>4, ConcatProperties
  <2>6. Readable(gap)
    BY <2>2, <2>3 DEF Readable
  <2>7. Ordered(<<gap>> \o found)
    <3>1. Ordered(<<gap>>)
      BY <2>4 DEF Ordered
    <3>2. \A e \in Pieces : e.start \in Int /\ e.end \in Int
      BY DEF Pieces
    <3>3. \A k \in 1..Len(<<gap>>) : <<gap>>[k].end <= EndOf(start)
      BY <2>2, <2>3, <2>4
    <3>4. ASSUME NEW k \in 1..Len(found) PROVE EndOf(start) <= found[k].start
      <4>1. EndOf(start) <= found[1].start
        BY <1>2, <2>2
      <4>2. CASE k = 1
        BY <4>1, <4>2
      <4>3. CASE k # 1
        <5>1. 1 \in 1..Len(found) /\ 1 < k
          BY <1>2, <4>3
        <5>2. found[1].end <= found[k].start /\ found[1].start < found[1].end
          BY <1>1, <5>1 DEF Ordered, Readable
        <5>3. /\ found[1].start \in Int /\ found[1].end \in Int
              /\ found[k].start \in Int
          BY <1>2, <5>1
        <5>4. QED
          BY <2>2, <4>1, <5>2, <5>3
      <4>4. QED
        BY <4>2, <4>3
    <3>5. QED
      BY <1>1, <2>2, <2>4, <3>1, <3>2, <3>3, <3>4, OrderedConcat
  <2>8. (<<gap>> \o found)[1] = gap
    BY <1>2, <2>4, <2>5
  <2>9. \A k \in 2..1 + Len(found) :
           k - 1 \in 1..Len(found) /\ (<<gap>> \o found)[k] = found[k - 1]
    BY <1>2, <2>5
  <2>10. \A k \in 1..1 + Len(found) :
            k = 1 \/ k \in 2..1 + Len(found)
    BY <1>2
  <2>11. QED
    BY <1>1, <1>2, <1>5, <2>1, <2>3, <2>5, <2>6, <2>7, <2>8, <2>9, <2>10
<1>6. QED
  BY <1>4, <1>5

-----------------------------------------------------------------------------
(* 5. The replay while the writer goes on.                                 *)

\* What the writer does to the catalog: files keep their inodes and their
\* first bytes, and a new one starts after all that was written, with an
\* inode that is not being read.
Adds ==
    /\ store.acked <= store'.acked
    /\ \A k \in 1..Count' :
          \/ \E j \in 1..Count : /\ Entry(k)'.ino = Entry(j).ino
                                 /\ Entry(k)'.start = Entry(j).start
          \/ /\ Entry(k)'.start = store.acked
             /\ rd.pc \in {"retained", "rotating", "stat"} =>
                   Entry(k)'.ino # rd.span.ino

LEMMA WriterAdds ==
  ASSUME Catalog, BrokerTypes, Admitted, Write, UNCHANGED conf
  PROVE  Catalog' /\ Adds /\ writer.pc # "none" /\ writer'.pc # "none"
<1>1. store.acked \in Nat /\ Count \in Nat
  BY SpansAreTyped DEF Catalog, StoreTypes, Stores
<1>2. ASSUME UNCHANGED store PROVE Adds
  BY <1>1, <1>2 DEF Adds, Count, Entry
<1>3. CASE EndWriter
  <2>1. Catalog' /\ UNCHANGED store
    BY <1>3, EndWriterKeepsCatalog DEF EndWriter
  <2>2. writer.pc = "idle" /\ writer'.pc = "ended"
    BY <1>3 DEF EndWriter, GoWriter, Failing, BrokerTypes
  <2>3. QED
    BY <1>2, <2>1, <2>2
<1>4. CASE AppendByte
  <2>1. /\ Catalog' /\ Count' = Count
        /\ \A k \in 1..Count : /\ Entry(k)'.ino = Entry(k).ino
                               /\ Entry(k)'.start = Entry(k).start
        /\ \/ writer'.pc = "ended" /\ UNCHANGED store
           \/ writer'.pc = "idle" /\ store'.acked = store.acked + 1
           \/ writer'.pc = "rename" /\ store'.acked = store.acked
    BY <1>4, AppendKeepsCatalog
  <2>2. writer.pc # "none"
    BY <1>4 DEF AppendByte
  <2>3. Adds
    BY <1>1, <2>1 DEF Adds
  <2>4. QED
    BY <2>1, <2>2, <2>3
<1>5. CASE RenameActive
  <2>1. Catalog'
    BY <1>5, RenameKeepsCatalog
  <2>2. /\ writer.pc = "rename" /\ writer'.pc \in {"catalog", "ended"}
        /\ store' = store \/ store' = [store EXCEPT !.rotating = NoSpan]
    BY <1>5 DEF RenameActive, GoWriter, Failing, BrokerTypes
  <2>3. store'.spans = store.spans /\ store'.acked = store.acked
    BY <2>2 DEF Catalog, StoreTypes, Stores
  <2>4. Adds
    BY <1>1, <2>3 DEF Adds, Count, Entry
  <2>5. QED
    BY <2>1, <2>2, <2>4
<1>6. CASE UpdateCatalog
  <2>1. /\ Catalog' /\ Count' = Count /\ store'.acked = store.acked
        /\ writer'.pc = "evict"
        /\ \A k \in 1..Count : /\ Entry(k)'.ino = Entry(k).ino
                               /\ Entry(k)'.start = Entry(k).start
    BY <1>6, UpdateKeepsCatalog
  <2>2. writer.pc # "none"
    BY <1>6 DEF UpdateCatalog
  <2>3. Adds
    BY <1>1, <2>1 DEF Adds
  <2>4. QED
    BY <2>1, <2>2, <2>3
<1>7. CASE Evict
  <2>1. Catalog' /\ UNCHANGED store
    BY <1>7, EvictKeepsCatalog DEF Evict
  <2>2. writer.pc = "evict" /\ writer'.pc \in {"drop", "ended"}
    BY <1>7 DEF Evict, GoWriter, Failing, BrokerTypes
  <2>3. QED
    BY <1>2, <2>1, <2>2
<1>8. CASE DropSpan
  <2>1. /\ Catalog' /\ Count' = Count - 1 /\ store'.acked = store.acked
        /\ writer'.pc = "evict"
        /\ \A k \in 1..Count - 1 : Entry(k)' = Entry(k + 1)
    BY <1>8, DropKeepsCatalog
  <2>2. writer.pc # "none"
    BY <1>8 DEF DropSpan
  <2>3. \A k \in 1..Count - 1 : k + 1 \in 1..Count
    BY <1>1
  <2>4. Adds
    BY <1>1, <2>1, <2>3 DEF Adds
  <2>5. QED
    BY <2>1, <2>2, <2>4
<1>9. CASE CreateActive
  <2>1. /\ Catalog'
        /\ \/ writer'.pc = "ended" /\ UNCHANGED store
           \/ /\ Count' = Count + 1 /\ store'.acked = store.acked
              /\ writer'.pc = "append"
              /\ \A k \in 1..Count : Entry(k)' = Entry(k)
              /\ Entry(Count)'.start = store.acked
              /\ \E i \in FreeInodes : Entry(Count)'.ino = i
    BY <1>9, CreateKeepsCatalog
  <2>2. writer.pc # "none" /\ writer'.pc # "none"
    BY <1>9, <2>1 DEF CreateActive
  <2>3. CASE UNCHANGED store
    BY <1>2, <2>1, <2>2, <2>3
  <2>4. CASE Count' = Count + 1 /\ store'.acked = store.acked
    <3>1. /\ \A k \in 1..Count : Entry(k)' = Entry(k)
          /\ Entry(Count)'.start = store.acked
          /\ \E i \in FreeInodes : Entry(Count)'.ino = i
      BY <1>1, <2>1, <2>4 DEF Count
    <3>2. \A n \in Nat : n = Count' => /\ Entry(n)'.start = store.acked
                                       /\ Entry(n)'.ino \in FreeInodes
      BY <3>1 DEF Entry
    <3>3. rd.pc \in {"retained", "rotating", "stat"} =>
            \A i \in FreeInodes : i # rd.span.ino
      BY DEF FreeInodes
    <3>4. \A k \in 1..Count' : k \in 1..Count \/ k = Count'
      BY <1>1, <2>4
    <3>5. Adds
      BY <1>1, <2>4, <3>1, <3>2, <3>3, <3>4 DEF Adds
    <3>6. QED
      BY <2>1, <2>2, <3>5
  <2>5. QED
    BY <2>1, <2>3, <2>4
<1>10. QED
  BY <1>3, <1>4, <1>5, <1>6, <1>7, <1>8, <1>9 DEF Write

\* The pieces of a plan that are left, and the place in the first one.
PiecesInOrder ==
    /\ Ordered(query.spans)
    /\ \A k \in 1..Len(query.spans) : Readable(query.spans[k])
    /\ query.spans # <<>> =>
          /\ query.pc = "replay"
          /\ Piece1.start <= query.at /\ query.at < Piece1.end
    /\ query.pc \in {"plan", "replay", "live", "asked"} =>
          conf.mode # "unset"

\* A read is of the first piece, and what it has got is the byte it is for,
\* but where the inode has left the catalog, which is found out later.
Reading ==
    /\ rd.pc # "idle" =>
          /\ query.spans # <<>> /\ Piece1.kind = "file"
          /\ rd.span.ino = Piece1.ino /\ rd.span.start = Piece1.start
          /\ rd.span.end = Piece1.fend /\ rd.span.off = Piece1.off
          /\ rd.at = query.at
    /\ rd.pc = "retained" =>
          IF conf.mode = "none" THEN rd.data = rd.at
          ELSE \A k \in 1..Count :
                  Entry(k).ino = rd.span.ino /\ Entry(k).start <= rd.span.start
                     => rd.data = rd.at
    /\ rd.pc \in {"rotating", "stat", "done"} => rd.data = rd.at

OutBefore(n) == \A k \in 1..Len(client.out) : client.out[k] < n

\* The client is not ahead of the place of the query.
Written ==
    /\ WrittenIsTheLog
    /\ query.pc \in {"none", "plan"} => client.out = <<>>
    /\ query.pc = "replay" =>
          OutBefore(IF query.spans = <<>> THEN query.endpoint ELSE query.at)
    /\ query.pc \in {"live", "asked"} => OutBefore(live.from)
    /\ query.follow /\ query.pc \in {"plan", "replay"} =>
          live.from = query.endpoint

Player == QueryTypes /\ Captures /\ PiecesInOrder /\ Reading /\ Written

\* A range stays where it is in its inode, whatever the writer does.
LEMMA TracedStays ==
  ASSUME Catalog, Admitted, conf'.mode = conf.mode,
         conf.mode = "none" => content' = content,
         writer.pc # "none" => writer'.pc # "none" /\ Adds /\ Catalog',
         NEW ino, NEW start \in Int, NEW end \in Int, NEW off,
         start < end, Traced(ino, start, end, off)
  PROVE  Traced(ino, start, end, off)'
<1>1. CASE conf.mode = "none"
  BY <1>1 DEF Traced
<1>2. CASE conf.mode # "none"
  <2>1. /\ writer.pc # "none" /\ end <= store.acked
        /\ \A k \in 1..Count :
              Entry(k).ino = ino /\ Entry(k).start <= start =>
                 Entry(k).start = start - off
    BY <1>2 DEF Traced
  <2>2. writer'.pc # "none" /\ Adds /\ Catalog'
    BY <2>1
  <2>3. store.acked \in Nat /\ store'.acked \in Nat
    BY <2>2 DEF Catalog, StoreTypes, Stores
  <2>4. end <= store'.acked
    BY <2>1, <2>2, <2>3 DEF Adds
  <2>5. ASSUME NEW k \in 1..Count',
               Entry(k)'.ino = ino, Entry(k)'.start <= start
        PROVE  Entry(k)'.start = start - off
    <3>1. CASE \E j \in 1..Count : /\ Entry(k)'.ino = Entry(j).ino
                                   /\ Entry(k)'.start = Entry(j).start
      BY <2>1, <2>5, <3>1
    <3>2. CASE Entry(k)'.start = store.acked
      BY <2>1, <2>3, <2>5, <3>2
    <3>3. QED
      BY <2>2, <3>1, <3>2 DEF Adds
  <2>6. QED
    BY <1>2, <2>2, <2>4, <2>5 DEF Traced
<1>3. QED
  BY <1>1, <1>2

\* A read is under way only where there is a store or an old file.
LEMMA ReadingNeedsFiles ==
  ASSUME QueryTypes, PiecesInOrder, Reading, rd.pc # "idle"
  PROVE  /\ Len(query.spans) > 0 /\ 1 \in 1..Len(query.spans)
         /\ Piece1 \in Pieces /\ Readable(Piece1)
         /\ Piece1.kind = "file" /\ Piece1.start < Piece1.fend
         /\ Traced(Piece1.ino, Piece1.start, Piece1.fend, Piece1.off)
         /\ conf.mode = "none" \/ writer.pc # "none"
         /\ query.pc = "replay"
<1>1. query.spans # <<>> /\ Piece1.kind = "file"
  BY DEF Reading
<1>2. /\ Len(query.spans) > 0 /\ 1 \in 1..Len(query.spans)
      /\ query.spans[1] \in Pieces
  BY <1>1, QueryIsTyped
<1>3. Readable(Piece1)
  BY <1>2 DEF PiecesInOrder, Piece1
<1>4. /\ Piece1.start < Piece1.end /\ Piece1.end <= Piece1.fend
      /\ Traced(Piece1.ino, Piece1.start, Piece1.fend, Piece1.off)
  BY <1>1, <1>3 DEF Readable
<1>5. Piece1 \in Pieces /\ Piece1.start < Piece1.fend
  BY <1>2, <1>4 DEF Pieces, Piece1
<1>6. conf.mode = "none" \/ writer.pc # "none"
  BY <1>4 DEF Traced
<1>7. QED
  BY <1>1, <1>2, <1>3, <1>4, <1>5, <1>6 DEF PiecesInOrder

\* What the broker and the writer do leaves the query as it is.
LEMMA QueryStays ==
  ASSUME Catalog, Admitted, Player,
         UNCHANGED <<rd, query, client>>, live'.from = live.from,
         conf'.mode = conf.mode \/ conf.mode = "unset",
         conf.mode = "none" => content' = content,
         writer.pc # "none" => /\ writer'.pc # "none" /\ Adds /\ Catalog'
                               /\ conf'.mode = conf.mode
  PROVE  Captures' /\ PiecesInOrder' /\ Reading' /\ Written'
<1> USE DEF Player
<1>1. Written'
  BY DEF Written, WrittenIsTheLog, OutBefore
<1>2. /\ query.files \in Seq(Entries) /\ Len(query.files) \in Nat
      /\ \A k \in 1..Len(query.files) : query.files[k] \in Entries
      /\ query.files = <<>> <=> Len(query.files) = 0
      /\ Len(query.spans) \in Nat
      /\ \A k \in 1..Len(query.spans) : query.spans[k] \in Pieces
      /\ query.spans = <<>> <=> Len(query.spans) = 0
  BY QueryIsTyped
<1>3. CASE conf'.mode = conf.mode
  <2>1. ASSUME NEW ino, NEW start \in Int, NEW end \in Int, NEW off,
               start < end, Traced(ino, start, end, off)
        PROVE  Traced(ino, start, end, off)'
    BY <1>3, <2>1, TracedStays
  <2>2. Captures'
    <3>1. \A k \in 1..Len(query.files) :
             query.files[k].start \in Int /\ query.files[k].end \in Int
      BY <1>2 DEF Entries
    <3>2. ASSUME NEW k \in 1..Len(query.files),
                 query.files[k].start < query.files[k].end
          PROVE  Traced(query.files[k].ino, query.files[k].start,
                        query.files[k].end, query.files[k].off)'
      <4> DEFINE f == query.files[k]
      <4>1. /\ Traced(f.ino, f.start, f.end, f.off) /\ f.start \in Int
            /\ f.end \in Int /\ f.start < f.end
        BY <3>1, <3>2 DEF Captures
      <4>2. \A ino, off : \A start, end \in Int :
               start < end /\ Traced(ino, start, end, off) =>
                  Traced(ino, start, end, off)'
        BY <2>1
      <4>3. f' = f
        OBVIOUS
      <4> HIDE DEF f
      <4>4. PICK ino, off, start, end :
               ino = f.ino /\ off = f.off /\ start = f.start /\ end = f.end
        OBVIOUS
      <4>5. Traced(ino, start, end, off)'
        BY <4>1, <4>2, <4>4
      <4>6. Traced(f.ino, f.start, f.end, f.off)'
        BY <4>3, <4>4, <4>5 DEF Traced
      <4>7. QED
        BY <4>6 DEF f
    <3>3. query.filed => writer'.pc # "none"
      BY DEF Captures
    <3>4. QED
      BY <1>3, <3>2, <3>3 DEF Captures
  <2>3. PiecesInOrder'
    <3>1. \A k \in 1..Len(query.spans) :
             query.spans[k].start \in Int /\ query.spans[k].fend \in Int
             /\ query.spans[k].end \in Int
      BY <1>2 DEF Pieces
    <3>2. ASSUME NEW k \in 1..Len(query.spans)
          PROVE  Readable(query.spans[k])'
      <4> DEFINE p == query.spans[k]
      <4>1. Readable(p) /\ p' = p
        BY DEF PiecesInOrder
      <4>2. p.kind = "file" =>
               /\ p.start \in Int /\ p.fend \in Int /\ p.start < p.fend
               /\ Traced(p.ino, p.start, p.fend, p.off)
        BY <3>1, <4>1 DEF Readable
      <4>3. \A ino, off : \A start, end \in Int :
               start < end /\ Traced(ino, start, end, off) =>
                  Traced(ino, start, end, off)'
        BY <2>1
      <4> HIDE DEF p
      <4>4. ASSUME p.kind = "file"
            PROVE  Traced(p.ino, p.start, p.fend, p.off)'
        <5>1. PICK ino, off, start, end :
                 ino = p.ino /\ off = p.off /\ start = p.start
                 /\ end = p.fend
          OBVIOUS
        <5>2. Traced(ino, start, end, off)'
          BY <4>2, <4>3, <4>4, <5>1
        <5>3. QED
          BY <4>1, <5>1, <5>2 DEF Traced
      <4>5. Readable(p)'
        BY <4>1, <4>4 DEF Readable
      <4>6. QED
        BY <4>5 DEF p
    <3>3. QED
      BY <1>3, <3>2 DEF PiecesInOrder, Ordered, Piece1
  <2>4. Reading'
    <3>1. CASE rd.pc = "idle"
      BY <3>1 DEF Reading
    <3>2. CASE rd.pc # "idle"
      <4>1. conf.mode = "none" \/ writer.pc # "none"
        BY <3>2, ReadingNeedsFiles
      <4>2. CASE conf.mode = "none"
        BY <1>3, <4>2 DEF Reading, Piece1
      <4>3. CASE conf.mode # "none"
        <5>1. Adds /\ Catalog' /\ writer.pc # "none"
          BY <4>1, <4>3
        <5>2. ASSUME rd.pc = "retained", NEW k \in 1..Count',
                     Entry(k)'.ino = rd.span.ino,
                     Entry(k)'.start <= rd.span.start
              PROVE  rd.data = rd.at
          <6>1. PICK j \in 1..Count : /\ Entry(k)'.ino = Entry(j).ino
                                      /\ Entry(k)'.start = Entry(j).start
            BY <5>1, <5>2 DEF Adds
          <6>2. QED
            BY <4>3, <5>2, <6>1 DEF Reading
        <5>3. QED
          BY <1>3, <4>3, <5>2 DEF Reading, Piece1
      <4>4. QED
        BY <4>2, <4>3
    <3>3. QED
      BY <3>1, <3>2
  <2>5. QED
    BY <1>1, <2>2, <2>3, <2>4
<1>4. CASE conf.mode = "unset" /\ conf'.mode # conf.mode
  <2>1. writer.pc = "none" /\ query.pc \notin {"plan", "replay", "live"}
    BY <1>4 DEF Admitted, PiecesInOrder
  <2>2. query.spans = <<>> /\ query.files = <<>> /\ ~query.filed
    BY <1>4, <2>1 DEF PiecesInOrder, Captures
  <2>3. rd.pc = "idle"
    BY <2>2 DEF Reading
  <2>4. Len(query.spans) = 0 /\ Len(query.files) = 0
    BY <1>2, <2>2
  <2>5. Captures' /\ PiecesInOrder'
    BY <2>1, <2>2, <2>4 DEF Captures, PiecesInOrder, Ordered
  <2>6. Reading'
    BY <2>3 DEF Reading
  <2>7. QED
    BY <1>1, <2>5, <2>6
<1>5. QED
  BY <1>3, <1>4

-----------------------------------------------------------------------------
(* 6. The steps of a query.                                                *)

\* The steps of a query leave the files and the settings alone.
Still == UNCHANGED <<names, content, store, writer, conf>>

LEMMA TracedStill ==
  ASSUME Still
  PROVE  /\ \A ino, start, end, off :
               Traced(ino, start, end, off)' <=> Traced(ino, start, end, off)
         /\ query'.endpoint = query.endpoint =>
               \A p : Readable(p)' <=> Readable(p)
<1>1. \A ino, start, end, off :
         Traced(ino, start, end, off)' <=> Traced(ino, start, end, off)
  BY DEF Still, Traced, Count, Entry
<1>2. QED
  BY <1>1 DEF Readable

\* A step that keeps what was captured.
LEMMA CapturesStill ==
  ASSUME Captures, Still, query'.files = query.files,
         query'.filed = query.filed
  PROVE  Captures'
  BY TracedStill DEF Captures, Still

LEMMA QueryUpdate ==
  ASSUME NEW q \in Queries, NEW at \in Int
  PROVE  /\ [q EXCEPT !.at = at] \in Queries
         /\ \A spans \in Seq(Pieces), complete \in BOOLEAN :
               /\ [q EXCEPT !.spans = spans, !.at = at] \in Queries
               /\ [q EXCEPT !.spans = spans, !.at = at,
                            !.complete = complete] \in Queries
  BY DEF Queries

LEMMA NoReadIsTyped == NoRead \in Reads
<1>1. NoSpan \in Rotations
  BY StorageBounds DEF NoSpan, Rotations
<1>2. QED
  BY <1>1 DEF NoRead, ReadPlaces, Reads

\* One more byte.
LEMMA WriteOne ==
  ASSUME QueryTypes, WrittenIsTheLog, NEW n \in Int, OutBefore(n),
         client' = [client EXCEPT !.out = Append(@, n)]
  PROVE  /\ client' \in Clients
         /\ WrittenIsTheLog'
         /\ \A k \in 1..Len(client'.out) : client'.out[k] <= n
<1>1. client.out \in Seq(Int) /\ client'.out = Append(client.out, n)
  BY DEF QueryTypes, Queries, Clients
<1>2. /\ Len(client.out) \in Nat
      /\ \A k \in 1..Len(client.out) : client.out[k] \in Int
      /\ client'.out \in Seq(Int)
      /\ Len(client'.out) = Len(client.out) + 1
      /\ \A k \in 1..Len(client.out) : client'.out[k] = client.out[k]
      /\ client'.out[Len(client.out) + 1] = n
  BY <1>1, AppendProperties, LenProperties, ElementOfSeq
<1>3. client' \in Clients
  BY <1>2 DEF QueryTypes, Queries, Clients
<1>4. \A k \in 1..Len(client'.out) :
         k \in 1..Len(client.out) \/ k = Len(client.out) + 1
  BY <1>2
<1>5. \A k \in 1..Len(client'.out) : client'.out[k] <= n
  BY <1>2, <1>4 DEF OutBefore
<1>6. ASSUME NEW k \in 2..Len(client'.out)
      PROVE  client'.out[k - 1] < client'.out[k]
  <2>1. k - 1 \in 1..Len(client.out) /\ k \in 1..Len(client'.out)
    BY <1>2
  <2>2. client'.out[k - 1] = client.out[k - 1]
    BY <1>2, <2>1
  <2>3. CASE k \in 1..Len(client.out)
    <3>1. k \in 2..Len(client.out)
      BY <1>2, <2>3
    <3>2. QED
      BY <1>2, <2>2, <2>3, <3>1 DEF WrittenIsTheLog
  <2>4. CASE k = Len(client.out) + 1
    BY <1>2, <2>1, <2>2, <2>4 DEF OutBefore
  <2>5. QED
    BY <1>4, <2>1, <2>3, <2>4
<1>7. WrittenIsTheLog'
  BY <1>6 DEF WrittenIsTheLog
<1>8. QED
  BY <1>3, <1>5, <1>7

\* The next byte of a piece.
LEMMA ByteKeepsPlayer ==
  ASSUME Player, Still, UNCHANGED live, rd' \in Reads, rd'.pc = "idle",
         query.pc = "replay", query.spans # <<>>,
         query.at + 1 # Piece1.end,
         query' = [query EXCEPT !.at = @ + 1],
         client' = [client EXCEPT !.out = Append(@, query.at)]
  PROVE  Player'
<1> USE DEF Player
<1>1. /\ query.at \in Int /\ query.spans[1] \in Pieces
      /\ 1 \in 1..Len(query.spans)
  BY QueryIsTyped DEF QueryTypes, Queries, Clients
<1>2. /\ query'.spans = query.spans /\ query'.pc = query.pc
      /\ query'.at = query.at + 1 /\ query'.endpoint = query.endpoint
      /\ query'.files = query.files /\ query'.filed = query.filed
      /\ query'.follow = query.follow
  BY DEF QueryTypes, Queries, Clients
<1>3. OutBefore(query.at)
  BY DEF Written
<1>4. /\ client' \in Clients
      /\ WrittenIsTheLog'
      /\ \A k \in 1..Len(client'.out) : client'.out[k] <= query.at
  <2>1. \A n \in Int :
           OutBefore(n) /\ client' = [client EXCEPT !.out = Append(@, n)] =>
             /\ client' \in Clients
             /\ WrittenIsTheLog'
             /\ \A k \in 1..Len(client'.out) : client'.out[k] <= n
    BY WriteOne DEF Written
  <2>2. QED
    BY <1>1, <1>3, <2>1
<1>5. QueryTypes'
  <2>1. query' \in Queries
    <3>1. \A q \in Queries, at \in Int : [q EXCEPT !.at = at] \in Queries
      BY QueryUpdate
    <3>2. query \in Queries /\ query.at + 1 \in Int
      BY <1>1 DEF QueryTypes
    <3>3. [query EXCEPT !.at = query.at + 1] \in Queries
      BY <3>1, <3>2
    <3>4. QED
      BY <3>3
  <2>2. QED
    BY <1>4, <2>1 DEF QueryTypes
<1>6. Captures'
  BY <1>2, CapturesStill
<1>7. PiecesInOrder'
  <2>1. Piece1.start <= query.at + 1 /\ query.at + 1 < Piece1.end
    <3>1. /\ Piece1.start \in Int /\ Piece1.end \in Int
          /\ Piece1.start <= query.at /\ query.at < Piece1.end
      BY <1>1 DEF PiecesInOrder, Piece1, Pieces
    <3>2. QED
      BY <1>1, <3>1
  <2>2. \A k \in 1..Len(query.spans) : Readable(query.spans[k])
    BY DEF PiecesInOrder
  <2>3. \A p : Readable(p)' <=> Readable(p)
    BY <1>2, TracedStill
  <2>4. \A k \in 1..Len(query'.spans) : Readable(query.spans[k])'
    BY <1>2, <2>2, <2>3 DEF Readable
  <2>5. QED
    BY <1>2, <2>1, <2>4 DEF PiecesInOrder, Ordered, Piece1, Still, Readable
<1>8. Reading'
  BY DEF Reading
<1>9. Written'
  <2>1. \A k \in 1..Len(client'.out) : client'.out[k] < query.at + 1
    <3>1. \A k \in 1..Len(client'.out) : client'.out[k] \in Int
      BY <1>4, ElementOfSeq DEF Clients
    <3>2. QED
      BY <1>1, <1>4, <3>1
  <2>2. QED
    BY <1>2, <1>4, <2>1 DEF Written, OutBefore
<1>10. QED
  BY <1>5, <1>6, <1>7, <1>8, <1>9

\* What is left after the first piece, read to its end or given up.
LEMMA PieceKeepsPlayer ==
  ASSUME Player, Still, UNCHANGED live, rd' \in Reads, rd'.pc = "idle",
         query.pc = "replay", query.spans # <<>>,
         query' = NextPiece \/ query' = SkipPiece,
         UNCHANGED client
         \/ client' = [client EXCEPT !.out = Append(@, query.at)]
  PROVE  Player'
<1> USE DEF Player
<1> DEFINE left == Tail(query.spans)
           at == IF Len(query.spans) > 1 THEN query.spans[2].start
                 ELSE query.at
<1>1. /\ query.at \in Int /\ query.spans \in Seq(Pieces)
      /\ Len(query.spans) \in Nat /\ Len(query.spans) > 0
      /\ \A k \in 1..Len(query.spans) :
            /\ query.spans[k] \in Pieces
            /\ query.spans[k].start \in Int /\ query.spans[k].end \in Int
      /\ query.endpoint \in Int
  <2>1. /\ query.at \in Int /\ query.spans \in Seq(Pieces)
        /\ Len(query.spans) \in Nat /\ Len(query.spans) > 0
        /\ \A k \in 1..Len(query.spans) : query.spans[k] \in Pieces
        /\ query.endpoint \in Int
    BY QueryIsTyped DEF QueryTypes, Queries
  <2>2. QED
    BY <2>1 DEF Pieces
<1>2. /\ left \in Seq(Pieces) /\ Len(left) = Len(query.spans) - 1
      /\ \A k \in 1..Len(left) : left[k] = query.spans[k + 1]
      /\ left = <<>> <=> Len(left) = 0
  <2>1. /\ left \in Seq(Pieces) /\ Len(left) = Len(query.spans) - 1
        /\ \A k \in 1..Len(left) : left[k] = query.spans[k + 1]
    BY <1>1, HeadTailProperties
  <2> HIDE DEF left
  <2>2. QED
    BY <2>1, EmptySeq, LenProperties
<1>3. at \in Int
  BY <1>1
<1> HIDE DEF left, at
<1>4. /\ query' \in Queries /\ query'.spans = left /\ query'.at = at
      /\ query'.pc = "replay" /\ query'.endpoint = query.endpoint
      /\ query'.files = query.files /\ query'.filed = query.filed
      /\ query'.follow = query.follow
  <2> DEFINE next == [query EXCEPT !.spans = left, !.at = at]
  <2>1. NextPiece = next
    BY DEF NextPiece, left, at
  <2>2. /\ next \in Queries /\ next.spans = left /\ next.at = at
        /\ next.pc = "replay" /\ next.endpoint = query.endpoint
        /\ next.files = query.files /\ next.filed = query.filed
        /\ next.follow = query.follow
    BY <1>2, <1>3 DEF QueryTypes, Queries
  <2>3. query' = next \/ query' = [next EXCEPT !.complete = FALSE]
    BY <2>1 DEF SkipPiece
  <2> HIDE DEF next
  <2>4. QED
    BY <2>2, <2>3 DEF Queries
<1>5. /\ client' \in Clients /\ WrittenIsTheLog'
      /\ \A k \in 1..Len(client'.out) : client'.out[k] <= query.at
  <2>1. OutBefore(query.at) /\ WrittenIsTheLog /\ client \in Clients
    BY DEF Written, QueryTypes
  <2>2. CASE UNCHANGED client
    <3>1. /\ client' \in Clients /\ WrittenIsTheLog'
          /\ \A k \in 1..Len(client.out) : client.out[k] \in Int
      BY <2>1, <2>2, ElementOfSeq DEF WrittenIsTheLog, Clients
    <3>2. QED
      BY <1>1, <2>1, <2>2, <3>1 DEF OutBefore
  <2>3. CASE client' = [client EXCEPT !.out = Append(@, query.at)]
    <3>1. \A n \in Int :
             OutBefore(n) /\ client' = [client EXCEPT !.out = Append(@, n)] =>
               /\ client' \in Clients
               /\ WrittenIsTheLog'
               /\ \A k \in 1..Len(client'.out) : client'.out[k] <= n
      BY WriteOne DEF Written
    <3>2. QED
      BY <1>1, <2>1, <2>3, <3>1
  <2>4. QED
    BY <2>2, <2>3
<1>6. QueryTypes'
  BY <1>4, <1>5 DEF QueryTypes
<1>7. Captures'
  BY <1>4, CapturesStill
<1>8. /\ \A k \in 1..Len(left) : /\ k + 1 \in 1..Len(query.spans)
                                 /\ left[k] = query.spans[k + 1]
                                 /\ Readable(left[k])
      /\ Readable(query.spans[1])
  <2>1. \A k \in 1..Len(query.spans) : Readable(query.spans[k])
    BY DEF PiecesInOrder
  <2>2. 1 \in 1..Len(query.spans)
    BY <1>1
  <2>3. \A k \in 1..Len(left) : /\ k + 1 \in 1..Len(query.spans)
                                /\ left[k] = query.spans[k + 1]
    BY <1>1, <1>2
  <2>4. QED
    BY <2>1, <2>2, <2>3
<1>9. PiecesInOrder'
  <2>1. Ordered(left)
    <3>1. \A j, k \in 1..Len(query.spans) :
             j < k => query.spans[j].end <= query.spans[k].start
      BY DEF PiecesInOrder, Ordered
    <3>2. ASSUME NEW j \in 1..Len(left), NEW k \in 1..Len(left), j < k
          PROVE  left[j].end <= left[k].start
      <4>1. j + 1 < k + 1
        BY <1>2, <3>2
      <4>2. query.spans[j + 1].end <= query.spans[k + 1].start
        BY <1>8, <3>1, <4>1
      <4>3. QED
        BY <1>8, <4>2
    <3>3. QED
      BY <3>2 DEF Ordered
  <2>2. \A p : Readable(p)' <=> Readable(p)
    BY <1>4, TracedStill
  <2>3. \A k \in 1..Len(query'.spans) : Readable(query.spans[k])'
    <3>1. \A p, k : p = query'.spans[k] /\ Readable(p)' =>
                       Readable(query.spans[k])'
      BY DEF Readable
    <3>2. \A k \in 1..Len(query'.spans) : Readable(query'.spans[k])
      BY <1>4, <1>8
    <3>3. QED
      BY <2>2, <3>1, <3>2
  <2>4. left # <<>> => left[1].start <= at /\ at < left[1].end
    <3> SUFFICES ASSUME left # <<>>
                 PROVE  left[1].start <= at /\ at < left[1].end
      OBVIOUS
    <3>1. 1 \in 1..Len(left) /\ Len(query.spans) > 1
      BY <1>1, <1>2
    <3>2. left[1] = query.spans[2] /\ at = query.spans[2].start
      BY <1>2, <3>1 DEF at
    <3>3. left[1].start < left[1].end /\ left[1].start \in Int
      BY <1>1, <1>8, <3>1 DEF Readable
    <3>4. QED
      BY <3>2, <3>3
  <2>5. QED
    <3>1. Ordered(query.spans)'
      BY <1>4, <2>1 DEF Ordered
    <3>2. conf'.mode # "unset" /\ Piece1' = left[1]
      BY <1>4 DEF PiecesInOrder, Still, Piece1
    <3>3. QED
      BY <1>4, <2>3, <2>4, <3>1, <3>2 DEF PiecesInOrder
<1>10. Reading'
  BY DEF Reading
<1>11. Written'
  <2>1. /\ query.at < query.spans[1].end
        /\ query.spans[1].end <= query.endpoint
        /\ query.spans[1].end \in Int
    BY <1>1, <1>8 DEF PiecesInOrder, Piece1, Readable
  <2>2. query.at < IF left = <<>> THEN query.endpoint ELSE at
    <3>1. CASE left = <<>>
      BY <1>1, <2>1, <3>1
    <3>2. CASE left # <<>>
      <4>1. 1 \in 1..Len(query.spans) /\ 2 \in 1..Len(query.spans)
        BY <1>1, <1>2, <3>2
      <4>2. query.spans[1].end <= query.spans[2].start
        BY <4>1 DEF PiecesInOrder, Ordered
      <4>3. at = query.spans[2].start /\ query.spans[2].start \in Int
        BY <1>1, <4>1 DEF at
      <4>4. QED
        BY <1>1, <2>1, <3>2, <4>2, <4>3
    <3>3. QED
      BY <3>1, <3>2
  <2>3. \A k \in 1..Len(client'.out) : client'.out[k] \in Int
    BY <1>5, ElementOfSeq DEF Clients
  <2>4. (IF left = <<>> THEN query.endpoint ELSE at) \in Int
    BY <1>1, <1>3
  <2>5. \A k \in 1..Len(client'.out) :
           client'.out[k] < IF left = <<>> THEN query.endpoint ELSE at
    BY <1>1, <1>5, <2>2, <2>3, <2>4
  <2>6. OutBefore(IF query.spans = <<>> THEN query.endpoint ELSE query.at)'
    BY <1>4, <2>5 DEF OutBefore
  <2>7. query'.follow => live'.from = query'.endpoint
    BY <1>4 DEF Written
  <2>8. QED
    BY <1>4, <1>5, <2>6, <2>7 DEF Written
<1>12. QED
  BY <1>6, <1>7, <1>9, <1>10, <1>11

\* What a query captures.
LEMMA CapturedFiles ==
  ASSUME Catalog, BrokerTypes, Admitted
  PROVE  /\ Captured \in Seq(Entries)
         /\ \A k \in 1..Len(Captured) : Captured[k].start <= Captured[k].end
         /\ \A j, k \in 1..Len(Captured) : j < k =>
               /\ Captured[j].end <= Captured[k].start
               /\ Captured[j].start < Captured[j].end
         /\ Captured # <<>> => Attached \/ conf.mode = "none"
         /\ \A k \in 1..Len(Captured) :
               Traced(Captured[k].ino, Captured[k].start, Captured[k].end,
                      Captured[k].off)
<1>1. CASE Attached
  <2>1. Captured = store.spans
    BY <1>1 DEF Captured
  <2>2. /\ store.spans \in Seq(Entries)
        /\ \A k \in 1..Count : /\ Entry(k).off = 0 /\ Entry(k).start \in Int
    BY SpansAreTyped DEF Catalog
  <2>3. \A k \in 1..Count :
           Traced(Entry(k).ino, Entry(k).start, Entry(k).end, Entry(k).off)
    <3>1. \A k \in 1..Count :
             Traced(Entry(k).ino, Entry(k).start + 0, Entry(k).end, 0)
      BY <1>1, CatalogIsTraced DEF Attached
    <3>2. \A k \in 1..Count :
             Entry(k).start + 0 = Entry(k).start /\ Entry(k).off = 0
      BY <2>2
    <3>3. QED
      BY <3>1, <3>2
  <2>4. QED
    BY <1>1, <2>1, <2>2, <2>3 DEF Catalog, InOrder, Count, Entry
<1>2. CASE ~Attached /\ conf.mode = "none" /\ content[1].len > 0
           /\ Named(0) = 1
  <2> DEFINE old == Span(0, 1, content[1].from, 0)
  <2>1. Captured = <<old>>
    BY <1>2 DEF Captured
  <2>2. 1 \in Inodes /\ content[1].from \in Int /\ content[1].len \in Int
    BY StorageBounds DEF Inodes, Catalog, StoreTypes
  <2>3. content[1].from = -content[1].len
    <3>1. ~store.open
      BY <1>2 DEF Admitted, Catalog, Opened
    <3>2. QED
      BY <1>2, <3>1 DEF Catalog, Opened
  <2>4. /\ old \in Entries /\ old.start < old.end /\ old.ino = 1
        /\ old.off = 0 /\ old.start = content[1].from
    BY <1>2, <2>2, <2>3 DEF Span, Entries
  <2>5. Traced(old.ino, old.start, old.end, old.off)
    BY <1>2, <2>2, <2>4 DEF Traced
  <2> HIDE DEF old
  <2>6. /\ <<old>> \in Seq(Entries) /\ Len(<<old>>) = 1 /\ <<old>>[1] = old
        /\ old.start \in Int /\ old.end \in Int
    BY <2>4 DEF Entries
  <2>7. QED
    BY <1>2, <2>1, <2>4, <2>5, <2>6
<1>3. CASE ~Attached /\ ~(conf.mode = "none" /\ content[1].len > 0
                          /\ Named(0) = 1)
  <2>1. Captured = <<>> /\ <<>> \in Seq(Entries) /\ Len(<<>>) = 0
    BY <1>3, EmptySeq DEF Captured
  <2>2. QED
    BY <2>1
<1>4. QED
  BY <1>1, <1>2, <1>3

LEMMA NoQueryIsTyped ==
  /\ NoQuery \in Queries /\ NoLive \in Lives /\ FailedClient \in Clients
  /\ Len(NoQuery.files) = 0 /\ Len(NoQuery.spans) = 0
  /\ Len(FailedClient.out) = 0
<1>1. /\ <<>> \in Seq(Entries) /\ <<>> \in Seq(Pieces) /\ <<>> \in Seq(Int)
      /\ Len(<<>>) = 0
  BY EmptySeq
<1>2. QED
  BY <1>1 DEF NoQuery, Queries, NoLive, Lives, FailedClient, Clients

LEMMA SubscribeKeepsPlayer ==
  ASSUME Player, Catalog, BrokerTypes, Admitted, Subscribe
  PROVE  Player'
<1> USE DEF Player
<1>1. /\ query.pc = "none" /\ conf.mode # "unset"
      /\ UNCHANGED <<names, content, store, writer, rd, position, hist, conf>>
  BY DEF Subscribe, storageVars
<1>2. /\ Captured \in Seq(Entries)
      /\ \A k \in 1..Len(Captured) : Captured[k].start <= Captured[k].end
      /\ \A j, k \in 1..Len(Captured) : j < k =>
            /\ Captured[j].end <= Captured[k].start
            /\ Captured[j].start < Captured[j].end
      /\ Captured # <<>> => Attached \/ conf.mode = "none"
      /\ \A k \in 1..Len(Captured) :
            Traced(Captured[k].ino, Captured[k].start, Captured[k].end,
                   Captured[k].off)
  BY CapturedFiles
<1>3. PICK follow \in BOOLEAN :
         /\ query' = [NoQuery EXCEPT
               !.pc = "plan", !.follow = follow, !.endpoint = position,
               !.mem = hist.start, !.filed = Attached, !.files = Captured]
         /\ live' = IF follow THEN [on |-> TRUE, from |-> position,
                                    to |-> position, reason |-> "none"]
                    ELSE live
  BY DEF Subscribe
<1>4. position \in Nat /\ hist.start \in Nat /\ Attached \in BOOLEAN
  BY DEF BrokerTypes, Attached
<1>5. /\ query' \in Queries /\ query'.pc = "plan" /\ query'.follow = follow
      /\ query'.endpoint = position /\ query'.filed = Attached
      /\ query'.files = Captured /\ query'.spans = <<>>
  <2>1. <<>> \in Seq(Pieces) /\ <<>> \in Seq(Entries)
    BY EmptySeq
  <2> DEFINE asked ==
        [pc |-> "plan", follow |-> follow, endpoint |-> position,
         mem |-> hist.start, filed |-> Attached, files |-> Captured,
         spans |-> <<>>, at |-> 0, complete |-> TRUE]
  <2>2. query' = asked
    BY <1>3 DEF NoQuery
  <2>3. asked \in Queries
    BY <1>2, <1>4, <2>1 DEF Queries
  <2>4. QED
    BY <2>2, <2>3
<1>6. live' \in Lives /\ (follow => live'.from = position)
  BY <1>3, <1>4 DEF QueryTypes, Lives
<1>7. client.out = <<>> /\ client'.out = <<>> /\ client' \in Clients
  <2>1. client.out = <<>> /\ client \in Clients
    BY <1>1 DEF Written, QueryTypes
  <2> DEFINE B == IF Recording /\ hist.start < position
                  THEN {hist.start} ELSE {}
             first == SmallestOf(SpanStarts(Captured) \cup B, position)
  <2>2. first \in Int
    <3>1. /\ B = {} \/ \E b \in Int : B = {b}
          /\ position \in Int
      BY <1>4
    <3> HIDE DEF B
    <3>2. QED
      BY <1>2, <3>1, FirstByte
  <2>3. client' = [client EXCEPT !.first = first]
    BY DEF Subscribe
  <2> HIDE DEF first
  <2>4. QED
    BY <2>1, <2>2, <2>3 DEF Clients
<1>8. QueryTypes'
  BY <1>1, <1>5, <1>6, <1>7 DEF QueryTypes
<1>9. Captures'
  <2>1. Still
    BY <1>1 DEF Still
  <2>2. \A p, k : p = query'.files[k] /\ Traced(p.ino, p.start, p.end, p.off)'
           => Traced(query.files[k].ino, query.files[k].start,
                     query.files[k].end, query.files[k].off)'
    BY DEF Traced
  <2>3. \A k \in 1..Len(query'.files) :
           Traced(query.files[k].ino, query.files[k].start,
                  query.files[k].end, query.files[k].off)'
    <3>1. \A k \in 1..Len(query'.files) :
             Traced(query'.files[k].ino, query'.files[k].start,
                    query'.files[k].end, query'.files[k].off)
      BY <1>2, <1>5
    <3>2. QED
      BY <2>1, <2>2, <3>1, TracedStill
  <2>4. query'.filed => writer'.pc # "none"
    BY <1>1, <1>5 DEF Attached
  <2>5. query'.files # <<>> => query'.filed \/ conf'.mode = "none"
    BY <1>1, <1>2, <1>5
  <2>6. QED
    BY <1>2, <1>5, <2>3, <2>4, <2>5 DEF Captures
<1>10. rd.pc = "idle"
  BY <1>1 DEF Reading, PiecesInOrder
<1>11. PiecesInOrder' /\ Reading'
  <2>1. Len(query'.spans) = 0
    BY <1>5
  <2>2. QED
    BY <1>1, <1>5, <1>10, <2>1 DEF PiecesInOrder, Reading, Ordered
<1>12. Written'
  <2>1. Len(client'.out) = 0
    BY <1>7
  <2>2. QED
    BY <1>5, <1>6, <1>7, <2>1 DEF Written, WrittenIsTheLog
<1>13. QED
  BY <1>8, <1>9, <1>11, <1>12

LEMMA PlanKeepsPlayer ==
  ASSUME Player, Catalog, BrokerTypes, Admitted, PlanReplay
  PROVE  Player'
<1> USE DEF Player
<1> DEFINE start == Least(query.endpoint, Most(query.mem, hist.start))
           spans == PlanOf(start)
           at == IF spans = <<>> THEN 0 ELSE spans[1].start
<1>1. /\ query.pc = "plan"
      /\ UNCHANGED <<names, content, store, writer, rd, position, hist, conf,
                     live, client>>
  BY DEF PlanReplay, storageVars
<1>2. start \in Nat /\ start <= query.endpoint
  <2>1. /\ query.endpoint \in Nat /\ query.mem \in Nat /\ hist.start \in Nat
    BY DEF QueryTypes, Queries, BrokerTypes
  <2>2. QED
    BY <2>1 DEF Least, Most
<1> HIDE DEF start
<1>3. /\ spans \in Seq(Pieces) /\ Ordered(spans)
      /\ \A k \in 1..Len(spans) : Readable(spans[k])
  BY <1>2, PlanIsReadable
<1> HIDE DEF spans
<1>4. /\ Len(spans) \in Nat /\ spans = <<>> <=> Len(spans) = 0
      /\ spans # <<>> => 1 \in 1..Len(spans) /\ spans[1] \in Pieces
  <2>1. Len(spans) \in Nat /\ (spans = <<>> <=> Len(spans) = 0)
    BY <1>3, EmptySeq, LenProperties
  <2>2. QED
    BY <1>3, <2>1, ElementOfSeq
<1>5. at \in Int
  BY <1>4 DEF Pieces
<1> HIDE DEF at
<1>6. PICK complete \in BOOLEAN :
         query' = [query EXCEPT !.pc = "replay", !.spans = spans, !.at = at,
                                !.complete = complete]
  <2>1. \E complete \in BOOLEAN :
          query' = [query EXCEPT
             !.pc = "replay", !.spans = PlanOf(start),
             !.at = IF PlanOf(start) = <<>> THEN 0 ELSE PlanOf(start)[1].start,
             !.complete = complete]
    BY DEF PlanReplay, start, Gapless
  <2>2. QED
    BY <2>1 DEF spans, at
<1>7. /\ query' \in Queries /\ query'.pc = "replay" /\ query'.spans = spans
      /\ query'.at = at /\ query'.endpoint = query.endpoint
      /\ query'.files = query.files /\ query'.filed = query.filed
      /\ query'.follow = query.follow
  BY <1>3, <1>5, <1>6 DEF QueryTypes, Queries
<1>8. Still
  BY <1>1 DEF Still
<1>9. QueryTypes' /\ Captures'
  BY <1>1, <1>7, <1>8, CapturesStill DEF QueryTypes
<1>10. rd.pc = "idle"
  BY <1>1 DEF Reading, PiecesInOrder
<1>11. PiecesInOrder'
  <2>1. \A k \in 1..Len(query'.spans) : Readable(query.spans[k])'
    <3>1. \A p, k : p = query'.spans[k] /\ Readable(p)' =>
                       Readable(query.spans[k])'
      BY DEF Readable
    <3>2. \A k \in 1..Len(query'.spans) : Readable(query'.spans[k])
      BY <1>3, <1>7
    <3>3. QED
      BY <1>7, <1>8, <3>1, <3>2, TracedStill
  <2>2. spans # <<>> => spans[1].start <= at /\ at < spans[1].end
    BY <1>3, <1>4, <1>5 DEF at, Readable, Pieces
  <2>3. Ordered(query.spans)' /\ conf'.mode # "unset"
    BY <1>1, <1>3, <1>7 DEF Ordered, PiecesInOrder
  <2>4. Piece1' = spans[1]
    BY <1>7 DEF Piece1
  <2>5. QED
    BY <1>7, <2>1, <2>2, <2>3, <2>4 DEF PiecesInOrder
<1>12. Reading'
  BY <1>1, <1>10 DEF Reading
<1>13. Written'
  <2>1. client'.out = <<>> /\ Len(client'.out) = 0
    BY <1>1 DEF Written
  <2>2. query.follow => live.from = query.endpoint
    BY <1>1 DEF Written
  <2>3. QED
    BY <1>1, <1>7, <2>1, <2>2 DEF Written, WrittenIsTheLog, OutBefore
<1>14. QED
  BY <1>9, <1>11, <1>12, <1>13

LEMMA MemoryKeepsPlayer ==
  ASSUME Player, ReplayMemory
  PROVE  Player'
<1>1. /\ query.pc = "replay" /\ query.spans # <<>> /\ Piece1.kind # "file"
      /\ UNCHANGED <<names, content, store, writer, rd, conf, live>>
  BY DEF ReplayMemory, storageVars
<1>2. rd.pc = "idle"
  BY <1>1 DEF Player, Reading
<1>3. Still /\ rd' \in Reads /\ rd'.pc = "idle" /\ UNCHANGED live
  BY <1>1, <1>2 DEF Still, Player, QueryTypes
<1>4. CASE query' = SkipPiece /\ UNCHANGED client
  BY <1>1, <1>3, <1>4, PieceKeepsPlayer
<1>5. CASE /\ client' = [client EXCEPT !.out = Append(@, query.at)]
           /\ query' = IF query.at + 1 = Piece1.end THEN NextPiece
                       ELSE [query EXCEPT !.at = @ + 1]
  <2>1. CASE query.at + 1 = Piece1.end
    BY <1>1, <1>3, <1>5, <2>1, PieceKeepsPlayer
  <2>2. CASE query.at + 1 # Piece1.end
    BY <1>1, <1>3, <1>5, <2>2, ByteKeepsPlayer
  <2>3. QED
    BY <2>1, <2>2
<1>6. QED
  BY <1>4, <1>5 DEF ReplayMemory

LEMMA EndReadKeepsPlayer ==
  ASSUME Player, EndRead
  PROVE  Player'
<1>1. /\ rd.pc \in {"done", "unavailable"} /\ rd' = NoRead
      /\ UNCHANGED <<names, content, store, writer, conf, live>>
  BY DEF EndRead
<1>2. query.pc = "replay" /\ query.spans # <<>> /\ rd.at = query.at
  BY <1>1 DEF Player, Reading, PiecesInOrder
<1>3. Still /\ rd' \in Reads /\ rd'.pc = "idle" /\ UNCHANGED live
  BY <1>1, NoReadIsTyped DEF Still, NoRead
<1>4. CASE rd.pc = "unavailable"
  <2>1. query' = SkipPiece /\ UNCHANGED client
    BY <1>4 DEF EndRead
  <2>2. QED
    BY <1>2, <1>3, <2>1, PieceKeepsPlayer
<1>5. CASE rd.pc = "done"
  <2>1. rd.data = query.at
    BY <1>2, <1>5 DEF Player, Reading
  <2>2. /\ client' = [client EXCEPT !.out = Append(@, query.at)]
        /\ query' = IF query.at + 1 = Piece1.end THEN NextPiece
                    ELSE [query EXCEPT !.at = @ + 1]
    BY <1>5, <2>1 DEF EndRead
  <2>3. CASE query.at + 1 = Piece1.end
    BY <1>2, <1>3, <2>2, <2>3, PieceKeepsPlayer
  <2>4. CASE query.at + 1 # Piece1.end
    BY <1>2, <1>3, <2>2, <2>4, ByteKeepsPlayer
  <2>5. QED
    BY <2>3, <2>4
<1>6. QED
  BY <1>1, <1>4, <1>5

\* The steps of the reader leave the query as it is.
LEMMA QuietQuery ==
  ASSUME Player, Still, UNCHANGED <<query, client, live>>
  PROVE  Captures' /\ PiecesInOrder' /\ Written'
<1>1. Captures'
  BY CapturesStill DEF Player
<1>2. PiecesInOrder'
  BY DEF Player, PiecesInOrder, Ordered, Piece1, Readable, Traced, Still,
         Count, Entry
<1>3. Written'
  BY DEF Player, Written, WrittenIsTheLog, OutBefore
<1>4. QED
  BY <1>1, <1>2, <1>3

\* Where the catalog still has a captured range.
LEMMA RetainedEntry ==
  ASSUME StoreTypes, Retained(rd.span)
  PROVE  \E k \in 1..Count : /\ Entry(k).ino = rd.span.ino
                             /\ Entry(k).start <= rd.span.start
                             /\ NameOf(rd.span) = Entry(k).name
                             /\ NameOf(rd.span) \in Nat
<1> DEFINE here(k) == store.spans[k].ino = rd.span.ino
           c == CHOOSE k \in DOMAIN store.spans : here(k)
<1>1. /\ DOMAIN store.spans = 1..Count
      /\ \A k \in 1..Count : Entry(k).name \in Nat
  BY SpansAreTyped
<1>2. \E k \in DOMAIN store.spans : here(k)
  BY DEF Retained, Holds
<1>3. c \in DOMAIN store.spans /\ here(c)
  BY <1>2
<1>4. Of(store.spans, rd.span.ino) = store.spans[c]
  BY DEF Of
<1> HIDE DEF c
<1>5. Entry(c).start <= rd.span.start /\ NameOf(rd.span) = Entry(c).name
  BY <1>4 DEF Retained, NameOf, Entry
<1>6. QED
  BY <1>1, <1>3, <1>5 DEF Entry

LEMMA StartKeepsPlayer ==
  ASSUME Player, StartRead
  PROVE  Player'
<1> USE DEF Player
<1>1. /\ query.pc = "replay" /\ query.spans # <<>> /\ Piece1.kind = "file"
      /\ rd.pc = "idle"
      /\ UNCHANGED <<names, content, store, writer, query, client, live, conf>>
  BY DEF StartRead, brokerVars
<1> DEFINE span == [name |-> 0, ino |-> Piece1.ino, start |-> Piece1.start,
                    end |-> Piece1.fend, off |-> Piece1.off]
           pc == IF conf.mode = "none" THEN "open" ELSE "lookup"
<1>2. /\ query.spans[1] \in Pieces /\ query.at \in Int
  BY <1>1, QueryIsTyped DEF QueryTypes, Queries
<1>3. span \in Rotations
  BY <1>2 DEF Piece1, Pieces, Rotations
<1>4. rd' = [NoRead EXCEPT !.pc = pc, !.span = span, !.at = query.at]
  BY DEF StartRead
<1>5. /\ span.ino = Piece1.ino /\ span.start = Piece1.start
      /\ span.end = Piece1.fend /\ span.off = Piece1.off
      /\ pc \in {"open", "lookup"}
  OBVIOUS
<1> HIDE DEF span, pc
<1>6. /\ rd' \in Reads /\ rd'.pc = pc /\ rd'.span = span
      /\ rd'.at = query.at
  <2>1. NoRead \in Reads /\ pc \in ReadPlaces
    BY <1>5, NoReadIsTyped DEF ReadPlaces
  <2>2. \A r \in Reads, at \in Int :
           LET s == [r EXCEPT !.pc = pc, !.span = span, !.at = at]
           IN s \in Reads /\ s.pc = pc /\ s.span = span /\ s.at = at
    BY <1>3, <2>1 DEF Reads
  <2>3. QED
    BY <1>2, <1>4, <2>1, <2>2
<1>7. QueryTypes'
  BY <1>1, <1>6 DEF QueryTypes
<1>8. Reading'
  BY <1>1, <1>5, <1>6 DEF Reading, Piece1
<1>9. Still
  BY <1>1 DEF Still
<1>10. QED
  BY <1>1, <1>7, <1>8, <1>9, QuietQuery

\* The reader gets the byte it is for, or finds out that the file is gone.
LEMMA ReadKeepsPlayer ==
  ASSUME Player, Catalog, Admitted, UNCHANGED brokerVars, Read \/ ReadOld
  PROVE  Player'
<1> USE DEF Player
<1>1. /\ UNCHANGED <<query, client, live, conf>>
      /\ UNCHANGED <<names, content, store, writer>>
  BY DEF Read, ReadOld, brokerVars
<1>2. rd.pc # "idle"
  BY DEF Read, ReadOld, LookUp, OpenAndRead, CheckRetained, CheckRotating,
         CheckName, Refresh, Retry
<1>3. /\ rd.span.ino = Piece1.ino /\ rd.span.start = Piece1.start
      /\ rd.span.end = Piece1.fend /\ rd.span.off = Piece1.off
      /\ query.spans # <<>> /\ Piece1.kind = "file" /\ rd.at = query.at
  BY <1>2 DEF Reading
<1>4. /\ Traced(rd.span.ino, rd.span.start, rd.span.end, rd.span.off)
      /\ rd.span.ino \in Inodes
  BY <1>2, <1>3, ReadingNeedsFiles DEF Readable
<1>5. /\ rd \in Reads /\ rd.at \in Int /\ rd.span.start \in Int
      /\ rd.span.off \in Int /\ rd.name \in Nat /\ rd.cur \in Nat
  BY DEF QueryTypes, Reads, Rotations
<1>6. StoreTypes
  BY DEF Catalog
<1>7. \A pc \in ReadPlaces : [rd EXCEPT !.pc = pc] \in Reads
  BY <1>5 DEF Reads
<1>8. ASSUME rd' \in Reads, rd'.span = rd.span, rd'.at = rd.at,
             rd'.pc = "retained" =>
               IF conf.mode = "none" THEN rd'.data = rd.at
               ELSE \A k \in 1..Count :
                       /\ Entry(k).ino = rd.span.ino
                       /\ Entry(k).start <= rd.span.start
                       => rd'.data = rd.at,
             rd'.pc \in {"rotating", "stat", "done"} => rd'.data = rd.at
      PROVE  Player'
  <2>1. QueryTypes'
    BY <1>1, <1>8 DEF QueryTypes
  <2>2. Reading'
    BY <1>1, <1>3, <1>8 DEF Reading, Piece1, Count, Entry
  <2>3. Still
    BY <1>1 DEF Still
  <2>4. QED
    BY <1>1, <2>1, <2>2, <2>3, QuietQuery
<1>9. ASSUME NEW pc \in ReadPlaces, pc \notin {"retained"},
             rd' = [rd EXCEPT !.pc = pc],
             pc \in {"rotating", "stat", "done"} => rd.data = rd.at
      PROVE  Player'
  <2>1. /\ rd' \in Reads /\ rd'.pc = pc /\ rd'.span = rd.span
        /\ rd'.at = rd.at /\ rd'.data = rd.data
    BY <1>5, <1>7, <1>9 DEF Reads
  <2>2. QED
    BY <1>8, <1>9, <2>1
<1>10. ASSUME Broken PROVE Player'
  <2>1. PICK pc \in {"unavailable", "refresh"} : rd' = [rd EXCEPT !.pc = pc]
    BY <1>10 DEF Broken, GoRead
  <2>2. QED
    BY <1>9, <2>1 DEF ReadPlaces
<1>11. ASSUME GoRead("unavailable") PROVE Player'
  BY <1>9, <1>11 DEF GoRead, ReadPlaces
<1>12. Retained(rd.span) => NameOf(rd.span) \in Nat
  BY <1>6, RetainedEntry
<1>13. CASE LookUp
  <2>1. CASE Retained(rd.span)
    <3>1. rd' = [rd EXCEPT !.pc = "open", !.name = NameOf(rd.span)]
      BY <1>13, <2>1 DEF LookUp
    <3>2. /\ rd' \in Reads /\ rd'.pc = "open" /\ rd'.span = rd.span
          /\ rd'.at = rd.at
      BY <1>5, <1>12, <2>1, <3>1 DEF Reads, ReadPlaces
    <3>3. QED
      BY <1>8, <3>2
  <2>2. CASE ~Retained(rd.span)
    BY <1>11, <1>13, <2>2 DEF LookUp
  <2>3. QED
    BY <2>1, <2>2
<1>14. CASE OpenAndRead
  <2>1. CASE Named(rd.name) = rd.span.ino
    <3> DEFINE data == content[rd.span.ino].from + rd.span.off
                         + (rd.at - rd.span.start)
    <3>1. rd' = [rd EXCEPT !.pc = "retained", !.data = data]
      BY <1>14, <2>1 DEF OpenAndRead
    <3>2. content[rd.span.ino].from \in Int
      BY <1>4, <1>6 DEF StoreTypes
    <3>3. data \in Int
      BY <1>5, <3>2
    <3>4. content[rd.span.ino].from = rd.span.start - rd.span.off =>
             data = rd.at
      BY <1>5, <3>2
    <3> HIDE DEF data
    <3>5. /\ rd' \in Reads /\ rd'.pc = "retained" /\ rd'.span = rd.span
          /\ rd'.at = rd.at /\ rd'.data = data
      BY <1>5, <3>1, <3>3 DEF Reads, ReadPlaces
    <3>6. CASE conf.mode = "none"
      <4>1. data = rd.at
        BY <1>4, <3>4, <3>6 DEF Traced
      <4>2. QED
        BY <1>8, <3>5, <3>6, <4>1
    <3>7. CASE conf.mode # "none"
      <4>1. ASSUME NEW k \in 1..Count, Entry(k).ino = rd.span.ino,
                   Entry(k).start <= rd.span.start
            PROVE  data = rd.at
        <5>1. Entry(k).start = rd.span.start - rd.span.off
          BY <1>4, <3>7, <4>1 DEF Traced
        <5>2. ~(writer.pc = "drop" /\ k = 1)
          <6>1. writer.pc = "drop" /\ k = 1 =>
                  \A n \in Nat : Named(n) # Entry(1).ino
            BY DEF Catalog, Catalogued, Stands
          <6>2. QED
            BY <1>5, <2>1, <4>1, <6>1
        <5>3. content[Entry(k).ino].from = Entry(k).start
          BY <5>2 DEF Catalog, Contents
        <5>4. QED
          BY <3>4, <4>1, <5>1, <5>3
      <4>2. QED
        BY <1>8, <3>5, <3>7, <4>1
    <3>8. QED
      BY <3>6, <3>7
  <2>2. CASE Named(rd.name) # rd.span.ino
    BY <1>10, <1>14, <2>2 DEF OpenAndRead
  <2>3. QED
    BY <2>1, <2>2
<1>15. CASE CheckRetained
  <2>1. CASE Retained(rd.span)
    <3>1. rd' = [rd EXCEPT !.pc = "rotating", !.cur = NameOf(rd.span)]
      BY <1>15, <2>1 DEF CheckRetained
    <3>2. /\ rd' \in Reads /\ rd'.pc = "rotating" /\ rd'.span = rd.span
          /\ rd'.at = rd.at /\ rd'.data = rd.data
      BY <1>5, <1>12, <2>1, <3>1 DEF Reads, ReadPlaces
    <3>3. rd.data = rd.at
      <4>1. rd.pc = "retained"
        BY <1>15 DEF CheckRetained
      <4>2. \E k \in 1..Count : /\ Entry(k).ino = rd.span.ino
                                /\ Entry(k).start <= rd.span.start
        BY <1>6, <2>1, RetainedEntry
      <4>3. QED
        BY <4>1, <4>2 DEF Reading
    <3>4. QED
      BY <1>8, <3>2, <3>3
  <2>2. CASE ~Retained(rd.span)
    BY <1>10, <1>15, <2>2 DEF CheckRetained
  <2>3. QED
    BY <2>1, <2>2
<1>16. CASE CheckRotating
  <2>1. PICK cur : rd' = [rd EXCEPT !.pc = "stat", !.cur = cur]
                   /\ (cur = store.rotating.name \/ cur = rd.cur)
    BY <1>16 DEF CheckRotating
  <2>2. cur \in Nat
    BY <1>5, <1>6, <2>1 DEF StoreTypes, Stores, Rotations
  <2>3. rd.data = rd.at
    BY <1>16 DEF CheckRotating, Reading
  <2>4. /\ rd' \in Reads /\ rd'.pc = "stat" /\ rd'.span = rd.span
        /\ rd'.at = rd.at /\ rd'.data = rd.data
    BY <1>5, <2>1, <2>2 DEF Reads, ReadPlaces
  <2>5. QED
    BY <1>8, <2>3, <2>4
<1>17. CASE CheckName
  <2>1. rd.data = rd.at
    BY <1>17 DEF CheckName, Reading
  <2>2. CASE GoRead("done")
    BY <1>9, <2>1, <2>2 DEF GoRead, ReadPlaces
  <2>3. QED
    BY <1>10, <1>17, <2>2 DEF CheckName
<1>18. CASE Refresh
  <2>1. CASE Retained(rd.span)
    <3>1. rd' = [rd EXCEPT !.pc = "retry", !.cur = NameOf(rd.span)]
      BY <1>18, <2>1 DEF Refresh
    <3>2. /\ rd' \in Reads /\ rd'.pc = "retry" /\ rd'.span = rd.span
          /\ rd'.at = rd.at
      BY <1>5, <1>12, <2>1, <3>1 DEF Reads, ReadPlaces
    <3>3. QED
      BY <1>8, <3>2
  <2>2. CASE ~Retained(rd.span)
    BY <1>11, <1>18, <2>2 DEF Refresh
  <2>3. QED
    BY <2>1, <2>2
<1>19. CASE Retry
  <2>1. PICK name : /\ name = store.rotating.name \/ name = rd.cur
                    /\ \/ GoRead("unavailable")
                       \/ rd' = [rd EXCEPT !.pc = "open", !.name = name,
                                           !.again = TRUE]
    BY <1>19 DEF Retry
  <2>2. name \in Nat
    BY <1>5, <1>6, <2>1 DEF StoreTypes, Stores, Rotations
  <2>3. CASE rd' = [rd EXCEPT !.pc = "open", !.name = name, !.again = TRUE]
    <3>1. /\ rd' \in Reads /\ rd'.pc = "open" /\ rd'.span = rd.span
          /\ rd'.at = rd.at
      BY <1>5, <2>2, <2>3 DEF Reads, ReadPlaces
    <3>2. QED
      BY <1>8, <3>1
  <2>4. QED
    BY <1>11, <2>1, <2>3
<1>20. CASE ReadOld
  <2>1. rd.data = rd.at /\ GoRead("done")
    BY <1>20 DEF ReadOld, Reading
  <2>2. QED
    BY <1>9, <2>1 DEF GoRead, ReadPlaces
<1>21. QED
  BY <1>13, <1>14, <1>15, <1>16, <1>17, <1>18, <1>19, <1>20 DEF Read

\* A query whose replay is over.
LEMMA OverKeepsPlayer ==
  ASSUME Player, Still, UNCHANGED rd, rd.pc = "idle", query' \in Queries,
         live' \in Lives, client' \in Clients, Len(query'.files) = 0,
         Len(query'.spans) = 0, ~query'.filed,
         query'.pc \in {"ended", "live", "asked"},
         query'.pc \in {"live", "asked"} =>
            conf.mode # "unset" /\ OutBefore(live.from)',
         WrittenIsTheLog'
  PROVE  Player'
<1>1. QueryTypes'
  BY DEF QueryTypes, Player
<1>2. query'.files = <<>> /\ query'.spans = <<>>
  BY EmptySeq, LenProperties DEF Queries
<1>3. Captures' /\ PiecesInOrder'
  BY <1>2 DEF Captures, PiecesInOrder, Ordered, Still
<1>4. Reading' /\ Written'
  BY DEF Reading, Written
<1>5. QED
  BY <1>1, <1>3, <1>4 DEF Player

LEMMA AtIsTyped ==
  ASSUME QueryTypes, NEW pc \in {"live", "asked", "ended"}
  PROVE  /\ At(pc) \in Queries /\ At(pc).pc = pc /\ ~At(pc).filed
         /\ Len(At(pc).files) = 0 /\ Len(At(pc).spans) = 0
<1>1. query.follow \in BOOLEAN /\ query.endpoint \in Nat
  BY DEF QueryTypes, Queries
<1>2. PICK q : q = NoQuery
  OBVIOUS
<1>3. /\ q \in Queries /\ ~q.filed
      /\ Len(q.files) = 0 /\ Len(q.spans) = 0
  BY <1>2, NoQueryIsTyped DEF NoQuery
<1> DEFINE r == [q EXCEPT !.pc = pc, !.follow = query.follow,
                          !.endpoint = query.endpoint]
<1>4. At(pc) = r
  BY <1>2 DEF At
<1>5. /\ r \in Queries /\ r.pc = pc /\ r.filed = q.filed
      /\ r.files = q.files /\ r.spans = q.spans
  BY <1>1, <1>3 DEF Queries
<1> HIDE DEF r
<1>6. QED
  BY <1>3, <1>4, <1>5

\* A client that failed, or whose query is over.
LEMMA FailKeepsPlayer ==
  ASSUME Player, Still, UNCHANGED rd, rd.pc = "idle",
         client' = FailedClient, live' \in Lives,
         query' = [NoQuery EXCEPT !.pc = "ended"] \/ query' = At("ended")
  PROVE  Player'
<1>1. /\ query' \in Queries /\ query'.pc = "ended" /\ ~query'.filed
      /\ Len(query'.files) = 0 /\ Len(query'.spans) = 0
  <2>1. CASE query' = [NoQuery EXCEPT !.pc = "ended"]
    <3>1. \A q \in Queries : LET r == [q EXCEPT !.pc = "ended"]
                             IN /\ r \in Queries /\ r.pc = "ended"
                                /\ r.filed = q.filed /\ r.files = q.files
                                /\ r.spans = q.spans
      BY DEF Queries
    <3>2. NoQuery \in Queries /\ ~NoQuery.filed
      BY NoQueryIsTyped DEF NoQuery
    <3>3. QED
      BY <2>1, <3>1, <3>2, NoQueryIsTyped
  <2>2. CASE query' = At("ended")
    <3>1. \A pc \in {"live", "asked", "ended"} :
             /\ At(pc) \in Queries /\ At(pc).pc = pc /\ ~At(pc).filed
             /\ Len(At(pc).files) = 0 /\ Len(At(pc).spans) = 0
      BY AtIsTyped DEF Player
    <3>2. QED
      BY <2>2, <3>1
  <2>3. QED
    BY <2>1, <2>2
<1>2. client' \in Clients /\ WrittenIsTheLog'
  BY NoQueryIsTyped DEF WrittenIsTheLog
<1>3. QED
  BY <1>1, <1>2, OverKeepsPlayer

LEMMA EndReplayKeepsPlayer ==
  ASSUME Player, EndReplay
  PROVE  Player'
<1>1. /\ query.pc = "replay" /\ query.spans = <<>>
      /\ UNCHANGED <<names, content, store, writer, rd, conf>>
  BY DEF EndReplay, storageVars
<1>2. rd.pc = "idle" /\ Still /\ conf.mode # "unset"
  BY <1>1 DEF Player, Reading, Still, PiecesInOrder
<1>3. CASE query.complete
  <2>1. /\ query' = At(IF query.follow THEN "live" ELSE "ended")
        /\ client'.out = client.out /\ client' \in Clients
        /\ UNCHANGED live
    <3>1. \A c \in Clients, r \in {"none", "ok"} :
             LET d == [c EXCEPT !.result = r]
             IN d \in Clients /\ d.out = c.out
      BY DEF Clients
    <3>2. client \in Clients
      BY DEF Player, QueryTypes
    <3>3. QED
      BY <1>3, <3>1, <3>2 DEF EndReplay
  <2>2. WrittenIsTheLog' /\ OutBefore(query.endpoint)
    BY <1>1, <2>1 DEF Player, Written, WrittenIsTheLog
  <2>3. CASE query.follow
    <3>1. /\ query' \in Queries /\ query'.pc = "live" /\ ~query'.filed
          /\ Len(query'.files) = 0 /\ Len(query'.spans) = 0
      BY <2>1, <2>3, AtIsTyped DEF Player
    <3>2. OutBefore(live.from)'
      BY <1>1, <2>1, <2>2, <2>3 DEF Player, Written, OutBefore
    <3>3. live' \in Lives
      BY <2>1 DEF Player, QueryTypes
    <3>4. QED
      BY <1>1, <1>2, <2>1, <2>2, <3>1, <3>2, <3>3, OverKeepsPlayer
  <2>4. CASE ~query.follow
    <3>1. /\ query' \in Queries /\ query'.pc = "ended" /\ ~query'.filed
          /\ Len(query'.files) = 0 /\ Len(query'.spans) = 0
      BY <2>1, <2>4, AtIsTyped DEF Player
    <3>2. live' \in Lives
      BY <2>1 DEF Player, QueryTypes
    <3>3. QED
      BY <1>1, <1>2, <2>1, <2>2, <3>1, <3>2, OverKeepsPlayer
  <2>5. QED
    BY <2>3, <2>4
<1>4. CASE ~query.complete
  <2>1. /\ query' = [NoQuery EXCEPT !.pc = "ended"]
        /\ client' = FailedClient
        /\ live' = IF live.on THEN [NoLive EXCEPT !.reason = "client_closed"]
                   ELSE live
    BY <1>4 DEF EndReplay
  <2>2. live' \in Lives
    BY <2>1 DEF NoLive, Lives, Player, QueryTypes
  <2>3. QED
    BY <1>1, <1>2, <2>1, <2>2, FailKeepsPlayer
<1>5. QED
  BY <1>3, <1>4

LEMMA ReceiveKeepsPlayer ==
  ASSUME Player, BrokerTypes, ReceiveLive
  PROVE  Player'
<1>1. /\ query.pc = "live"
      /\ UNCHANGED <<names, content, store, writer, rd, conf>>
  BY DEF ReceiveLive, storageVars
<1>2. /\ rd.pc = "idle" /\ Still /\ query.spans = <<>>
      /\ conf.mode # "unset" /\ OutBefore(live.from) /\ live \in Lives
      /\ live.from \in Nat /\ client \in Clients /\ WrittenIsTheLog
  BY <1>1 DEF Player, Reading, Still, PiecesInOrder, Written, QueryTypes,
              Lives
<1>3. CASE live.from < live.to
  <2>1. /\ client' = [client EXCEPT !.out = Append(@, live.from)]
        /\ live' = [live EXCEPT !.from = @ + 1]
        /\ UNCHANGED query
    BY <1>3 DEF ReceiveLive
  <2>2. /\ client' \in Clients /\ WrittenIsTheLog'
        /\ \A k \in 1..Len(client'.out) : client'.out[k] <= live.from
    <3>1. \A n \in Int :
             OutBefore(n) /\ client' = [client EXCEPT !.out = Append(@, n)] =>
               /\ client' \in Clients
               /\ WrittenIsTheLog'
               /\ \A k \in 1..Len(client'.out) : client'.out[k] <= n
      BY <1>2, WriteOne DEF Player
    <3>2. /\ live.from \in Int /\ OutBefore(live.from)
          /\ client' = [client EXCEPT !.out = Append(@, live.from)]
      BY <1>2, <2>1
    <3>3. QED
      BY <3>1, <3>2
  <2>3. live' \in Lives /\ live'.from = live.from + 1
    BY <1>2, <2>1 DEF Lives
  <2>4. OutBefore(live.from)'
    <3>1. \A k \in 1..Len(client'.out) : client'.out[k] \in Int
      BY <2>2, ElementOfSeq DEF Clients
    <3>2. QED
      BY <1>2, <2>2, <2>3, <3>1 DEF OutBefore
  <2>5. QueryTypes'
    BY <1>1, <2>1, <2>2, <2>3 DEF Player, QueryTypes
  <2>6. Captures' /\ PiecesInOrder' /\ Reading'
    <3>1. Captures'
      BY <1>2, <2>1, CapturesStill DEF Player
    <3>2. PiecesInOrder'
      BY <1>2, <2>1 DEF Player, PiecesInOrder, Ordered, Still
    <3>3. Reading'
      BY <1>1, <1>2 DEF Reading
    <3>4. QED
      BY <3>1, <3>2, <3>3
  <2>7. Written'
    BY <1>1, <2>1, <2>2, <2>4 DEF Written
  <2>8. QED
    BY <2>5, <2>6, <2>7 DEF Player
<1>4. CASE ~(live.from < live.to)
  <2>1. /\ query' = [At("asked") EXCEPT !.at = position]
        /\ UNCHANGED <<client, live>>
    BY <1>4 DEF ReceiveLive
  <2>2. /\ query' \in Queries /\ query'.pc = "asked" /\ ~query'.filed
        /\ Len(query'.files) = 0 /\ Len(query'.spans) = 0
    <3>1. PICK q : q = At("asked")
      OBVIOUS
    <3>2. /\ q \in Queries /\ q.pc = "asked" /\ ~q.filed
          /\ Len(q.files) = 0 /\ Len(q.spans) = 0
      BY <3>1, AtIsTyped DEF Player
    <3>3. query' = [q EXCEPT !.at = position] /\ position \in Int
      BY <2>1, <3>1 DEF BrokerTypes
    <3>4. QED
      BY <3>2, <3>3 DEF Queries
  <2>3. WrittenIsTheLog' /\ OutBefore(live.from)'
    BY <1>2, <2>1 DEF WrittenIsTheLog, OutBefore
  <2>4. QED
    BY <1>1, <1>2, <2>1, <2>2, <2>3, OverKeepsPlayer
<1>5. QED
  BY <1>3, <1>4

LEMMA LookKeepsPlayer ==
  ASSUME Player, LookReason
  PROVE  Player'
<1>1. /\ query.pc = "asked" /\ UNCHANGED live
      /\ UNCHANGED <<names, content, store, writer, rd, conf>>
  BY DEF LookReason, storageVars
<1>2. /\ rd.pc = "idle" /\ Still /\ query.spans = <<>>
      /\ conf.mode # "unset" /\ OutBefore(live.from) /\ live \in Lives
      /\ client \in Clients /\ WrittenIsTheLog /\ query \in Queries
  BY <1>1 DEF Player, Reading, Still, PiecesInOrder, Written, QueryTypes
<1>3. CASE live.reason = "none"
  <2>1. query' = At("live") /\ UNCHANGED client
    BY <1>3 DEF LookReason
  <2>2. /\ query' \in Queries /\ query'.pc = "live" /\ ~query'.filed
        /\ Len(query'.files) = 0 /\ Len(query'.spans) = 0
    BY <2>1, AtIsTyped DEF Player
  <2>3. WrittenIsTheLog' /\ OutBefore(live.from)'
    BY <1>1, <1>2, <2>1 DEF WrittenIsTheLog, OutBefore
  <2>4. QED
    BY <1>1, <1>2, <2>1, <2>2, <2>3, OverKeepsPlayer
<1>4. CASE live.reason = "broker_closed"
  <2>1. /\ query' = [query EXCEPT !.pc = "ended"]
        /\ client' = [client EXCEPT !.result = "ok"]
    BY <1>4 DEF LookReason
  <2>2. client' \in Clients /\ client'.out = client.out
    BY <1>2, <2>1 DEF Clients
  <2>3. WrittenIsTheLog'
    BY <1>2, <2>2 DEF WrittenIsTheLog
  <2>4. /\ query' \in Queries /\ query'.pc = "ended"
        /\ query'.files = query.files /\ query'.spans = query.spans
        /\ query'.filed = query.filed
    BY <1>2, <2>1 DEF Queries
  <2>5. QueryTypes'
    BY <1>1, <1>2, <2>2, <2>4 DEF QueryTypes, Player
  <2>6. Captures'
    BY <1>2, <2>4, CapturesStill DEF Player
  <2>7. PiecesInOrder' /\ Reading'
    <3>1. PiecesInOrder'
      BY <1>2, <2>4 DEF Player, PiecesInOrder, Ordered, Still
    <3>2. Reading'
      BY <1>1, <1>2 DEF Reading
    <3>3. QED
      BY <3>1, <3>2
  <2>8. Written'
    BY <2>3, <2>4 DEF Written
  <2>9. QED
    BY <2>5, <2>6, <2>7, <2>8 DEF Player
<1>5. CASE live.reason \notin {"none", "broker_closed"}
  <2>1. query' = At("ended") /\ client' = FailedClient
    BY <1>5 DEF LookReason
  <2>2. QED
    BY <1>1, <1>2, <2>1, FailKeepsPlayer
<1>6. QED
  BY <1>3, <1>4, <1>5

LEMMA BreakKeepsPlayer ==
  ASSUME Player, PeerBreaks
  PROVE  Player'
<1>1. /\ rd.pc = "idle" /\ UNCHANGED rd /\ Still
      /\ client' = FailedClient
      /\ query' = [NoQuery EXCEPT !.pc = "ended"]
      /\ live' = IF live.on THEN [NoLive EXCEPT !.reason = "client_closed"]
                 ELSE live
  BY DEF PeerBreaks, storageVars, Still
<1>2. live' \in Lives
  BY <1>1 DEF NoLive, Lives, Player, QueryTypes
<1>3. QED
  BY <1>1, <1>2, FailKeepsPlayer

-----------------------------------------------------------------------------
(* 7. What a client writes.                                                *)

LogInv == Recorder /\ Catalog /\ Player

LEMMA InitPlayer == Init => Player
<1> SUFFICES ASSUME Init PROVE Player
  OBVIOUS
<1>1. /\ rd = NoRead /\ live = NoLive /\ query = NoQuery
      /\ client = [out |-> <<>>, result |-> "none", first |-> 0]
  BY DEF Init, StorageInit
<1>2. client \in Clients /\ client.out = <<>> /\ Len(client.out) = 0
  <2>1. <<>> \in Seq(Int) /\ Len(<<>>) = 0
    BY EmptySeq
  <2>2. QED
    BY <1>1, <2>1 DEF Clients
<1>3. QueryTypes
  BY <1>1, <1>2, NoReadIsTyped, NoQueryIsTyped DEF QueryTypes
<1>4. /\ query.pc = "none" /\ query.files = <<>> /\ ~query.filed
      /\ query.spans = <<>> /\ ~query.follow /\ rd.pc = "idle"
      /\ Len(query.files) = 0 /\ Len(query.spans) = 0
  BY <1>1, NoQueryIsTyped DEF NoQuery, NoRead
<1>5. Captures /\ PiecesInOrder /\ Reading
  BY <1>4 DEF Captures, PiecesInOrder, Ordered, Reading
<1>6. Written
  BY <1>2, <1>4 DEF Written, WrittenIsTheLog
<1>7. QED
  BY <1>3, <1>5, <1>6 DEF Player

\* The steps of the broker that leave the files as they are.
LEMMA BrokerKeepsPlayer ==
  ASSUME Player, Catalog, Admitted,
         UNCHANGED <<names, content, store, rd, query, client>>,
         writer'.pc = writer.pc, live' \in Lives, live'.from = live.from,
         conf'.mode = conf.mode \/ conf.mode = "unset",
         conf'.pc = "attach" <=> conf.pc = "attach"
  PROVE  Player' /\ Catalog'
<1>1. Catalog'
  BY CatalogFrame
<1>2. writer.pc # "none" =>
         writer'.pc # "none" /\ Adds /\ conf'.mode = conf.mode
  <2>1. store.acked \in Nat
    BY DEF Catalog, StoreTypes, Stores
  <2>2. Adds
    BY <2>1 DEF Adds, Count, Entry
  <2>3. QED
    BY <2>2 DEF Admitted
<1>3. Captures' /\ PiecesInOrder' /\ Reading' /\ Written'
  BY <1>1, <1>2, QueryStays
<1>4. QueryTypes'
  BY DEF QueryTypes, Player
<1>5. QED
  BY <1>1, <1>3, <1>4 DEF Player

LEMMA PublishKeepsPlayer ==
  ASSUME Player, Catalog, BrokerTypes, Admitted, Publish
  PROVE  Player' /\ Catalog'
<1>1. /\ UNCHANGED <<names, content, store, rd, conf, query, client>>
  BY DEF Publish
<1>2. writer'.pc = writer.pc
  BY DEF Publish, Enqueued, BrokerTypes
<1>3. live' \in Lives /\ live'.from = live.from
  <2>1. live \in Lives /\ live.from \in Nat /\ position + 1 \in Nat
    BY DEF Player, QueryTypes, Lives, BrokerTypes
  <2>2. \/ live' = live
        \/ live' = [live EXCEPT !.on = FALSE, !.reason = "overflow",
                                !.from = live.from, !.to = live.from]
        \/ live' = [live EXCEPT !.to = position + 1]
    BY DEF Publish, OfferLive
  <2>3. QED
    BY <2>1, <2>2 DEF Lives
<1>4. QED
  BY <1>1, <1>2, <1>3, BrokerKeepsPlayer

LEMMA CloseKeepsPlayer ==
  ASSUME Player, Catalog, BrokerTypes, Admitted,
         DrainFails \/ BeginClose \/ CloseWriter \/ CloseFollowers
  PROVE  Player' /\ Catalog'
<1>1. UNCHANGED <<names, content, store, rd, conf, query, client>>
  BY DEF DrainFails, BeginClose, CloseWriter, CloseFollowers, storageVars
<1>2. writer'.pc = writer.pc
  BY DEF DrainFails, BeginClose, CloseWriter, CloseFollowers, storageVars,
         BrokerTypes
<1>3. live' \in Lives /\ live'.from = live.from
  <2>1. live \in Lives /\ live.from \in Nat
    BY DEF Player, QueryTypes, Lives
  <2>2. \/ live' = live
        \/ live' = [live EXCEPT !.on = FALSE, !.reason = "broker_closed"]
        \/ live' = [live EXCEPT !.on = FALSE, !.reason = "broker_failed",
                                !.to = live.from]
    BY DEF DrainFails, BeginClose, CloseWriter, CloseFollowers
  <2>3. QED
    BY <2>1, <2>2 DEF Lives
<1>4. QED
  BY <1>1, <1>2, <1>3, BrokerKeepsPlayer

LEMMA ConfigureKeepsPlayer ==
  ASSUME Player, Catalog, BrokerTypes, Admitted, Configure
  PROVE  Player' /\ Catalog'
<1>1. /\ UNCHANGED <<names, content, store, writer, rd, live, query, client>>
      /\ conf.mode = "unset"
  BY DEF Configure, storageVars
<1>2. conf.pc = "idle"
  BY <1>1 DEF Admitted
<1>3. PICK mode \in Modes :
         conf' = [mode |-> mode,
                  start |-> Most(hist.start, hist.end - FileSize),
                  pc |-> IF mode = "file" THEN "open" ELSE "done"]
  BY DEF Configure
<1>4. conf'.pc # "attach"
  BY <1>3
<1>5. live' \in Lives
  BY <1>1 DEF Player, QueryTypes
<1>6. QED
  BY <1>1, <1>2, <1>4, <1>5, BrokerKeepsPlayer

\* The store is opened, and its writer begins, before anything of it is read.
LEMMA AdmitKeepsPlayer ==
  ASSUME Player, Catalog, BrokerTypes, Admitted, OpenStore \/ Attach
  PROVE  Player' /\ Catalog'
<1>1. /\ UNCHANGED <<rd, live, query, client>>
      /\ conf.pc \in {"open", "attach"}
  BY DEF OpenStore, Attach
<1>2. writer.pc = "none" /\ conf.mode = "file"
  BY <1>1 DEF Admitted
<1>3. rd.pc = "idle"
  BY <1>2, ReadingNeedsFiles DEF Player
<1>4. Catalog'
  BY <1>3, OpenKeepsCatalog, AttachKeepsCatalog
<1>5. conf'.mode = conf.mode
  BY DEF OpenStore, Attach, BrokerTypes
<1>6. Captures' /\ PiecesInOrder' /\ Reading' /\ Written'
  BY <1>1, <1>2, <1>5, QueryStays
<1>7. QueryTypes'
  BY <1>1 DEF QueryTypes, Player
<1>8. QED
  BY <1>4, <1>6, <1>7 DEF Player

LEMMA WriterKeepsPlayer ==
  ASSUME Player, Catalog, BrokerTypes, Admitted, Write, UNCHANGED brokerVars
  PROVE  Player' /\ Catalog'
<1>1. UNCHANGED <<conf, live, query, client>>
  BY DEF brokerVars
<1>2. UNCHANGED rd
  BY DEF Write, EndWriter, AppendByte, RenameActive, UpdateCatalog, Evict,
         DropSpan, CreateActive
<1>3. Catalog' /\ Adds /\ writer.pc # "none" /\ writer'.pc # "none"
  BY <1>1, WriterAdds
<1>4. conf.mode # "none"
  BY <1>3 DEF Admitted
<1>5. Captures' /\ PiecesInOrder' /\ Reading' /\ Written'
  BY <1>1, <1>2, <1>3, <1>4, QueryStays
<1>6. QueryTypes'
  BY <1>1, <1>2 DEF QueryTypes, Player
<1>7. QED
  BY <1>3, <1>5, <1>6 DEF Player

LEMMA StepPlayer == LogInv /\ [Next]_vars => Player' /\ Catalog'
<1> SUFFICES ASSUME LogInv, [Next]_vars PROVE Player' /\ Catalog'
  OBVIOUS
<1>0. Player /\ Catalog /\ BrokerTypes /\ Admitted
  BY DEF LogInv, Recorder
<1>1. ASSUME Still, Player' PROVE Player' /\ Catalog'
  BY <1>0, <1>1, CatalogFrame DEF Still
<1>2. CASE Publish
  BY <1>0, <1>2, PublishKeepsPlayer
<1>3. CASE DrainFails \/ BeginClose \/ CloseWriter \/ CloseFollowers
  BY <1>0, <1>3, CloseKeepsPlayer
<1>4. CASE Configure
  BY <1>0, <1>4, ConfigureKeepsPlayer
<1>5. CASE OpenStore \/ Attach
  BY <1>0, <1>5, AdmitKeepsPlayer
<1>6. CASE Subscribe
  BY <1>0, <1>1, <1>6, SubscribeKeepsPlayer DEF Subscribe, storageVars, Still
<1>7. CASE PlanReplay
  BY <1>0, <1>1, <1>7, PlanKeepsPlayer DEF PlanReplay, storageVars, Still
<1>8. CASE ReplayMemory
  BY <1>0, <1>1, <1>8, MemoryKeepsPlayer
     DEF ReplayMemory, storageVars, Still
<1>9. CASE StartRead
  BY <1>0, <1>1, <1>9, StartKeepsPlayer DEF StartRead, brokerVars, Still
<1>10. CASE ReadOld
  <2>1. UNCHANGED brokerVars /\ Still
    BY <1>10 DEF ReadOld, brokerVars, Still
  <2>2. QED
    BY <1>0, <1>1, <1>10, <2>1, ReadKeepsPlayer
<1>11. CASE EndRead
  BY <1>0, <1>1, <1>11, EndReadKeepsPlayer DEF EndRead, Still
<1>12. CASE EndReplay
  BY <1>0, <1>1, <1>12, EndReplayKeepsPlayer
     DEF EndReplay, storageVars, Still
<1>13. CASE ReceiveLive \/ LookReason
  <2>1. Still
    BY <1>13 DEF ReceiveLive, LookReason, storageVars, Still
  <2>2. Player'
    BY <1>0, <1>13, ReceiveKeepsPlayer, LookKeepsPlayer DEF Recorder
  <2>3. QED
    BY <1>0, <1>1, <2>1, <2>2
<1>14. CASE PeerBreaks
  BY <1>0, <1>1, <1>14, BreakKeepsPlayer DEF PeerBreaks, storageVars, Still
<1>15. CASE Write /\ UNCHANGED brokerVars
  BY <1>0, <1>15, WriterKeepsPlayer
<1>16. CASE Read /\ UNCHANGED brokerVars
  <2>1. Still
    BY <1>16 DEF Read, brokerVars, Still
  <2>2. QED
    BY <1>0, <1>1, <1>16, <2>1, ReadKeepsPlayer
<1>17. CASE UNCHANGED vars
  <2>1. /\ UNCHANGED <<names, content, store, rd, query, client>>
        /\ UNCHANGED <<writer, conf, live>>
    BY <1>17 DEF vars, storageVars, brokerVars
  <2>2. live' \in Lives
    BY <1>0, <2>1 DEF Player, QueryTypes
  <2>3. QED
    BY <1>0, <2>1, <2>2, BrokerKeepsPlayer
<1>18. QED
  BY <1>2, <1>3, <1>4, <1>5, <1>6, <1>7, <1>8, <1>9, <1>10, <1>11, <1>12,
     <1>13, <1>14, <1>15, <1>16, <1>17 DEF Next

THEOREM LogInvariant == Spec => []LogInv
<1>1. Init => LogInv
  BY InitRecorder, InitCatalog, InitPlayer DEF LogInv
<1>2. LogInv /\ [Next]_vars => LogInv'
  BY StepRecorder, StepPlayer DEF LogInv
<1>3. QED
  BY <1>1, <1>2, PTL DEF Spec

\* For any sizes: as long as file recording goes on, the files and the queue
\* hold all that was published since the first byte they were handed, also
\* across the admission of the settings (logging.py:452).
THEOREM RecordingIsWhole == Spec => []RecordingHasNoHole
<1>1. LogInv => RecordingHasNoHole
  BY DEF LogInv, Recorder
<1>2. QED
  BY <1>1, LogInvariant, PTL

\* For any sizes: what a client writes is the log in its order, and no byte of
\* it twice, whatever is rotated, evicted or written again in a reused inode
\* while it is read (log_query.py:94, log_storage.py:454).
THEOREM ClientWritesTheLog == Spec => []WrittenIsTheLog
<1>1. LogInv => WrittenIsTheLog
  BY DEF LogInv, Player, Written
<1>2. QED
  BY <1>1, LogInvariant, PTL

-----------------------------------------------------------------------------
(* 8. What there is to read.                                               *)

\* The writer keeps up with the publication, and memory holds the last bytes.
Counts ==
    /\ hist.start <= hist.end /\ hist.end <= position
    /\ conf.mode \in {"memory", "file"} =>
          position - FileSize <= hist.start /\ conf.start <= hist.start
    /\ conf.mode # "none" /\ position > 0 => hist.start < position
    /\ conf.pc = "attach" => store.acked = conf.start
    /\ writer.pc # "none" =>
          store.acked <= writer.next /\ writer.next <= position
    /\ writer.pc \in {"append", "rename", "catalog", "evict", "drop"} =>
          store.acked < writer.next

\* A file is full before the next one begins, and the oldest file is older
\* than what memory has lost.
Retention ==
    /\ writer.pc \notin {"none", "ended"} \/ conf.pc = "attach" =>
          Count > 0 /\ Active.end = store.acked
    /\ writer.pc \in {"rename", "catalog", "evict", "drop"} =>
          Active.end - Active.start = FileSize
    /\ writer.pc = "drop" => Count >= MaxFiles
    /\ Count > 0 => \/ Entry(1).start <= conf.start
                    \/ Entry(1).start + FileSize <= store.acked

LEMMA InitCounts == Init => Counts /\ Retention
<1> SUFFICES ASSUME Init PROVE Counts /\ Retention
  OBVIOUS
<1>1. /\ position = 0 /\ hist.start = 0 /\ hist.end = 0
      /\ conf.mode = "unset" /\ conf.pc = "idle"
      /\ writer.pc = "none" /\ store.spans = <<>>
  BY DEF Init, StorageInit, NoWriter
<1>2. Count = 0
  BY <1>1, EmptySeq DEF Count
<1>3. QED
  BY <1>1, <1>2 DEF Counts, Retention

\* What the writer writes was handed to it.
LEMMA WriteCounts ==
  ASSUME Catalog, BrokerTypes, Write,
         store.acked <= writer.next,
         writer.pc \in {"append", "rename", "catalog", "evict", "drop"} =>
            store.acked < writer.next
  PROVE  /\ store.acked <= store'.acked /\ store'.acked <= writer.next
         /\ writer'.next = writer.next
         /\ writer'.pc \in {"append", "rename", "catalog", "evict", "drop"} =>
               store'.acked < writer.next
<1>1. /\ store \in Stores /\ store.acked \in Nat /\ writer.next \in Nat
  BY DEF Catalog, StoreTypes, Stores, BrokerTypes
<1>2. \E pc \in Places \ {"none"}, failed \in BOOLEAN :
         writer' = [writer EXCEPT !.pc = pc, !.failed = failed]
  BY WriteEffect
<1>3. writer'.next = writer.next
  BY <1>2 DEF BrokerTypes
<1>4. CASE AppendByte
  <2>1. /\ store.acked < writer.next
        /\ \/ store'.acked = store.acked + 1 /\ GoWriter("idle")
           \/ store'.acked = store.acked
    BY <1>1, <1>4 DEF AppendByte, Stores
  <2>2. CASE store'.acked = store.acked
    BY <1>1, <1>3, <2>1, <2>2
  <2>3. CASE store'.acked = store.acked + 1 /\ GoWriter("idle")
    <3>1. writer'.pc = "idle"
      BY <2>3 DEF GoWriter, BrokerTypes
    <3>2. QED
      BY <1>1, <1>3, <2>1, <2>3, <3>1
  <2>4. QED
    BY <2>1, <2>2, <2>3
<1>5. CASE EndWriter
  <2>1. UNCHANGED store /\ writer'.pc = "ended"
    BY <1>5 DEF EndWriter, GoWriter, Failing, BrokerTypes
  <2>2. QED
    BY <1>1, <1>3, <2>1
<1>6. CASE RenameActive \/ UpdateCatalog \/ Evict \/ DropSpan \/ CreateActive
  <2>1. store'.acked = store.acked
    BY <1>1, <1>6
       DEF RenameActive, UpdateCatalog, Evict, DropSpan, CreateActive, Stores
  <2>2. writer.pc \in {"rename", "catalog", "evict", "drop"}
    BY <1>6 DEF RenameActive, UpdateCatalog, Evict, DropSpan, CreateActive
  <2>3. QED
    BY <1>1, <1>3, <2>1, <2>2
<1>7. QED
  BY <1>4, <1>5, <1>6 DEF Write

LEMMA StepCounts == LogInv /\ Counts /\ [Next]_vars => Counts'
<1> SUFFICES ASSUME LogInv, Counts, [Next]_vars PROVE Counts'
  OBVIOUS
<1>0. /\ Catalog /\ BrokerTypes /\ Admitted
      /\ store \in Stores /\ store.acked \in Nat
      /\ FileSize \in Nat /\ FileSize > 0
  BY StorageBounds
     DEF LogInv, Recorder, Catalog, StoreTypes, Stores
<1>1. CASE UNCHANGED <<position, hist, conf, store, writer>>
  BY <1>1 DEF Counts
<1>2. CASE Publish
  <2> USE <1>2
  <2>1. /\ position' = position + 1 /\ UNCHANGED <<store, conf>>
    BY DEF Publish
  <2>2. Capacity \in Nat /\ Capacity > 0
        /\ (conf.mode # "unset" => Capacity = FileSize)
    BY <1>0, LogBounds DEF Capacity
  <2>3. ASSUME Recording
        PROVE  /\ hist'.start <= hist'.end /\ hist'.end <= position'
               /\ conf'.mode \in {"memory", "file"} =>
                     /\ position' - FileSize <= hist'.start
                     /\ conf'.start <= hist'.start
               /\ conf'.mode # "none" /\ position' > 0 =>
                     hist'.start < position'
    <3> DEFINE start == Most(hist.start, position + 1 - Capacity)
    <3>1. /\ start \in Int /\ hist.start <= start
          /\ position + 1 - Capacity <= start
          /\ hist.start <= position => start < position + 1
      BY <1>0, <2>2 DEF Most, BrokerTypes
    <3>2. hist' = [start |-> start, end |-> position + 1]
      BY <1>2, <2>3 DEF Publish
    <3> HIDE DEF start
    <3>3. hist'.start = start /\ hist'.end = position + 1
      BY <3>2
    <3>4. position \in Nat /\ hist.start \in Nat /\ conf.start \in Nat
          /\ hist.end \in Nat
      BY <1>0 DEF BrokerTypes
    <3>5. hist.start <= hist.end /\ hist.end <= position
      BY DEF Counts
    <3>6. /\ hist'.start <= hist'.end /\ hist'.end <= position'
          /\ conf'.mode \in {"memory", "file"} =>
                /\ position' - FileSize <= hist'.start
                /\ conf'.start <= hist'.start
          /\ conf'.mode # "none" /\ position' > 0 => hist'.start < position'
      <4>1. conf.mode \in {"memory", "file"} => conf.start <= hist.start
        BY DEF Counts
      <4>2. QED
        BY <1>0, <2>1, <2>2, <3>1, <3>3, <3>4, <3>5, <4>1
    <3>7. QED
      BY <3>6
  <2>4. ASSUME ~Recording
        PROVE  /\ hist'.start <= hist'.end /\ hist'.end <= position'
               /\ conf'.mode \in {"memory", "file"} =>
                     /\ position' - FileSize <= hist'.start
                     /\ conf'.start <= hist'.start
               /\ conf'.mode # "none" /\ position' > 0 =>
                     hist'.start < position'
    <3>1. hist' = hist /\ position \in Nat /\ hist.end \in Nat
          /\ conf'.mode = "none"
      BY <1>0, <2>1, <2>4 DEF Publish, BrokerTypes, Recording
    <3>2. QED
      BY <2>1, <3>1 DEF Counts
  <2>5. /\ hist'.start <= hist'.end /\ hist'.end <= position'
        /\ conf'.mode \in {"memory", "file"} =>
              /\ position' - FileSize <= hist'.start
              /\ conf'.start <= hist'.start
        /\ conf'.mode # "none" /\ position' > 0 => hist'.start < position'
    BY <2>3, <2>4
  <2>6. /\ writer'.pc = writer.pc
        /\ writer'.next = writer.next \/ writer'.next = position + 1
    BY DEF Publish, Enqueued, BrokerTypes
  <2>7. /\ position \in Nat /\ writer.next \in Nat
        /\ store'.acked = store.acked
    BY <1>0, <2>1 DEF BrokerTypes
  <2>8. writer.pc # "none" =>
           store.acked <= writer.next /\ writer.next <= position
    BY DEF Counts
  <2>9. writer'.pc # "none" =>
           store'.acked <= writer'.next /\ writer'.next <= position'
    BY <1>0, <2>1, <2>6, <2>7, <2>8
  <2>10. writer'.pc \in {"append", "rename", "catalog", "evict", "drop"} =>
            store'.acked < writer'.next
    BY <1>0, <2>1, <2>6, <2>7, <2>8 DEF Counts
  <2>11. QED
    BY <2>1, <2>5, <2>9, <2>10 DEF Counts
<1>3. CASE Configure
  <2> DEFINE start == Most(hist.start, hist.end - FileSize)
  <2>1. PICK mode \in Modes :
           /\ conf' = [mode |-> mode, start |-> start,
                       pc |-> IF mode = "file" THEN "open" ELSE "done"]
           /\ hist' = [hist EXCEPT !.start = IF mode = "none" THEN hist.end
                                             ELSE start]
    BY <1>3 DEF Configure
  <2>2. /\ hist.start \in Nat /\ hist.end \in Nat /\ position \in Nat
        /\ hist.start <= hist.end /\ hist.end = position
        /\ position > 0 => hist.start < position
    BY <1>3 DEF Counts, Configure, Admitted, BrokerTypes, LogInv, Recorder
  <2>3. /\ start \in Nat /\ start <= hist.end
        /\ position - FileSize <= start
        /\ position > 0 => start < position
    <3>1. FileSize \in Nat /\ FileSize > 0
      BY <1>0
    <3>2. QED
      BY <2>2, <3>1 DEF Most
  <2> HIDE DEF start
  <2>4. UNCHANGED <<position, store, writer>>
    BY <1>3 DEF Configure, storageVars
  <2>5. /\ hist'.end = hist.end
        /\ hist'.start = IF mode = "none" THEN hist.end ELSE start
        /\ conf'.mode = mode /\ conf'.start = start /\ conf'.pc # "attach"
    BY <1>0, <2>1 DEF BrokerTypes
  <2>6. QED
    BY <2>2, <2>3, <2>4, <2>5 DEF Counts
<1>4. CASE OpenStore
  <2>1. /\ UNCHANGED <<position, hist, writer>> /\ conf.pc = "open"
        /\ conf'.mode = conf.mode /\ conf'.start = conf.start
        /\ writer.pc = "none"
    BY <1>0, <1>4 DEF OpenStore, BrokerTypes, Admitted
  <2>2. conf'.pc = "attach" => store'.acked = conf.start
    <3> SUFFICES ASSUME conf'.pc = "attach" PROVE store'.acked = conf.start
      OBVIOUS
    <3>1. Admit(conf.start)
      BY <1>0, <1>4 DEF OpenStore, BrokerTypes
    <3>2. store.acked = 0
      BY <1>0, <2>1 DEF Catalog, Opened
    <3>3. QED
      BY <1>0, <3>1, <3>2 DEF Admit, Stores
  <2>3. QED
    BY <2>1, <2>2 DEF Counts
<1>5. CASE Attach
  <2>1. /\ UNCHANGED <<position, hist, store>> /\ conf.pc = "attach"
        /\ conf'.mode = conf.mode /\ conf'.start = conf.start
        /\ conf'.pc = "done" /\ writer'.pc = "idle"
        /\ writer'.next = hist.end \/ writer'.next = conf.start
    BY <1>0, <1>5 DEF Attach, BrokerTypes, NoWriter
  <2>2. /\ conf.mode = "file" /\ hist.end = position /\ position \in Nat
        /\ conf.start \in Nat /\ hist.start \in Nat
    BY <1>0, <2>1 DEF Admitted, BrokerTypes
  <2>3. /\ store.acked = conf.start /\ conf.start <= hist.start
        /\ hist.start <= hist.end
    BY <2>1, <2>2 DEF Counts
  <2>4. QED
    BY <2>1, <2>2, <2>3 DEF Counts
<1>6. CASE CloseWriter \/ CloseFollowers
  <2>1. /\ UNCHANGED <<position, hist, conf, store>>
        /\ writer'.pc = writer.pc /\ writer'.next = writer.next
    BY <1>0, <1>6 DEF CloseWriter, CloseFollowers, BrokerTypes
  <2>2. QED
    BY <2>1 DEF Counts
<1>7. CASE Write /\ UNCHANGED brokerVars
  <2>1. UNCHANGED <<position, hist, conf>>
    BY <1>7 DEF brokerVars
  <2>2. writer.pc # "none" /\ writer'.pc # "none" /\ conf.pc # "attach"
    BY <1>0, <1>7, WriteEffect DEF Admitted
  <2>3. /\ store.acked <= store'.acked /\ store'.acked <= writer.next
        /\ writer'.next = writer.next
        /\ writer'.pc \in {"append", "rename", "catalog", "evict", "drop"} =>
              store'.acked < writer.next
    BY <1>0, <1>7, <2>2, WriteCounts DEF Counts
  <2>4. QED
    BY <2>1, <2>2, <2>3 DEF Counts
<1>8. QED
  <2>1. \/ DrainFails \/ BeginClose \/ Subscribe \/ PlanReplay \/ ReplayMemory
        \/ StartRead \/ ReadOld \/ EndRead \/ EndReplay \/ ReceiveLive
        \/ LookReason \/ PeerBreaks \/ (Read /\ UNCHANGED brokerVars)
        \/ UNCHANGED vars
        => UNCHANGED <<position, hist, conf, store, writer>>
    BY DEF DrainFails, BeginClose, Subscribe, PlanReplay, ReplayMemory,
           StartRead, ReadOld, EndRead, EndReplay, ReceiveLive, LookReason,
           PeerBreaks, Read, vars, brokerVars, storageVars
  <2>2. QED
    BY <1>1, <1>2, <1>3, <1>4, <1>5, <1>6, <1>7, <2>1 DEF Next

\* What keeps the last file as it is, and nothing in front of the first one.
LEMMA RetentionFrame ==
  ASSUME StoreTypes, Retention, UNCHANGED store, conf'.start = conf.start,
         conf'.pc = "attach" => conf.pc = "attach",
         \/ writer'.pc = writer.pc
         \/ writer'.pc \in {"none", "ended"}
         \/ writer.pc = "catalog" /\ writer'.pc = "evict"
         \/ writer.pc = "rename" /\ writer'.pc = "catalog"
         \/ /\ writer.pc = "evict" /\ writer'.pc = "drop"
            /\ Count >= MaxFiles
         \/ conf.pc = "attach" /\ writer'.pc = "idle"
  PROVE  Retention'
  BY DEF Retention, Count, Entry, Active

\* A file that grows, or is about to be renamed.
LEMMA AppendRetains ==
  ASSUME Catalog, BrokerTypes, Admitted, Retention, AppendByte,
         UNCHANGED conf
  PROVE  Retention'
<1>1. /\ StoreTypes /\ store \in Stores /\ store.acked \in Nat
      /\ writer.pc \in {"append", "idle"} /\ conf.pc # "attach"
      /\ Count \in Nat /\ DOMAIN store.spans = 1..Count
      /\ store.spans \in Seq(Entries) /\ Len(store.spans) = Count
      /\ \A k \in 1..Count : Entry(k) \in Entries /\ Entry(k).start \in Int
                             /\ Entry(k).end \in Int
  BY SpansAreTyped
     DEF Catalog, StoreTypes, Stores, AppendByte, Admitted, Count
<1>2. Count > 0 /\ Active.end = store.acked /\ Active = Entry(Count)
  BY <1>1 DEF Retention, Active, Entry, Count
<1>3. CASE Failing /\ UNCHANGED <<store, content>>
  <2>1. writer'.pc = "ended"
    BY <1>3 DEF Failing, BrokerTypes
  <2>2. QED
    BY <1>1, <1>3, <2>1, RetentionFrame
<1>4. CASE /\ Active.end - Active.start = FileSize
           /\ store' = [store EXCEPT
                !.seq = @ + 1,
                !.rotating = [Active EXCEPT !.name = store.seq + 1]]
           /\ GoWriter("rename")
  <2>1. /\ writer'.pc = "rename" /\ store'.spans = store.spans
        /\ store'.acked = store.acked
    BY <1>1, <1>4 DEF GoWriter, BrokerTypes, Stores
  <2>2. QED
    BY <1>1, <1>2, <1>4, <2>1 DEF Retention, Count, Entry, Active
<1>5. CASE /\ store' = [store EXCEPT
                !.acked = @ + 1, !.spans[Len(store.spans)].end = @ + 1]
           /\ GoWriter("idle")
  <2> DEFINE e == [Entry(Count) EXCEPT !.end = @ + 1]
             s == [store.spans EXCEPT ![Count] = e]
  <2>1. /\ writer'.pc = "idle" /\ store'.acked = store.acked + 1
        /\ store'.spans = s
    BY <1>1, <1>5 DEF GoWriter, BrokerTypes, Stores, Entry
  <2>2. /\ e \in Entries /\ e.start = Entry(Count).start
        /\ e.end = Entry(Count).end + 1
    <3>1. Entry(Count) \in Entries /\ Entry(Count).end + 1 \in Int
      BY <1>1, <1>2
    <3>2. QED
      BY <3>1 DEF Entries
  <2> HIDE DEF e
  <2>3. /\ Len(s) = Count /\ s[Count] = e
        /\ \A k \in 1..Count : k # Count => s[k] = Entry(k)
        /\ 1 \in 1..Count
    BY <1>1, <1>2, <2>2, ExceptSeq, LenProperties DEF Entry
  <2> HIDE DEF s
  <2>4. /\ Count' = Count /\ Active' = e
        /\ Entry(1)'.start = Entry(1).start
    BY <1>1, <2>1, <2>2, <2>3 DEF Count, Active, Entry
  <2>5. Active'.end = store'.acked
    BY <1>2, <2>1, <2>2, <2>4
  <2>6. \/ Entry(1)'.start <= conf'.start
        \/ Entry(1)'.start + FileSize <= store'.acked
    <3>1. Entry(1).start \in Int /\ FileSize \in Nat
      BY <1>1, <2>3, StorageBounds
    <3>2. QED
      BY <1>1, <1>2, <2>1, <2>4, <3>1 DEF Retention
  <2>7. QED
    BY <1>1, <1>2, <2>1, <2>4, <2>5, <2>6 DEF Retention
<1>6. QED
  BY <1>3, <1>4, <1>5 DEF AppendByte

LEMMA UpdateRetains ==
  ASSUME Catalog, BrokerTypes, Admitted, Retention, UpdateCatalog,
         UNCHANGED conf
  PROVE  Retention'
<1>1. /\ StoreTypes /\ store \in Stores /\ store.acked \in Nat
      /\ writer.pc = "catalog" /\ conf.pc # "attach"
      /\ Count \in Nat /\ DOMAIN store.spans = 1..Count
      /\ store.spans \in Seq(Entries) /\ Len(store.spans) = Count
      /\ \A k \in 1..Count : Entry(k) \in Entries
  BY SpansAreTyped
     DEF Catalog, StoreTypes, Stores, UpdateCatalog, Admitted, Count
<1>2. Count > 0 /\ Active.end = store.acked /\ Active = Entry(Count)
  BY <1>1 DEF Retention, Active, Entry, Count
<1> DEFINE r == store.rotating
           s == [store.spans EXCEPT ![Count] = r]
<1>3. /\ r \in Entries /\ r.start = Active.start /\ r.end = Active.end
  <2>1. r = [Active EXCEPT !.name = store.seq] /\ store.seq \in Nat
    BY <1>1 DEF Catalog, Catalogued, Stores
  <2>2. Entry(Count) \in Entries
    BY <1>1, <1>2
  <2>3. QED
    BY <1>2, <2>1, <2>2 DEF Entries
<1>4. /\ writer'.pc = "evict" /\ store'.acked = store.acked
      /\ store'.spans = s
  BY <1>1 DEF UpdateCatalog, GoWriter, BrokerTypes, Stores
<1> HIDE DEF r
<1>5. /\ Len(s) = Count /\ s[Count] = r
      /\ \A k \in 1..Count : k # Count => s[k] = Entry(k)
      /\ 1 \in 1..Count
  BY <1>1, <1>2, <1>3, ExceptSeq, LenProperties DEF Entry
<1> HIDE DEF s
<1>6. /\ Count' = Count /\ Active' = r /\ Entry(1)'.start = Entry(1).start
  BY <1>1, <1>2, <1>3, <1>4, <1>5 DEF Count, Active, Entry
<1>7. QED
  BY <1>1, <1>2, <1>3, <1>4, <1>6 DEF Retention

\* With two files or more, a full one stays when the oldest is dropped.
LEMMA DropRetains ==
  ASSUME Catalog, BrokerTypes, Admitted, Retention, DropSpan,
         UNCHANGED conf, MaxFiles > 1
  PROVE  Retention'
<1>1. /\ StoreTypes /\ store \in Stores /\ store.acked \in Nat
      /\ writer.pc = "drop" /\ conf.pc # "attach"
      /\ Count \in Nat /\ store.spans \in Seq(Entries)
      /\ Len(store.spans) = Count
      /\ \A k \in 1..Count : Entry(k) \in Entries /\ Entry(k).start \in Int
                             /\ Entry(k).end \in Int
      /\ MaxFiles \in Nat /\ FileSize \in Nat
  BY SpansAreTyped, StorageBounds
     DEF Catalog, StoreTypes, Stores, DropSpan, Admitted, Count
<1>2. /\ Count > 1 /\ Active.end = store.acked /\ Active = Entry(Count)
      /\ Active.end - Active.start = FileSize
  BY <1>1 DEF Retention, Active, Entry, Count
<1> DEFINE s == Tail(store.spans)
<1>3. /\ writer'.pc = "evict" /\ store'.acked = store.acked
      /\ store'.spans = s
  BY <1>1 DEF DropSpan, GoWriter, BrokerTypes, Stores
<1>4. /\ Len(s) = Count - 1
      /\ \A k \in 1..Count - 1 : s[k] = Entry(k + 1)
  BY <1>1, <1>2, HeadTailProperties DEF Entry
<1> HIDE DEF s
<1>5. /\ Count' = Count - 1 /\ Entry(1)' = Entry(2)
      /\ Active' = Entry(Count)
  <2>1. 1 \in 1..Count - 1 /\ Count - 1 \in 1..Count - 1
    BY <1>1, <1>2
  <2>2. Count' = Count - 1 /\ Active' = s[Count - 1] /\ Entry(1)' = s[1]
    BY <1>3, <1>4 DEF Count, Active, Entry
  <2>3. s[Count - 1] = Entry(Count - 1 + 1) /\ s[1] = Entry(1 + 1)
    BY <1>4, <2>1
  <2>4. Count - 1 + 1 = Count /\ 1 + 1 = 2
    BY <1>1
  <2>5. QED
    BY <2>2, <2>3, <2>4
<1>6. Entry(2).start <= Active.start
  <2>1. 2 \in 1..Count /\ Count \in 1..Count
    BY <1>1, <1>2
  <2>2. CASE Count = 2
    BY <1>1, <1>2, <2>1, <2>2
  <2>3. CASE Count # 2
    <3>1. 2 < Count
      BY <1>1, <1>2, <2>3
    <3>2. Entry(2).end <= Entry(Count).start /\ Entry(2).start < Entry(2).end
      BY <2>1, <3>1 DEF Catalog, InOrder
    <3>3. /\ Entry(2).start \in Int /\ Entry(2).end \in Int
          /\ Entry(Count).start \in Int
      BY <1>1, <2>1
    <3>4. QED
      BY <1>2, <3>2, <3>3
  <2>4. QED
    BY <2>2, <2>3
<1>7. Entry(2).start + FileSize <= store.acked
  <2>1. /\ Entry(2).start \in Int /\ Active.start \in Int
        /\ Active.end \in Int
    BY <1>1, <1>2
  <2>2. QED
    BY <1>1, <1>2, <1>6, <2>1
<1>8. QED
  BY <1>1, <1>2, <1>3, <1>5, <1>7 DEF Retention

LEMMA CreateRetains ==
  ASSUME Catalog, BrokerTypes, Admitted, Retention, CreateActive,
         UNCHANGED conf
  PROVE  Retention'
<1>1. /\ StoreTypes /\ store \in Stores /\ store.acked \in Nat
      /\ writer.pc = "evict" /\ conf.pc # "attach"
      /\ Count \in Nat /\ store.spans \in Seq(Entries)
      /\ Len(store.spans) = Count /\ Count > 0
      /\ MaxInode \in Nat
  BY SpansAreTyped, StorageBounds
     DEF Catalog, StoreTypes, Stores, CreateActive, Admitted, Count, Retention
<1>2. CASE Failing /\ UNCHANGED <<names, content, store>>
  <2>1. writer'.pc = "ended"
    BY <1>2 DEF Failing, BrokerTypes
  <2>2. QED
    BY <1>1, <1>2, <2>1, RetentionFrame
<1>3. CASE \E i \in FreeInodes :
              /\ store' = [store EXCEPT !.spans =
                             Append(@, Span(0, i, store.acked, store.acked))]
              /\ GoWriter("append")
  <2>1. PICK i \in FreeInodes :
              /\ store' = [store EXCEPT !.spans =
                             Append(@, Span(0, i, store.acked, store.acked))]
              /\ GoWriter("append")
    BY <1>3
  <2> DEFINE e == Span(0, i, store.acked, store.acked)
             s == Append(store.spans, e)
  <2>2. e \in Entries /\ e.end = store.acked
    BY <1>1, <2>1 DEF Span, Entries, FreeInodes
  <2>3. /\ writer'.pc = "append" /\ store'.acked = store.acked
        /\ store'.spans = s
    BY <1>1, <2>1 DEF GoWriter, BrokerTypes, Stores
  <2> HIDE DEF e
  <2>4. /\ Len(s) = Count + 1 /\ s[Count + 1] = e
        /\ \A k \in 1..Count : s[k] = Entry(k)
    BY <1>1, <2>2, AppendProperties DEF Entry
  <2> HIDE DEF s
  <2>5. /\ Count' = Count + 1 /\ Active' = e /\ Entry(1)' = Entry(1)
    <3>1. 1 \in 1..Count
      BY <1>1
    <3>2. QED
      BY <1>1, <2>3, <2>4, <3>1 DEF Count, Active, Entry
  <2>6. QED
    BY <1>1, <2>2, <2>3, <2>5 DEF Retention
<1>4. QED
  BY <1>2, <1>3 DEF CreateActive

\* The first file begins where the writer does, or goes on with old bytes.
LEMMA OpenRetains ==
  ASSUME Catalog, BrokerTypes, Admitted, OpenStore, MaxFiles > 1
  PROVE  Retention'
<1>1. /\ conf.pc = "open" /\ writer.pc = "none" /\ writer' = writer
      /\ conf'.start = conf.start /\ conf.start \in Nat
      /\ store \in Stores /\ StoreTypes
  BY DEF OpenStore, Admitted, BrokerTypes, Catalog, StoreTypes
<1>2. store.spans = <<>> /\ store.acked = 0
  BY <1>1 DEF Catalog, Opened
<1>3. CASE conf'.pc = "attach"
  <2>1. Admit(conf.start)
    BY <1>1, <1>3 DEF OpenStore, BrokerTypes
  <2> DEFINE ino == Named(0)
             old == content[ino].len
             fresh == CHOOSE i \in FreeInodes : TRUE
             new == Span(0, fresh, conf.start, conf.start)
  <2>2. ino # 0 => old > 0 /\ old \in Int
    <3>1. ino # 0 => ino = 1 /\ content[1].len > 0
      BY <1>1 DEF Catalog, Opened
    <3>2. 1 \in Inodes
      BY StorageBounds DEF Inodes
    <3>3. content[1].len \in Int
      BY <1>1, <3>2 DEF StoreTypes
    <3>4. QED
      BY <3>1, <3>3
  <2>3. CASE ino = 0
    <3>1. store'.spans = <<new>> /\ store'.acked = conf.start
      BY <1>1, <2>1, <2>3 DEF Admit, Stores
    <3>2. new.start = conf.start /\ new.end = conf.start
      BY DEF Span
    <3> HIDE DEF new
    <3>3. Count' = 1 /\ Active' = new /\ Entry(1)' = new
      BY <3>1 DEF Count, Active, Entry
    <3>4. QED
      BY <1>1, <3>1, <3>2, <3>3 DEF Retention
  <2>4. CASE ino # 0 /\ conf.start = 0
    <3> DEFINE e == Span(0, ino, -old, 0)
    <3>1. store'.spans = <<e>> /\ store'.acked = 0
      BY <1>1, <1>2, <2>1, <2>4 DEF Admit, Stores
    <3>2. e.start = -old /\ e.end = 0
      BY DEF Span
    <3> HIDE DEF e
    <3>3. Count' = 1 /\ Active' = e /\ Entry(1)' = e
      BY <3>1 DEF Count, Active, Entry
    <3>4. -old <= 0
      BY <2>2, <2>4
    <3>5. QED
      BY <1>1, <2>4, <3>1, <3>2, <3>3, <3>4 DEF Retention
  <2>5. CASE ino # 0 /\ conf.start # 0
    <3> DEFINE e == Span(1, ino, -old, 0)
    <3>1. store'.spans = <<e>> \o <<new>> /\ store'.acked = conf.start
      BY <1>1, <2>1, <2>5 DEF Admit, Stores
    <3>2. /\ e.start = -old /\ new.end = conf.start
      BY DEF Span
    <3> HIDE DEF e, new
    <3>3. /\ Len(<<e>> \o <<new>>) = 2
          /\ (<<e>> \o <<new>>)[1] = e /\ (<<e>> \o <<new>>)[2] = new
      <4>1. /\ <<e>> \in Seq({e, new}) /\ <<new>> \in Seq({e, new})
            /\ Len(<<e>>) = 1 /\ Len(<<new>>) = 1
            /\ <<e>>[1] = e /\ <<new>>[1] = new
        OBVIOUS
      <4>2. QED
        BY <4>1, ConcatProperties
    <3>4. Count' = 2 /\ Active' = new /\ Entry(1)' = e
      BY <3>1, <3>3 DEF Count, Active, Entry
    <3>5. -old <= conf.start
      BY <1>1, <2>2, <2>5
    <3>6. QED
      BY <1>1, <3>1, <3>2, <3>4, <3>5 DEF Retention
  <2>6. QED
    BY <2>3, <2>4, <2>5
<1>4. CASE conf'.pc # "attach"
  <2>1. store' = store
    BY <1>1, <1>4 DEF OpenStore, BrokerTypes
  <2>2. Count' = 0
    BY <1>2, <2>1, EmptySeq DEF Count
  <2>3. QED
    BY <1>1, <1>4, <2>2 DEF Retention
<1>5. QED
  BY <1>3, <1>4

LEMMA StepRetention ==
  ASSUME MaxFiles > 1
  PROVE  LogInv /\ Retention /\ [Next]_vars => Retention'
<1> SUFFICES ASSUME LogInv, Retention, [Next]_vars PROVE Retention'
  OBVIOUS
<1>0. /\ Catalog /\ BrokerTypes /\ Admitted /\ StoreTypes
      /\ store \in Stores
  BY DEF LogInv, Recorder, Catalog, StoreTypes
<1>1. CASE UNCHANGED <<store, conf>> /\ writer'.pc = writer.pc
  BY <1>0, <1>1, RetentionFrame
<1>2. CASE Publish \/ CloseWriter \/ CloseFollowers
  <2>1. UNCHANGED <<store, conf>> /\ writer'.pc = writer.pc
    BY <1>0, <1>2
       DEF Publish, CloseWriter, CloseFollowers, BrokerTypes, Enqueued
  <2>2. QED
    BY <1>1, <2>1
<1>3. CASE Configure
  <2>1. /\ conf.pc = "idle" /\ conf'.pc # "attach"
        /\ UNCHANGED <<store, writer>>
        /\ writer.pc = "none"
    BY <1>0, <1>3 DEF Configure, storageVars, Admitted, BrokerTypes
  <2>2. store.spans = <<>>
    BY <1>0, <2>1 DEF Catalog, Opened
  <2>3. Count' = 0
    BY <2>1, <2>2, EmptySeq DEF Count
  <2>4. QED
    BY <2>1, <2>3 DEF Retention
<1>4. CASE OpenStore
  BY <1>0, <1>4, OpenRetains
<1>5. CASE Attach
  <2>1. /\ UNCHANGED store /\ conf.pc = "attach" /\ conf'.start = conf.start
        /\ conf'.pc = "done" /\ writer'.pc = "idle"
    BY <1>0, <1>5 DEF Attach, BrokerTypes, NoWriter
  <2>2. QED
    BY <1>0, <2>1, RetentionFrame
<1>6. CASE Write /\ UNCHANGED brokerVars
  <2>1. UNCHANGED conf
    BY <1>6 DEF brokerVars
  <2>2. CASE EndWriter
    <3>1. UNCHANGED store /\ writer'.pc = "ended"
      BY <1>0, <2>2 DEF EndWriter, GoWriter, Failing, BrokerTypes
    <3>2. QED
      BY <1>0, <2>1, <3>1, RetentionFrame
  <2>3. CASE RenameActive
    <3>1. CASE GoWriter("catalog") /\ UNCHANGED store
      <4>1. writer.pc = "rename" /\ writer'.pc = "catalog"
        BY <1>0, <2>3, <3>1 DEF RenameActive, GoWriter, BrokerTypes
      <4>2. QED
        BY <1>0, <2>1, <3>1, <4>1, RetentionFrame
    <3>2. CASE Failing /\ store' = [store EXCEPT !.rotating = NoSpan]
      <4>1. /\ writer'.pc = "ended" /\ store'.spans = store.spans
            /\ store'.acked = store.acked /\ conf.pc # "attach"
        BY <1>0, <2>3, <3>2
           DEF RenameActive, Failing, BrokerTypes, Stores, Admitted
      <4>2. QED
        BY <2>1, <4>1 DEF Retention, Count, Entry
    <3>3. QED
      BY <2>3, <3>1, <3>2 DEF RenameActive
  <2>4. CASE Evict
    <3>1. /\ UNCHANGED store /\ writer.pc = "evict" /\ Count >= MaxFiles
          /\ writer'.pc \in {"drop", "ended"}
      BY <1>0, <2>4 DEF Evict, GoWriter, Failing, BrokerTypes, Count
    <3>2. QED
      BY <1>0, <2>1, <3>1, RetentionFrame
  <2>5. QED
    BY <1>0, <1>6, <2>1, <2>2, <2>3, <2>4, AppendRetains, UpdateRetains,
       DropRetains, CreateRetains DEF Write
<1>7. QED
  <2>1. \/ DrainFails \/ BeginClose \/ Subscribe \/ PlanReplay \/ ReplayMemory
        \/ StartRead \/ ReadOld \/ EndRead \/ EndReplay \/ ReceiveLive
        \/ LookReason \/ PeerBreaks \/ (Read /\ UNCHANGED brokerVars)
        \/ UNCHANGED vars
        => UNCHANGED <<conf, store, writer>>
    BY DEF DrainFails, BeginClose, Subscribe, PlanReplay, ReplayMemory,
           StartRead, ReadOld, EndRead, EndReplay, ReceiveLive, LookReason,
           PeerBreaks, Read, vars, brokerVars, storageVars
  <2>2. QED
    BY <1>1, <1>2, <1>3, <1>4, <1>5, <1>6, <2>1 DEF Next

-----------------------------------------------------------------------------
(* 9. What a client has read.                                              *)

\* What memory has of the log when it is asked.
Remembered == IF Recording /\ query.mem < query.endpoint THEN {query.mem}
              ELSE {}

Asked ==
    query.pc = "plan" =>
       /\ query.endpoint <= position
       /\ client.first = SmallestOf(SpanStarts(query.files) \cup Remembered,
                                    query.endpoint)
       /\ \A k \in 1..Len(query.files) : query.files[k].end <= query.endpoint
       /\ Recording =>
             /\ query.mem <= hist.start
             /\ query.endpoint > 0 => query.mem < query.endpoint
             /\ query.files # <<>> => query.files[1].start <= query.mem
       /\ ~Recording =>
             /\ Len(query.files) <= 1
             /\ \A k \in 1..Len(query.files) :
                   query.files[k].start < 0 /\ query.files[k].end = 0

Ran == {client.out[k] : k \in DOMAIN client.out}
Low == IF client.out = <<>> THEN client.first
       ELSE Least(client.first, client.out[1])
Stop == IF Recording THEN query.endpoint ELSE 0

\* A replay that is still complete has read all it passed.
Covered ==
    /\ query.pc = "replay" => \A k \in 2..Len(query.spans) :
                                 query.spans[k].kind # "missing"
    /\ query.pc = "replay" /\ query.complete =>
          IF query.spans = <<>> THEN Ran = Low..(Stop - 1)
          ELSE /\ Gapless(query.spans)
               /\ query.spans[Len(query.spans)].end = Stop
               /\ Piece1.kind # "missing" =>
                     IF client.out = <<>> THEN query.at <= client.first
                     ELSE /\ client.out[1] <= client.first
                          /\ Ran = client.out[1]..(query.at - 1)
    /\ query.pc \in {"live", "asked"} =>
          Ran = (Low..(Stop - 1)) \cup (query.endpoint..(live.from - 1))

\* A follower queues everything, or is told that it did not; what it has
\* taken is what there was when the queue was last found empty.
Followed ==
    /\ query.follow /\ query.pc \in {"plan", "replay", "live", "asked"} =>
          /\ query.endpoint <= live.from /\ live.from <= live.to
          /\ live.on => live.to = position /\ live.reason = "none"
          /\ live.reason = "broker_closed" =>
                live.to = position /\ broker.drains = "ended"
    /\ query.pc \in {"live", "asked"} => query.follow
    /\ query.pc = "asked" /\ (live.on \/ live.reason = "broker_closed") =>
          query.at = live.from

Told ==
    client.result = "ok" =>
       /\ query.pc = "ended" /\ conf.mode # "unset"
       /\ query.follow => broker.drains = "ended" /\ ~live.on
       /\ SuccessIsComplete

Outcome == Asked /\ Covered /\ Followed /\ Told
CompleteInv == Counts /\ Retention /\ Outcome

LEMMA InitOutcome == Init => Outcome
<1> SUFFICES ASSUME Init PROVE Outcome
  OBVIOUS
<1>1. query.pc = "none" /\ client.result = "none"
  BY DEF Init, NoQuery
<1>2. QED
  BY <1>1 DEF Outcome, Asked, Covered, Followed, Told

\* What the broker and the writer do leaves the outcome as it is.
LEMMA OutcomeStays ==
  ASSUME Player, BrokerTypes, BrokerTypes', Outcome, Followed',
         UNCHANGED <<query, client>>, live'.from = live.from,
         ~live.on => live' = live,
         conf'.mode = conf.mode \/ conf.mode = "unset",
         position <= position',
         broker.drains = "ended" =>
            position' = position /\ broker'.drains = "ended",
         conf.mode \notin {"unset", "none"} => hist.start <= hist'.start
  PROVE  Outcome'
<1>1. CASE conf.mode = "unset"
  <2>1. /\ query'.pc \notin {"plan", "replay", "live", "asked"}
        /\ client'.result # "ok"
    BY <1>1 DEF Player, PiecesInOrder, Outcome, Told
  <2>2. QED
    BY <2>1 DEF Outcome, Asked, Covered, Told
<1>2. CASE conf.mode # "unset"
  <2>1. conf'.mode = conf.mode /\ (Recording' <=> Recording)
    BY <1>2 DEF Recording
  <2>2. /\ query.mem \in Nat /\ query.endpoint \in Nat
        /\ position \in Nat /\ position' \in Nat
        /\ hist.start \in Nat /\ hist'.start \in Nat
    BY DEF Player, QueryTypes, Queries, BrokerTypes
  <2>3. Asked'
    <3>1. Remembered' = Remembered
      BY <2>1 DEF Remembered
    <3>2. Recording => hist.start <= hist'.start
      BY <1>2 DEF Recording
    <3>3. QED
      BY <2>1, <2>2, <3>1, <3>2 DEF Outcome, Asked
  <2>4. /\ Ran' = Ran /\ Low' = Low /\ Stop' = Stop /\ Piece1' = Piece1
    BY <2>1 DEF Ran, Low, Stop, Piece1
  <2>5. Covered'
    BY <2>1, <2>4 DEF Outcome, Covered
  <2>6. Told'
    <3> SUFFICES ASSUME client'.result = "ok" PROVE Told'
      BY DEF Told
    <3>1. /\ client.result = "ok" /\ query.pc = "ended"
          /\ SuccessIsComplete
          /\ query.follow => broker.drains = "ended" /\ ~live.on
      BY DEF Outcome, Told
    <3>2. query.follow => /\ position' = position /\ live' = live
                          /\ broker'.drains = "ended"
      BY <3>1
    <3>3. SuccessIsComplete'
      BY <2>1, <3>1, <3>2 DEF SuccessIsComplete
    <3>4. QED
      BY <1>2, <2>1, <3>1, <3>2, <3>3 DEF Told
  <2>7. QED
    BY <2>3, <2>5, <2>6 DEF Outcome
<1>3. QED
  BY <1>1, <1>2

\* The publication and the close keep the follower informed.
LEMMA FollowedStays ==
  ASSUME Player, BrokerTypes, Followed, UNCHANGED query,
         \/ UNCHANGED <<live, position, broker>>
         \/ Publish \/ DrainFails \/ BeginClose \/ CloseWriter
         \/ CloseFollowers
  PROVE  Followed'
<1>1. /\ query.endpoint \in Nat /\ live \in Lives /\ position \in Nat
      /\ live.from \in Nat /\ live.to \in Nat
  BY DEF Player, QueryTypes, Queries, Lives, BrokerTypes
<1>2. CASE UNCHANGED <<live, position, broker>>
  BY <1>2 DEF Followed
<1>3. CASE Publish
  <2>1. /\ position' = position + 1 /\ UNCHANGED broker
        /\ broker.drains = "running"
    BY <1>3 DEF Publish
  <2>2. \/ live' = live /\ (~live.on \/ live.reason # "none")
        \/ live' = [live EXCEPT !.on = FALSE, !.reason = "overflow",
                                !.from = live.from, !.to = live.from]
        \/ live' = [live EXCEPT !.to = position + 1] /\ live.on
           /\ live.reason = "none"
    BY <1>3 DEF Publish, OfferLive
  <2>3. \/ live' = live /\ (~live.on \/ live.reason # "none")
        \/ /\ ~live'.on /\ live'.reason = "overflow"
           /\ live'.from = live.from /\ live'.to = live.from
        \/ /\ live'.to = position + 1 /\ live'.from = live.from
           /\ live'.reason = "none" /\ live.on /\ live.reason = "none"
    BY <1>1, <2>2 DEF Lives
  <2>4. QED
    BY <1>1, <2>1, <2>3 DEF Followed
<1>4. CASE DrainFails \/ BeginClose \/ CloseWriter
  <2>1. /\ UNCHANGED <<live, position>>
        /\ broker.drains = "ended" => broker'.drains = "ended"
    BY <1>4 DEF DrainFails, BeginClose, CloseWriter, BrokerTypes, storageVars
  <2>2. QED
    BY <2>1 DEF Followed
<1>5. CASE CloseFollowers
  <2>1. /\ UNCHANGED position /\ broker'.drains = broker.drains
        /\ broker'.reason = "broker_closed" => broker.drains = "ended"
    BY <1>5 DEF CloseFollowers, BrokerTypes
  <2>2. \/ live' = live /\ ~live.on
        \/ live' = [live EXCEPT !.on = FALSE, !.reason = "broker_closed"]
           /\ live.on /\ broker'.reason = "broker_closed"
        \/ live' = [live EXCEPT !.on = FALSE, !.reason = "broker_failed",
                                !.to = live.from]
    BY <1>5 DEF CloseFollowers
  <2>3. \/ live' = live
        \/ /\ ~live'.on /\ live'.reason = "broker_closed" /\ live.on
           /\ live'.from = live.from /\ live'.to = live.to
           /\ broker.drains = "ended"
        \/ /\ ~live'.on /\ live'.reason = "broker_failed"
           /\ live'.from = live.from /\ live'.to = live.from
    BY <1>1, <2>1, <2>2 DEF Lives
  <2>4. QED
    BY <1>1, <2>1, <2>3 DEF Followed
<1>6. QED
  BY <1>2, <1>3, <1>4, <1>5

\* The steps that leave query and client alone.
LEMMA QuietKeepsOutcome ==
  ASSUME LogInv, BrokerTypes', Counts, Outcome,
         \/ Publish \/ DrainFails \/ BeginClose \/ CloseWriter
         \/ CloseFollowers \/ Configure \/ OpenStore \/ Attach \/ StartRead
         \/ ReadOld \/ (Write /\ UNCHANGED brokerVars)
         \/ (Read /\ UNCHANGED brokerVars) \/ UNCHANGED vars
  PROVE  Outcome'
<1>1. Player /\ BrokerTypes /\ Followed
  BY DEF LogInv, Recorder, Outcome
<1>2. UNCHANGED <<query, client>>
  BY DEF Publish, DrainFails, BeginClose, CloseWriter, CloseFollowers,
         Configure, OpenStore, Attach, StartRead, ReadOld, brokerVars, vars,
         storageVars
<1>3. /\ \/ UNCHANGED <<live, position, broker>>
         \/ Publish \/ DrainFails \/ BeginClose \/ CloseWriter
         \/ CloseFollowers
  BY DEF Configure, OpenStore, Attach, StartRead, ReadOld, brokerVars, vars,
         storageVars
<1>4. Followed'
  BY <1>1, <1>2, <1>3, FollowedStays
<1>5. live'.from = live.from
  <2>1. live \in Lives
    BY <1>1 DEF Player, QueryTypes
  <2>2. CASE Publish \/ CloseFollowers
    BY <2>1, <2>2 DEF Publish, OfferLive, CloseFollowers, Lives
  <2>3. CASE ~(Publish \/ CloseFollowers)
    BY <1>3, <2>3 DEF DrainFails, BeginClose, CloseWriter
  <2>4. QED
    BY <2>2, <2>3
<1>l. ~live.on => live' = live
  BY <1>3 DEF Publish, OfferLive, DrainFails, BeginClose, CloseWriter,
              CloseFollowers
<1>6. conf'.mode = conf.mode \/ conf.mode = "unset"
  BY <1>1 DEF Publish, DrainFails, BeginClose, CloseWriter, CloseFollowers,
         Configure, OpenStore, Attach, StartRead, ReadOld, brokerVars, vars,
         storageVars, BrokerTypes
<1>7. /\ position' = position \/ position' = position + 1
      /\ broker.drains = "ended" =>
            position' = position /\ broker'.drains = "ended"
  BY <1>1 DEF Publish, DrainFails, BeginClose, CloseWriter, CloseFollowers,
         Configure, OpenStore, Attach, StartRead, ReadOld, brokerVars, vars,
         storageVars, BrokerTypes
<1>8. conf.mode \notin {"unset", "none"} => hist.start <= hist'.start
  <2>1. hist.start \in Nat /\ position \in Nat
    BY <1>1 DEF BrokerTypes
  <2>2. CASE Publish
    <3> SUFFICES ASSUME conf.mode \notin {"unset", "none"}
                 PROVE  hist.start <= hist'.start
      OBVIOUS
    <3>1. Capacity \in Int
      BY StorageBounds, LogBounds DEF Capacity
    <3>2. hist'.start = Most(hist.start, position + 1 - Capacity)
      BY <2>2 DEF Publish, Recording
    <3>3. QED
      BY <2>1, <3>1, <3>2 DEF Most
  <2>3. CASE ~Publish
    <3>1. hist' = hist \/ conf.mode = "unset"
      BY <2>3
         DEF DrainFails, BeginClose, CloseWriter, CloseFollowers, Configure,
             OpenStore, Attach, StartRead, ReadOld, brokerVars, vars,
             storageVars
    <3>2. QED
      BY <2>1, <3>1
  <2>4. QED
    BY <2>2, <2>3
<1>9. position <= position'
  BY <1>1, <1>7 DEF BrokerTypes
<1>10. QED
  BY <1>1, <1>2, <1>4, <1>5, <1>l, <1>6, <1>7, <1>8, <1>9, OutcomeStays

\* What is captured is older than what memory has, where both are asked.
LEMMA CapturedIsOld ==
  ASSUME Catalog, BrokerTypes, Admitted, Counts, Retention,
         conf.mode # "unset"
  PROVE  /\ \A k \in 1..Len(Captured) : Captured[k].end <= position
         /\ Recording /\ Captured # <<>> => Captured[1].start <= hist.start
         /\ ~Recording =>
               /\ Len(Captured) <= 1
               /\ \A k \in 1..Len(Captured) :
                     Captured[k].start < 0 /\ Captured[k].end = 0
<1>1. /\ position \in Nat /\ hist.start \in Nat /\ conf.start \in Nat
      /\ store.acked \in Nat /\ writer.next \in Nat /\ FileSize \in Nat
  BY StorageBounds DEF BrokerTypes, Catalog, StoreTypes, Stores
<1>2. CASE Attached
  <2>1. Captured = store.spans /\ Recording
    BY <1>2 DEF Captured, Attached, Recording, Admitted
  <2>2. /\ Count \in Nat /\ (store.spans = <<>> <=> Count = 0)
        /\ Len(Captured) = Count /\ \A k \in 1..Count : Captured[k] = Entry(k)
        /\ \A k \in 1..Count : Entry(k).start \in Int /\ Entry(k).end \in Int
    BY <2>1, SpansAreTyped DEF Catalog, Count, Entry
  <2>3. store.acked <= position
    BY <1>1, <1>2 DEF Counts, Attached
  <2>4. \A k \in 1..Count : Entry(k).end <= position
    <3>1. \A k \in 1..Count : Entry(k).end <= store.acked
      BY DEF Catalog, InOrder
    <3>2. QED
      BY <1>1, <2>2, <2>3, <3>1
  <2>5. Count > 0 => Entry(1).start <= hist.start
    <3> SUFFICES ASSUME Count > 0 PROVE Entry(1).start <= hist.start
      OBVIOUS
    <3>1. /\ conf.start <= hist.start /\ position - FileSize <= hist.start
      BY <1>2 DEF Counts, Attached, Admitted
    <3>2. /\ Entry(1).start \in Int
          /\ \/ Entry(1).start <= conf.start
             \/ Entry(1).start + FileSize <= store.acked
      BY <2>2 DEF Retention
    <3>3. QED
      BY <1>1, <2>3, <3>1, <3>2
  <2>6. QED
    BY <2>1, <2>2, <2>4, <2>5
<1>3. CASE ~Attached /\ conf.mode = "none" /\ content[1].len > 0
           /\ Named(0) = 1
  <2> DEFINE old == Span(0, 1, content[1].from, 0)
  <2>1. Captured = <<old>> /\ ~Recording
    BY <1>3 DEF Captured, Recording
  <2>2. content[1].len \in Int
    BY StorageBounds DEF Inodes, Catalog, StoreTypes
  <2>3. content[1].from = -content[1].len
    <3>1. ~store.open
      BY <1>3 DEF Admitted, Catalog, Opened
    <3>2. QED
      BY <1>3, <3>1 DEF Catalog, Opened
  <2>4. old.start < 0 /\ old.end = 0
    BY <1>3, <2>2, <2>3 DEF Span
  <2> HIDE DEF old
  <2>5. Len(<<old>>) = 1 /\ <<old>>[1] = old
    OBVIOUS
  <2>6. QED
    BY <1>1, <2>1, <2>4, <2>5
<1>4. CASE ~Attached /\ ~(conf.mode = "none" /\ content[1].len > 0
                          /\ Named(0) = 1)
  <2>1. Captured = <<>> /\ Len(<<>>) = 0
    BY <1>4, EmptySeq DEF Captured
  <2>2. QED
    BY <2>1
<1>5. QED
  BY <1>2, <1>3, <1>4

LEMMA SubscribeKeepsOutcome ==
  ASSUME LogInv, Counts, Retention, Outcome, Subscribe
  PROVE  Outcome'
<1>1. Player /\ Catalog /\ BrokerTypes /\ Admitted
  BY DEF LogInv, Recorder
<1>2. /\ query.pc = "none" /\ conf.mode # "unset"
      /\ UNCHANGED <<position, hist, conf, broker>>
      /\ (Recording' <=> Recording)
  BY DEF Subscribe, Recording
<1>3. PICK follow \in BOOLEAN :
         /\ query' = [NoQuery EXCEPT
               !.pc = "plan", !.follow = follow, !.endpoint = position,
               !.mem = hist.start, !.filed = Attached, !.files = Captured]
         /\ live' = IF follow THEN [on |-> TRUE, from |-> position,
                                    to |-> position, reason |-> "none"]
                    ELSE live
  BY DEF Subscribe
<1>4. /\ query'.pc = "plan" /\ query'.follow = follow
      /\ query'.endpoint = position /\ query'.mem = hist.start
      /\ query'.files = Captured
  BY <1>3 DEF NoQuery
<1>5. position \in Nat /\ hist.start \in Nat
  BY <1>1 DEF BrokerTypes
<1>6. client'.result = client.result /\ client.result # "ok"
      /\ client'.first =
           SmallestOf(SpanStarts(Captured) \cup
                        (IF Recording /\ hist.start < position
                         THEN {hist.start} ELSE {}), position)
  <2>1. client \in Clients /\ client.result # "ok"
    BY <1>1, <1>2 DEF Player, QueryTypes, Outcome, Told
  <2> DEFINE first ==
           SmallestOf(SpanStarts(Captured) \cup
                        (IF Recording /\ hist.start < position
                         THEN {hist.start} ELSE {}), position)
  <2>2. client' = [client EXCEPT !.first = first]
    BY DEF Subscribe
  <2> HIDE DEF first
  <2>3. client'.result = client.result /\ client'.first = first
    BY <2>1, <2>2 DEF Clients
  <2>4. QED
    BY <2>1, <2>3 DEF first
<1>7. Asked'
  <2>1. Remembered' = IF Recording /\ hist.start < position
                      THEN {hist.start} ELSE {}
    BY <1>2, <1>4 DEF Remembered
  <2>2. client'.first = SmallestOf(SpanStarts(query'.files) \cup Remembered',
                                   query'.endpoint)
    BY <1>4, <1>6, <2>1
  <2>3. Recording =>
          /\ query'.mem <= hist'.start
          /\ query'.endpoint > 0 => query'.mem < query'.endpoint
          /\ query'.files # <<>> => query'.files[1].start <= query'.mem
    BY <1>1, <1>2, <1>4, <1>5, CapturedIsOld DEF Counts, Recording
  <2>4. QED
    BY <1>1, <1>2, <1>4, <1>5, <2>2, <2>3, CapturedIsOld DEF Asked
<1>8. Covered' /\ Told'
  BY <1>4, <1>6 DEF Covered, Told
<1>9. Followed'
  BY <1>2, <1>3, <1>4, <1>5 DEF Followed
<1>10. QED
  BY <1>7, <1>8, <1>9 DEF Outcome

\* A plan begins with the oldest byte that was there when it was asked for,
\* or with a gap in its place.
LEMMA PlanFromOldest ==
  ASSUME Player, Catalog, BrokerTypes, Admitted, Asked, query.pc = "plan",
         NEW start, start = Least(query.endpoint, Most(query.mem, hist.start))
  PROVE  /\ PlanOf(start) # <<>> /\ PlanOf(start)[1].kind # "missing" =>
               PlanOf(start)[1].start <= client.first
         /\ PlanOf(start) = <<>> /\ (Recording => query.endpoint = 0) =>
               client.first >= Stop
         /\ ~Recording /\ PlanOf(start) # <<>> =>
               PlanOf(start)[Len(PlanOf(start))].end = 0
<1> DEFINE found == Found(start)
           files == query.files
           A == SpanStarts(files) \cup Remembered
<1>0. QueryTypes /\ Captures
  BY DEF Player
<1>1. /\ query.mem \in Nat /\ query.endpoint \in Nat /\ hist.start \in Nat
      /\ files \in Seq(Entries) /\ Len(files) \in Nat
      /\ DOMAIN files = 1..Len(files)
      /\ (files = <<>> <=> Len(files) = 0)
      /\ \A k \in 1..Len(files) :
            files[k].start \in Int /\ files[k].end \in Int
  <2>1. /\ files \in Seq(Entries) /\ Len(files) \in Nat
        /\ DOMAIN files = 1..Len(files)
        /\ (files = <<>> <=> Len(files) = 0)
        /\ \A k \in 1..Len(files) : files[k] \in Entries
    BY <1>0, QueryIsTyped
  <2>2. /\ query.mem \in Nat /\ query.endpoint \in Nat /\ hist.start \in Nat
    BY <1>0 DEF QueryTypes, Queries, BrokerTypes
  <2>3. QED
    BY <2>1, <2>2 DEF Entries
<1>2. start \in Nat /\ start <= query.endpoint
  BY <1>1 DEF Least, Most
<1>3. /\ found \in Seq(Pieces) /\ Ordered(found)
      /\ \A k \in 1..Len(found) : Readable(found[k])
      /\ \A i \in 1..Len(FilesNow) :
            Least(FilesNow[i].end, StopOf(start)) > FilesNow[i].start =>
               \E k \in 1..Len(found) : found[k].start = FilesNow[i].start
      /\ Recording /\ start < query.endpoint =>
            /\ Len(found) > 0
            /\ found[Len(found)] =
                  Piece("memory", 0, start, query.endpoint, 0)
  BY <1>0, <1>2, FoundIsReadable
<1>4. /\ Len(found) \in Nat /\ (found = <<>> <=> Len(found) = 0)
      /\ \A k \in 1..Len(found) :
            found[k].start \in Int /\ found[k].end \in Int
  <2> HIDE DEF found
  <2>1. /\ Len(found) \in Nat /\ (found = <<>> <=> Len(found) = 0)
        /\ \A k \in 1..Len(found) : found[k] \in Pieces
    BY <1>3, LenProperties, EmptySeq, ElementOfSeq
  <2>2. QED
    BY <2>1 DEF Pieces
<1>5. ASSUME NEW k \in 1..Len(found)
      PROVE  found # <<>> /\ found[1].start <= found[k].start
  <2>1. found # <<>> /\ 1 \in 1..Len(found)
    BY <1>4
  <2>2. CASE k = 1
    BY <1>4, <2>1, <2>2
  <2>3. CASE k # 1
    <3>1. 1 < k
      BY <1>4, <2>3
    <3>2. /\ found[1].end <= found[k].start
          /\ found[1].start < found[1].end
      BY <1>3, <2>1, <3>1 DEF Ordered, Readable
    <3>3. /\ found[1].start \in Int /\ found[1].end \in Int
          /\ found[k].start \in Int
      BY <1>4, <2>1
    <3>4. QED
      BY <2>1, <3>2, <3>3
  <2>4. QED
    BY <2>2, <2>3
<1>6. PlanOf(start) = found \/ /\ Missing(start) /\ PlanOf(start) # <<>>
                               /\ PlanOf(start)[1].kind = "missing"
  <2>1. CASE Missing(start)
    <3>1. Len(PlanOf(start)) > 0 /\ PlanOf(start)[1].kind = "missing"
      BY <1>0, <1>2, <2>1, PlanIsReadable
    <3>2. PlanOf(start) # <<>>
      BY <3>1, EmptySeq
    <3>3. QED
      BY <2>1, <3>1, <3>2
  <2>2. CASE ~Missing(start)
    BY <2>2, PlanHasParts
  <2>3. QED
    BY <2>1, <2>2
<1>7. client.first = SmallestOf(A, query.endpoint)
  BY DEF Asked
<1>8. files # <<>> => /\ 1 \in 1..Len(FilesNow)
                      /\ FilesNow[1] = files[1]
  <2> SUFFICES ASSUME files # <<>>
               PROVE  1 \in 1..Len(FilesNow) /\ FilesNow[1] = files[1]
    OBVIOUS
  <2>1. /\ FilesNow \in Seq(Artifacts) /\ Len(files) <= Len(FilesNow)
        /\ \A k \in 1..Len(files) : FilesNow[k] = files[k]
    BY <1>0, FilesAreTraced
  <2>2. Len(FilesNow) \in Nat
    BY <2>1, LenProperties
  <2>3. QED
    BY <1>1, <2>1, <2>2
<1>9. \/ SpanStarts(files) = {}
      \/ /\ 1 \in 1..Len(files) /\ files[1].start < files[1].end
         /\ files[1].start \in SpanStarts(files)
         /\ \A x \in SpanStarts(files) : x \in Int /\ files[1].start <= x
  BY <1>0, <1>1, OldestFile DEF Captures
<1> HIDE DEF files, found
<1>10. CASE Recording
  <2>1. /\ query.mem <= hist.start
        /\ query.endpoint > 0 => query.mem < query.endpoint
        /\ files # <<>> => files[1].start <= query.mem
        /\ StopOf(start) = start
    BY <1>1, <1>2, <1>10 DEF Asked, StopOf, Least, files
  <2>2. start < query.endpoint =>
           /\ found # <<>> /\ found[1].start <= start
    <3> SUFFICES ASSUME start < query.endpoint
                 PROVE  found # <<>> /\ found[1].start <= start
      OBVIOUS
    <3>1. /\ Len(found) > 0
          /\ found[Len(found)] = Piece("memory", 0, start, query.endpoint, 0)
      BY <1>3, <1>10
    <3>2. Len(found) \in 1..Len(found) /\ found[Len(found)].start = start
      BY <1>4, <3>1 DEF Piece
    <3>3. QED
      BY <1>5, <3>2
  <2>3. CASE SpanStarts(files) # {}
    <3> DEFINE f == files[1]
    <3>1. /\ 1 \in 1..Len(files) /\ f.start < f.end /\ f.start \in Int
          /\ f.end \in Int /\ f.start <= query.mem
          /\ f.end <= query.endpoint
      BY <1>1, <1>9, <2>1, <2>3 DEF Asked, files
    <3>2. client.first = f.start
      <4>1. f.start \in A /\ \A x \in A : x \in Int /\ f.start <= x
        BY <1>1, <1>9, <2>3, <3>1 DEF Remembered
      <4> HIDE DEF A
      <4>2. SmallestOf(A, query.endpoint) = f.start
        BY <4>1, SmallestIsLeast
      <4>3. QED
        BY <1>7, <4>2 DEF A
    <3>3. found # <<>> /\ found[1].start <= f.start
      <4>1. CASE f.start < start
        <5>1. FilesNow[1] = f /\ 1 \in 1..Len(FilesNow)
          BY <1>1, <1>8, <3>1
        <5>2. Least(f.end, StopOf(start)) > f.start
          BY <1>2, <2>1, <3>1, <4>1 DEF Least
        <5>3. \E k \in 1..Len(found) : found[k].start = f.start
          BY <1>3, <5>1, <5>2
        <5>4. QED
          BY <1>5, <5>3
      <4>2. CASE ~(f.start < start)
        <5>1. start = f.start /\ start < query.endpoint
          BY <1>1, <1>2, <2>1, <3>1, <4>2 DEF Least, Most
        <5>2. QED
          BY <2>2, <5>1
      <4>3. QED
        BY <4>1, <4>2
    <3>4. QED
      BY <1>6, <1>10, <3>2, <3>3
  <2>4. CASE SpanStarts(files) = {}
    <3>1. Expected = query.mem
      BY <2>4 DEF Expected, SmallestOf, files
    <3>2. CASE query.endpoint = 0
      <4>1. A = {} /\ client.first = query.endpoint
        BY <1>1, <1>7, <2>4, <3>2 DEF Remembered, SmallestOf
      <4>2. found # <<>> => found[1].start <= 0
        <5> SUFFICES ASSUME found # <<>> PROVE found[1].start <= 0
          OBVIOUS
        <5>1. 1 \in 1..Len(found)
          BY <1>4
        <5>2. /\ found[1].start \in Int /\ found[1].end \in Int
              /\ found[1].start < found[1].end
              /\ found[1].end <= query.endpoint
          BY <1>3, <1>4, <5>1 DEF Readable
        <5>3. QED
          BY <3>2, <5>2
      <4>3. Stop = 0
        BY <1>10, <3>2 DEF Stop
      <4>4. QED
        BY <1>6, <1>10, <3>2, <4>1, <4>2, <4>3
    <3>3. CASE query.endpoint # 0
      <4>1. query.mem < query.endpoint
        BY <1>1, <2>1, <3>3
      <4>2. A = {query.mem}
        BY <1>10, <2>4, <4>1 DEF Remembered
      <4>3. client.first = query.mem
        <5> HIDE DEF A
        <5>1. query.mem \in A /\ \A x \in A : x \in Int /\ query.mem <= x
          BY <1>1, <4>2
        <5>2. SmallestOf(A, query.endpoint) = query.mem
          BY <5>1, SmallestIsLeast
        <5>3. QED
          BY <1>7, <5>2 DEF A
      <4>4. ASSUME ~Missing(start)
            PROVE  found # <<>> /\ found[1].start <= query.mem
        <5>1. CASE start > query.mem
          <6>1. \/ found # <<>> /\ ~(found[1].start > query.mem)
                \/ ~(EndOf(start) > query.mem)
            BY <1>10, <3>1, <4>4, <5>1 DEF Missing, found
          <6>2. CASE found = <<>>
            <7>1. EndOf(start) = query.endpoint
              BY <6>2 DEF EndOf, found
            <7>2. QED
              BY <1>1, <4>1, <6>1, <6>2, <7>1
          <6>3. CASE found # <<>>
            <7>1. /\ EndOf(start) = Least(query.endpoint, found[1].start)
                  /\ found[1].start \in Int
              BY <1>4, <6>3 DEF EndOf, found
            <7>2. QED
              BY <1>1, <4>1, <6>1, <6>3, <7>1 DEF Least
          <6>4. QED
            BY <6>2, <6>3
        <5>2. CASE ~(start > query.mem)
          <6>1. start = query.mem
            BY <1>1, <1>2, <2>1, <4>1, <5>2 DEF Least, Most
          <6>2. QED
            BY <2>2, <4>1, <6>1
        <5>3. QED
          BY <5>1, <5>2
      <4>5. ASSUME PlanOf(start) = <<>> \/ PlanOf(start)[1].kind # "missing"
            PROVE  PlanOf(start) = found /\ ~Missing(start)
        <5>1. Missing(start) => PlanOf(start) # <<>>
                                /\ PlanOf(start)[1].kind = "missing"
          <6>1. Missing(start) => /\ Len(PlanOf(start)) > 0
                                  /\ PlanOf(start)[1].kind = "missing"
            BY <1>0, <1>2, PlanIsReadable
          <6>2. QED
            BY <6>1, EmptySeq
        <5>2. QED
          BY <1>6, <4>5, <5>1
      <4>6. QED
        BY <1>10, <3>3, <4>3, <4>4, <4>5
    <3>4. QED
      BY <3>2, <3>3
  <2>5. QED
    BY <2>3, <2>4
<1>11. CASE ~Recording
  <2>1. /\ FilesNow = files /\ StopOf(start) = query.endpoint
        /\ found = Clip(files, query.endpoint) \o <<>>
        /\ Remembered = {} /\ Stop = 0 /\ ~Missing(start)
    BY <1>11 DEF FilesNow, StopOf, found, Found, MemoryPart, Remembered, Stop,
                 Recording, Missing, files
  <2>2. /\ PlanOf(start) = found /\ Len(files) <= 1
        /\ \A k \in 1..Len(files) : files[k].start < 0 /\ files[k].end = 0
    BY <1>11, <2>1, PlanHasParts DEF Asked, found, files
  <2>3. files \in Seq(Artifacts) /\ Ordered(files)
    BY <1>0, <2>1, FilesAreTraced
  <2>4. Clip(files, query.endpoint) \in Seq(Pieces)
        /\ \A k \in 1..Len(Clip(files, query.endpoint)) :
              \E i \in 1..Len(files) :
                 PieceOf(Clip(files, query.endpoint)[k], files[i],
                         query.endpoint)
    <3>1. query.endpoint \in Int
      BY <1>1
    <3>2. QED
      BY <2>3, <3>1, ClipProperties
  <2>5. found = Clip(files, query.endpoint)
    BY <2>1, <2>4, ConcatEmptySeq
  <2>6. \A k \in 1..Len(found) : found[k].end = 0
    <3>1. TAKE k \in 1..Len(found)
    <3>2. PICK i \in 1..Len(files) :
             PieceOf(found[k], files[i], query.endpoint)
      BY <2>4, <2>5
    <3>3. found[k].end = Least(files[i].end, query.endpoint)
          /\ files[i].end = 0
      BY <2>2, <3>2 DEF PieceOf
    <3>4. QED
      BY <1>1, <3>3 DEF Least
  <2>7. found # <<>> => found[Len(found)].end = 0
    <3>1. found # <<>> => Len(found) \in 1..Len(found)
      BY <1>4
    <3>2. QED
      BY <2>6, <3>1
  <2>8. CASE SpanStarts(files) = {}
    <3>1. A = {} /\ client.first = query.endpoint
      BY <1>7, <2>1, <2>8 DEF SmallestOf
    <3>2. found = <<>>
      <4>1. Len(files) = 0
        <5>1. \A k \in 1..Len(files) : files[k].start \in SpanStarts(files)
          BY <1>1, <2>2 DEF SpanStarts
        <5>2. 1 \notin 1..Len(files)
          BY <2>8, <5>1
        <5>3. QED
          BY <1>1, <5>2
      <4>2. Len(found) = 0
        <5>1. 1 \notin 1..Len(found)
          BY <2>4, <2>5, <4>1
        <5>2. QED
          BY <1>4, <5>1
      <4>3. QED
        BY <1>4, <4>2
    <3>3. QED
      BY <1>1, <2>1, <2>2, <3>1, <3>2
  <2>9. CASE SpanStarts(files) # {}
    <3> DEFINE f == files[1]
    <3>1. /\ 1 \in 1..Len(files) /\ f.start < 0 /\ f.end = 0
          /\ f.start \in Int
      BY <1>1, <1>9, <2>2, <2>9
    <3>2. client.first = f.start
      <4>1. f.start \in A /\ \A x \in A : x \in Int /\ f.start <= x
        BY <1>9, <2>1, <2>9
      <4> HIDE DEF A
      <4>2. SmallestOf(A, query.endpoint) = f.start
        BY <4>1, SmallestIsLeast
      <4>3. QED
        BY <1>7, <4>2 DEF A
    <3>3. Least(f.end, StopOf(start)) > f.start
      BY <1>1, <2>1, <3>1 DEF Least
    <3>4. \E k \in 1..Len(found) : found[k].start = f.start
      BY <1>3, <2>1, <3>1, <3>3
    <3>5. found # <<>> /\ found[1].start <= f.start
      BY <1>5, <3>4
    <3>6. QED
      BY <1>11, <2>2, <2>7, <3>2, <3>5
  <2>10. QED
    BY <2>8, <2>9
<1>12. QED
  BY <1>10, <1>11

LEMMA PlanKeepsOutcome ==
  ASSUME LogInv, Outcome, PlanReplay
  PROVE  Outcome'
<1> DEFINE start == Least(query.endpoint, Most(query.mem, hist.start))
           spans == PlanOf(start)
           at == IF spans = <<>> THEN 0 ELSE spans[1].start
           ends == IF spans = <<>> THEN 0 ELSE spans[Len(spans)].end
           complete == Gapless(spans) /\ (Recording => ends = query.endpoint)
<1>0. Player /\ Catalog /\ BrokerTypes /\ Admitted /\ Asked
  BY DEF LogInv, Recorder, Outcome
<1>1. /\ query.pc = "plan" /\ UNCHANGED <<live, client, position, hist, conf,
                                          broker>>
      /\ (Recording' <=> Recording)
  BY DEF PlanReplay, Recording
<1>2. /\ query.mem \in Nat /\ query.endpoint \in Nat /\ hist.start \in Nat
      /\ query \in Queries
  BY <1>0 DEF Player, QueryTypes, Queries, BrokerTypes
<1>3. start \in Nat /\ start <= query.endpoint
  BY <1>2 DEF Least, Most
<1>4. /\ spans # <<>> /\ spans[1].kind # "missing" =>
            spans[1].start <= client.first
      /\ spans = <<>> /\ (Recording => query.endpoint = 0) =>
            client.first >= Stop
      /\ ~Recording /\ spans # <<>> => spans[Len(spans)].end = 0
  <2> HIDE DEF start
  <2>1. /\ PlanOf(start) # <<>> /\ PlanOf(start)[1].kind # "missing" =>
              PlanOf(start)[1].start <= client.first
        /\ PlanOf(start) = <<>> /\ (Recording => query.endpoint = 0) =>
              client.first >= Stop
        /\ ~Recording /\ PlanOf(start) # <<>> =>
              PlanOf(start)[Len(PlanOf(start))].end = 0
    BY <1>0, <1>1, PlanFromOldest DEF start
  <2>2. QED
    BY <2>1
<1>5. /\ spans \in Seq(Pieces)
      /\ \A k \in 2..Len(spans) : spans[k].kind # "missing"
  <2> HIDE DEF start
  <2>1. QED
    BY <1>0, <1>3, PlanIsReadable DEF Player
<1>6. query' = [query EXCEPT !.pc = "replay", !.spans = spans, !.at = at,
                             !.complete = complete]
  BY DEF PlanReplay
<1> HIDE DEF start, spans
<1>7. /\ query'.pc = "replay" /\ query'.spans = spans /\ query'.at = at
      /\ query'.complete = complete /\ query'.endpoint = query.endpoint
      /\ query'.follow = query.follow
  <2> HIDE DEF at, complete
  <2>1. QED
    BY <1>2, <1>6 DEF Queries
<1>8. client.out = <<>> /\ client.first \in Int
  BY <1>0, <1>1 DEF Player, Written, QueryTypes, Clients
<1>9. Covered'
  <2>1. Stop' = Stop /\ Stop \in Nat
    BY <1>1, <1>2, <1>7 DEF Stop
  <2>2. Ran' = {} /\ Low' = client.first
    BY <1>1, <1>8 DEF Ran, Low
  <2>3. CASE spans = <<>>
    <3>1. complete => client.first >= Stop
      BY <1>2, <1>4, <2>3
    <3>2. complete => Low'..(Stop' - 1) = {}
      BY <1>8, <2>1, <2>2, <3>1
    <3>3. QED
      BY <1>5, <1>7, <2>2, <2>3, <3>2 DEF Covered
  <2>4. CASE spans # <<>>
    <3>1. complete => spans[Len(spans)].end = Stop
      BY <1>4, <2>4 DEF Stop
    <3>2. Piece1' = spans[1] /\ at = spans[1].start
      BY <1>7, <2>4 DEF Piece1
    <3>3. client'.out = <<>> /\ client'.first = client.first
      BY <1>1, <1>8
    <3> HIDE DEF at
    <3>4. complete => Gapless(spans)
      OBVIOUS
    <3> HIDE DEF complete
    <3>5. QED
      BY <1>4, <1>5, <1>7, <2>1, <2>4, <3>1, <3>2, <3>3, <3>4 DEF Covered
  <2>5. QED
    BY <2>3, <2>4
<1>10. Asked'
  BY <1>7 DEF Asked
<1>11. Followed'
  BY <1>1, <1>7 DEF Outcome, Followed
<1>12. Told'
  BY <1>1 DEF Outcome, Told
<1>13. QED
  BY <1>9, <1>10, <1>11, <1>12 DEF Outcome

\* One more byte.
LEMMA RanGrows ==
  ASSUME QueryTypes, NEW n \in Int,
         client' = [client EXCEPT !.out = Append(@, n)]
  PROVE  /\ Ran' = Ran \cup {n} /\ client'.out # <<>>
         /\ client'.out[1] = IF client.out = <<>> THEN n ELSE client.out[1]
         /\ client'.first = client.first /\ client'.result = client.result
         /\ client.out = <<>> => Ran = {}
         /\ client.out # <<>> => client.out[1] \in Int
         /\ client.first \in Int
<1>1. /\ client \in Clients /\ client.out \in Seq(Int)
      /\ client.first \in Int
  BY DEF QueryTypes, Clients
<1>2. /\ client'.out = Append(client.out, n)
      /\ client'.first = client.first /\ client'.result = client.result
  BY <1>1 DEF Clients
<1>3. /\ Len(client.out) \in Nat /\ DOMAIN client.out = 1..Len(client.out)
      /\ (client.out = <<>> <=> Len(client.out) = 0)
      /\ \A k \in 1..Len(client.out) : client.out[k] \in Int
  BY <1>1, LenProperties, EmptySeq, ElementOfSeq
<1>4. /\ client'.out \in Seq(Int) /\ Len(client'.out) = Len(client.out) + 1
      /\ \A k \in 1..Len(client.out) : client'.out[k] = client.out[k]
      /\ client'.out[Len(client.out) + 1] = n
  BY <1>1, <1>2, AppendProperties
<1>5. /\ DOMAIN client'.out = 1..Len(client.out) + 1
      /\ client'.out # <<>>
  BY <1>3, <1>4, LenProperties, EmptySeq
<1>6. Ran' = Ran \cup {n}
  <2>1. ASSUME NEW x PROVE x \in Ran' <=> x \in Ran \cup {n}
    <3>1. x \in Ran' <=> \E k \in 1..Len(client.out) + 1 : x = client'.out[k]
      BY <1>5 DEF Ran
    <3>2. x \in Ran <=> \E k \in 1..Len(client.out) : x = client.out[k]
      BY <1>3 DEF Ran
    <3>3. \A k : k \in 1..Len(client.out) + 1 <=>
                    k \in 1..Len(client.out) \/ k = Len(client.out) + 1
      BY <1>3
    <3>4. QED
      BY <1>4, <3>1, <3>2, <3>3
  <2>2. QED
    BY <2>1
<1>7. client'.out[1] = IF client.out = <<>> THEN n ELSE client.out[1]
  <2>1. CASE client.out = <<>>
    BY <1>3, <1>4, <2>1
  <2>2. CASE client.out # <<>>
    <3>1. 1 \in 1..Len(client.out)
      BY <1>3, <2>2
    <3>2. QED
      BY <1>4, <2>2, <3>1
  <2>3. QED
    BY <2>1, <2>2
<1>8. client.out = <<>> => Ran = {}
  BY <1>3 DEF Ran
<1>9. client.out # <<>> => client.out[1] \in Int
  BY <1>3
<1>10. QED
  BY <1>1, <1>2, <1>5, <1>6, <1>7, <1>8, <1>9

\* A step of a replay: only what is covered has to be looked at.
LEMMA ReplayFrame ==
  ASSUME Outcome, UNCHANGED <<position, conf, broker, live>>,
         query.pc = "replay", query'.pc = "replay",
         query'.endpoint = query.endpoint, query'.follow = query.follow,
         client'.result = client.result, Covered'
  PROVE  Outcome'
<1>1. client.result # "ok"
  BY DEF Outcome, Told
<1>2. Followed'
  BY DEF Outcome, Followed
<1>3. QED
  BY <1>1, <1>2 DEF Outcome, Asked, Told

LEMMA ByteKeepsOutcome ==
  ASSUME Player, Outcome, UNCHANGED <<position, conf, broker, live>>,
         query.pc = "replay", query.spans # <<>>, Piece1.kind # "missing",
         query' = [query EXCEPT !.at = @ + 1],
         client' = [client EXCEPT !.out = Append(@, query.at)]
  PROVE  Outcome'
<1>1. QueryTypes /\ query \in Queries /\ query.at \in Int
  BY DEF Player, QueryTypes, Queries
<1>2. /\ query'.spans = query.spans /\ query'.pc = query.pc
      /\ query'.at = query.at + 1 /\ query'.endpoint = query.endpoint
      /\ query'.follow = query.follow /\ query'.complete = query.complete
  BY <1>1 DEF Queries
<1>3. /\ Ran' = Ran \cup {query.at} /\ client'.out # <<>>
      /\ client'.out[1] = IF client.out = <<>> THEN query.at
                          ELSE client.out[1]
      /\ client'.first = client.first /\ client'.result = client.result
      /\ client.out = <<>> => Ran = {}
      /\ client.out # <<>> => client.out[1] \in Int
      /\ client.first \in Int
  BY <1>1, RanGrows
<1>4. client.out # <<>> => client.out[1] < query.at
  <2>1. OutBefore(query.at)
    BY DEF Player, Written
  <2>2. client.out # <<>> => 1 \in 1..Len(client.out)
    <3>1. client.out \in Seq(Int)
      BY <1>1 DEF QueryTypes, Clients
    <3>2. QED
      BY <3>1, EmptySeq
  <2>3. QED
    BY <2>1, <2>2 DEF OutBefore
<1>5. Stop' = Stop /\ Piece1' = Piece1
  BY <1>2 DEF Stop, Recording, Piece1
<1>6. query.complete =>
         /\ client'.out[1] <= client'.first
         /\ Ran' = client'.out[1]..(query'.at - 1)
  <2> SUFFICES ASSUME query.complete
               PROVE  /\ client'.out[1] <= client'.first
                      /\ Ran' = client'.out[1]..(query'.at - 1)
    OBVIOUS
  <2>1. IF client.out = <<>> THEN query.at <= client.first
        ELSE /\ client.out[1] <= client.first
             /\ Ran = client.out[1]..(query.at - 1)
    BY DEF Outcome, Covered
  <2>2. CASE client.out = <<>>
    <3>1. Ran' = {query.at} /\ client'.out[1] = query.at
      BY <1>3, <2>2
    <3>2. query.at..query.at = {query.at} /\ query'.at - 1 = query.at
      BY <1>1, <1>2
    <3>3. client'.out[1] <= client'.first
      BY <1>3, <2>1, <2>2, <3>1
    <3>4. Ran' = client'.out[1]..(query'.at - 1)
      BY <3>1, <3>2
    <3>5. QED
      BY <3>3, <3>4
  <2>3. CASE client.out # <<>>
    <3> DEFINE a == client.out[1]
    <3>1. a \in Int /\ a < query.at /\ client'.out[1] = a
      BY <1>3, <1>4, <2>3
    <3>2. Ran = a..(query.at - 1)
      BY <2>1, <2>3
    <3>3. a <= client'.first
      BY <1>3, <2>1, <2>3
    <3> HIDE DEF a
    <3>4. (a..(query.at - 1)) \cup {query.at} = a..(query.at + 1 - 1)
      BY <1>1, <3>1
    <3>5. Ran' = a..(query.at + 1 - 1)
      BY <1>3, <3>2, <3>4
    <3>6. query'.at - 1 = query.at + 1 - 1
      BY <1>1, <1>2
    <3>7. Ran' = a..(query'.at - 1)
      BY <3>5, <3>6
    <3>8. QED
      BY <3>1, <3>3, <3>7
  <2>4. QED
    BY <2>2, <2>3
<1>7. Covered'
  BY <1>2, <1>3, <1>5, <1>6 DEF Outcome, Covered
<1>8. QED
  BY <1>2, <1>3, <1>7, ReplayFrame

LEMMA PieceKeepsOutcome ==
  ASSUME Player, Outcome, UNCHANGED <<position, conf, broker, live>>,
         query.pc = "replay", query.spans # <<>>,
         \/ query' = SkipPiece /\ UNCHANGED client
         \/ /\ query' = NextPiece /\ Piece1.kind # "missing"
            /\ query.at + 1 = Piece1.end
            /\ client' = [client EXCEPT !.out = Append(@, query.at)]
  PROVE  Outcome'
<1> DEFINE left == Tail(query.spans)
           at == IF Len(query.spans) > 1 THEN query.spans[2].start
                 ELSE query.at
<1>1. /\ query.at \in Int /\ query.spans \in Seq(Pieces)
      /\ Len(query.spans) \in Nat /\ Len(query.spans) > 0
      /\ \A k \in 1..Len(query.spans) :
            /\ query.spans[k] \in Pieces
            /\ query.spans[k].start \in Int /\ query.spans[k].end \in Int
      /\ QueryTypes /\ query \in Queries
  <2>1. /\ query.at \in Int /\ query.spans \in Seq(Pieces)
        /\ Len(query.spans) \in Nat /\ Len(query.spans) > 0
        /\ \A k \in 1..Len(query.spans) : query.spans[k] \in Pieces
        /\ QueryTypes /\ query \in Queries
    BY QueryIsTyped DEF Player, QueryTypes, Queries
  <2>2. QED
    BY <2>1 DEF Pieces
<1>2. /\ left \in Seq(Pieces) /\ Len(left) = Len(query.spans) - 1
      /\ \A k \in 1..Len(left) : left[k] = query.spans[k + 1]
      /\ (left = <<>> <=> Len(left) = 0)
  <2>1. /\ left \in Seq(Pieces) /\ Len(left) = Len(query.spans) - 1
        /\ \A k \in 1..Len(left) : left[k] = query.spans[k + 1]
    BY <1>1, HeadTailProperties
  <2> HIDE DEF left
  <2>2. QED
    BY <2>1, EmptySeq, LenProperties
<1>3. at \in Int
  BY <1>1
<1> HIDE DEF left, at
<1>4. /\ query'.spans = left /\ query'.at = at
      /\ query'.pc = "replay" /\ query'.endpoint = query.endpoint
      /\ query'.follow = query.follow
      /\ query' = SkipPiece => ~query'.complete
      /\ query' = NextPiece => query'.complete = query.complete
  <2> DEFINE next == [query EXCEPT !.spans = left, !.at = at]
  <2>1. NextPiece = next
    BY DEF NextPiece, left, at
  <2>2. /\ next \in Queries /\ next.spans = left /\ next.at = at
        /\ next.pc = "replay" /\ next.endpoint = query.endpoint
        /\ next.follow = query.follow /\ next.complete = query.complete
    BY <1>1, <1>2, <1>3 DEF Queries
  <2>3. query' = next \/ query' = [next EXCEPT !.complete = FALSE]
    BY <2>1 DEF SkipPiece
  <2>4. /\ SkipPiece = [next EXCEPT !.complete = FALSE]
    BY <2>1 DEF SkipPiece
  <2> HIDE DEF next
  <2>5. SkipPiece.complete = FALSE
    BY <2>2, <2>4 DEF Queries
  <2>6. QED
    BY <2>1, <2>2, <2>3, <2>5 DEF Queries
<1>5. \A k \in 2..Len(left) : left[k].kind # "missing"
  <2>1. \A k \in 2..Len(query.spans) : query.spans[k].kind # "missing"
    BY DEF Outcome, Covered
  <2>2. \A k \in 2..Len(left) : /\ left[k] = query.spans[k + 1]
                                /\ k + 1 \in 2..Len(query.spans)
    BY <1>1, <1>2
  <2>3. QED
    BY <2>1, <2>2
<1>6. CASE query' = SkipPiece /\ UNCHANGED client
  <2>1. Covered'
    BY <1>4, <1>5, <1>6 DEF Covered
  <2>2. QED
    BY <1>4, <1>6, <2>1, ReplayFrame
<1>7. CASE /\ query' = NextPiece /\ Piece1.kind # "missing"
           /\ query.at + 1 = Piece1.end
           /\ client' = [client EXCEPT !.out = Append(@, query.at)]
  <2>1. /\ Ran' = Ran \cup {query.at} /\ client'.out # <<>>
        /\ client'.out[1] = IF client.out = <<>> THEN query.at
                            ELSE client.out[1]
        /\ client'.first = client.first /\ client'.result = client.result
        /\ client.out = <<>> => Ran = {}
        /\ client.out # <<>> => client.out[1] \in Int
        /\ client.first \in Int
    BY <1>1, <1>7, RanGrows
  <2>2. client.out # <<>> => client.out[1] < query.at
    <3>1. OutBefore(query.at)
      BY DEF Player, Written
    <3>2. client.out # <<>> => 1 \in 1..Len(client.out)
      <4>1. client.out \in Seq(Int)
        BY <1>1 DEF QueryTypes, Clients
      <4>2. QED
        BY <4>1, EmptySeq
    <3>3. QED
      BY <3>1, <3>2 DEF OutBefore
  <2>3. ASSUME query.complete
        PROVE  /\ client'.out[1] <= client'.first /\ client'.out[1] \in Int
               /\ Ran' = client'.out[1]..(Piece1.end - 1)
    <3>1. IF client.out = <<>> THEN query.at <= client.first
          ELSE /\ client.out[1] <= client.first
               /\ Ran = client.out[1]..(query.at - 1)
      BY <1>7, <2>3 DEF Outcome, Covered
    <3>2. Piece1.end - 1 = query.at
      BY <1>1, <1>7
    <3>3. CASE client.out = <<>>
      <4>1. Ran' = {query.at} /\ client'.out[1] = query.at
        BY <2>1, <3>3
      <4>2. query.at..query.at = {query.at}
        BY <1>1
      <4>3. QED
        BY <1>1, <2>1, <3>1, <3>2, <3>3, <4>1, <4>2
    <3>4. CASE client.out # <<>>
      <4> DEFINE a == client.out[1]
      <4>1. a \in Int /\ a < query.at /\ client'.out[1] = a
        BY <2>1, <2>2, <3>4
      <4>2. Ran = a..(query.at - 1) /\ a <= client'.first
        BY <2>1, <3>1, <3>4
      <4> HIDE DEF a
      <4>3. (a..(query.at - 1)) \cup {query.at} = a..query.at
        BY <1>1, <4>1
      <4>4. QED
        BY <2>1, <3>2, <4>1, <4>2, <4>3
    <3>5. QED
      BY <3>3, <3>4
  <2>4. query.complete => /\ Gapless(query.spans)
                          /\ query.spans[Len(query.spans)].end = Stop
    BY DEF Outcome, Covered
  <2>5. Stop' = Stop
    BY <1>4 DEF Stop, Recording
  <2>6. CASE left = <<>>
    <3>1. Len(query.spans) = 1
      BY <1>1, <1>2, <2>6
    <3>2. query.complete => Piece1.end = Stop
      BY <2>4, <3>1 DEF Piece1
    <3>3. query.complete => Low' = client'.out[1]
      BY <2>1, <2>3 DEF Low, Least
    <3>4. query.complete => Ran' = Low'..(Stop' - 1)
      BY <2>3, <2>5, <3>2, <3>3
    <3>5. Covered'
      BY <1>4, <1>5, <1>7, <2>6, <3>4 DEF Covered
    <3>6. QED
      BY <1>4, <2>1, <3>5, ReplayFrame
  <2>7. CASE left # <<>>
    <3>1. /\ Len(query.spans) > 1 /\ Len(left) > 0
          /\ Len(query.spans) - 1 \in 1..Len(left)
          /\ 2 \in 2..Len(query.spans)
      BY <1>1, <1>2, <2>7
    <3>2. at = query.spans[2].start
      BY <3>1 DEF at
    <3>3. query.complete => Piece1.end = at
      <4>1. Gapless(query.spans) => query.spans[2 - 1].end
                                       = query.spans[2].start
        BY <3>1 DEF Gapless
      <4>2. 2 - 1 = 1
        OBVIOUS
      <4>3. QED
        BY <2>4, <3>2, <4>1, <4>2 DEF Piece1
    <3>4. query.complete => Gapless(left)
      <4> SUFFICES ASSUME query.complete, NEW k \in 2..Len(left)
                   PROVE  left[k-1].end = left[k].start
        BY DEF Gapless
      <4>1. /\ left[k-1] = query.spans[k - 1 + 1]
            /\ left[k] = query.spans[k + 1]
            /\ k + 1 \in 2..Len(query.spans)
        <5>1. k - 1 \in 1..Len(left) /\ k \in 1..Len(left)
          BY <1>2
        <5>2. QED
          BY <1>1, <1>2, <5>1
      <4>2. query.spans[k + 1 - 1].end = query.spans[k + 1].start
        BY <2>4, <4>1 DEF Gapless
      <4>3. k + 1 - 1 = k /\ k - 1 + 1 = k
        OBVIOUS
      <4>4. QED
        BY <4>1, <4>2, <4>3
    <3>5. left[Len(left)] = query.spans[Len(query.spans)]
      <4>1. Len(left) \in 1..Len(left) /\ Len(left) + 1 = Len(query.spans)
        BY <1>1, <1>2, <3>1
      <4>2. left[Len(left)] = query.spans[Len(left) + 1]
        BY <1>2, <4>1
      <4>3. QED
        BY <4>1, <4>2
    <3>6. Covered'
      <4>1. query.complete =>
              /\ client'.out[1] <= client'.first
              /\ Ran' = client'.out[1]..(query'.at - 1)
        BY <1>4, <2>3, <3>3
      <4>2. query'.complete = query.complete
        BY <1>4, <1>7
      <4>3. query.complete => /\ Gapless(query'.spans)
                              /\ query'.spans[Len(query'.spans)].end = Stop'
        BY <1>4, <2>4, <2>5, <3>4, <3>5
      <4>4. \A k \in 2..Len(query'.spans) :
               query'.spans[k].kind # "missing"
        BY <1>4, <1>5
      <4>5. query'.pc = "replay" /\ query'.spans # <<>>
            /\ client'.out # <<>>
        BY <1>4, <2>1, <2>7
      <4>6. QED
        BY <4>1, <4>2, <4>3, <4>4, <4>5 DEF Covered
    <3>7. QED
      BY <1>4, <2>1, <3>6, ReplayFrame
  <2>8. QED
    BY <2>6, <2>7
<1>8. QED
  BY <1>6, <1>7

LEMMA MemoryKeepsOutcome ==
  ASSUME Player, Outcome, ReplayMemory
  PROVE  Outcome'
<1>1. /\ query.pc = "replay" /\ query.spans # <<>>
      /\ UNCHANGED <<position, conf, broker, live>>
  BY DEF ReplayMemory
<1>2. CASE query' = SkipPiece /\ UNCHANGED client
  BY <1>1, <1>2, PieceKeepsOutcome
<1>3. CASE /\ Piece1.kind # "missing"
           /\ client' = [client EXCEPT !.out = Append(@, query.at)]
           /\ query' = IF query.at + 1 = Piece1.end THEN NextPiece
                       ELSE [query EXCEPT !.at = @ + 1]
  <2>1. CASE query.at + 1 = Piece1.end
    BY <1>1, <1>3, <2>1, PieceKeepsOutcome
  <2>2. CASE query.at + 1 # Piece1.end
    BY <1>1, <1>3, <2>2, ByteKeepsOutcome
  <2>3. QED
    BY <2>1, <2>2
<1>4. QED
  BY <1>2, <1>3 DEF ReplayMemory

LEMMA EndReadKeepsOutcome ==
  ASSUME Player, Outcome, EndRead
  PROVE  Outcome'
<1>1. /\ rd.pc \in {"done", "unavailable"}
      /\ UNCHANGED <<position, conf, broker, live>>
  BY DEF EndRead
<1>2. /\ query.pc = "replay" /\ query.spans # <<>>
      /\ Piece1.kind # "missing"
  BY <1>1 DEF Player, Reading, PiecesInOrder
<1>3. CASE rd.pc = "unavailable"
  <2>1. query' = SkipPiece /\ UNCHANGED client
    BY <1>3 DEF EndRead
  <2>2. QED
    BY <1>1, <1>2, <2>1, PieceKeepsOutcome
<1>4. CASE rd.pc = "done"
  <2>1. rd.data = query.at
    BY <1>4 DEF Player, Reading
  <2>2. /\ client' = [client EXCEPT !.out = Append(@, query.at)]
        /\ query' = IF query.at + 1 = Piece1.end THEN NextPiece
                    ELSE [query EXCEPT !.at = @ + 1]
    BY <1>4, <2>1 DEF EndRead
  <2>3. CASE query.at + 1 = Piece1.end
    BY <1>1, <1>2, <2>2, <2>3, PieceKeepsOutcome
  <2>4. CASE query.at + 1 # Piece1.end
    BY <1>1, <1>2, <2>2, <2>4, ByteKeepsOutcome
  <2>5. QED
    BY <2>3, <2>4
<1>5. QED
  BY <1>1, <1>3, <1>4

LEMMA AtKeeps ==
  ASSUME QueryTypes, NEW pc \in {"live", "asked", "ended"}
  PROVE  /\ At(pc).pc = pc /\ At(pc).follow = query.follow
         /\ At(pc).endpoint = query.endpoint
<1>1. query.follow \in BOOLEAN /\ query.endpoint \in Nat
  BY DEF QueryTypes, Queries
<1>2. PICK q : q = NoQuery
  OBVIOUS
<1>3. q \in Queries
  BY <1>2, NoQueryIsTyped
<1>4. At(pc) = [q EXCEPT !.pc = pc, !.follow = query.follow,
                         !.endpoint = query.endpoint]
  BY <1>2 DEF At
<1>5. QED
  BY <1>1, <1>3, <1>4 DEF Queries

\* A query whose client has failed claims nothing.
LEMMA FailKeepsOutcome ==
  ASSUME Outcome, client' = FailedClient,
         query'.pc = "ended"
  PROVE  Outcome'
<1>1. client'.result # "ok"
  BY DEF FailedClient
<1>2. QED
  BY <1>1 DEF Outcome, Asked, Covered, Followed, Told

LEMMA EndedIsTyped == [NoQuery EXCEPT !.pc = "ended"].pc = "ended"
<1>1. PICK q : q = NoQuery
  OBVIOUS
<1>2. q \in Queries
  BY <1>1, NoQueryIsTyped
<1>3. [q EXCEPT !.pc = "ended"].pc = "ended"
  BY <1>2 DEF Queries
<1>4. QED
  BY <1>1, <1>3

LEMMA BreakKeepsOutcome ==
  ASSUME Outcome, PeerBreaks
  PROVE  Outcome'
<1>1. client' = FailedClient /\ query'.pc = "ended"
  BY EndedIsTyped DEF PeerBreaks
<1>2. QED
  BY <1>1, FailKeepsOutcome

\* What a client has written when it is told that it has succeeded.
LEMMA ToldHolds ==
  ASSUME query'.pc = "ended", conf'.mode # "unset",
         query'.follow =>
            /\ broker'.drains = "ended" /\ ~live'.on
            /\ live'.from = query'.at /\ live'.to = position'
            /\ Ran' = (Low'..(Stop' - 1))
                         \cup (query'.endpoint..(query'.at - 1)),
         ~query'.follow => Ran' = Low'..(Stop' - 1)
  PROVE  Told'
<1>1. Stop' - 1 = IF Recording' THEN query'.endpoint - 1 ELSE -1
  BY DEF Stop
<1>2. Ran' = (Low'..(IF Recording' THEN query'.endpoint - 1 ELSE -1))
               \cup (IF query'.follow THEN query'.endpoint..(query'.at - 1)
                     ELSE {})
  BY <1>1
<1>3. SuccessIsComplete'
  BY <1>2 DEF SuccessIsComplete, Ran, Low
<1>4. QED
  BY <1>3 DEF Told

LEMMA EndReplayKeepsOutcome ==
  ASSUME Player, Outcome, EndReplay
  PROVE  Outcome'
<1>1. /\ query.pc = "replay" /\ query.spans = <<>> /\ QueryTypes
      /\ UNCHANGED <<position, hist, conf, broker>>
      /\ client \in Clients /\ query.endpoint \in Nat
      /\ query.follow \in BOOLEAN /\ conf.mode # "unset"
  BY DEF EndReplay, Player, QueryTypes, Queries, PiecesInOrder
<1>2. CASE ~query.complete
  BY <1>2, EndedIsTyped, FailKeepsOutcome DEF EndReplay
<1>3. CASE query.complete
  <2> DEFINE pc == IF query.follow THEN "live" ELSE "ended"
             result == IF query.follow THEN "none" ELSE "ok"
  <2>1. /\ query' = At(pc) /\ client' = [client EXCEPT !.result = result]
        /\ UNCHANGED live
    BY <1>3 DEF EndReplay
  <2>2. /\ query'.pc = pc /\ query'.follow = query.follow
        /\ query'.endpoint = query.endpoint
    BY <1>1, <2>1, AtKeeps
  <2>3. /\ client'.out = client.out /\ client'.first = client.first
        /\ client'.result = result
    <3> HIDE DEF result
    <3>1. QED
      BY <1>1, <2>1 DEF Clients
  <2>4. Ran' = Ran /\ Low' = Low /\ Stop' = Stop
    BY <1>1, <2>2, <2>3 DEF Ran, Low, Stop, Recording
  <2>5. Ran = Low..(Stop - 1)
    BY <1>1, <1>3 DEF Outcome, Covered
  <2>6. Asked'
    BY <2>2 DEF Asked
  <2>7. CASE query.follow
    <3>1. live.from = query.endpoint /\ query.endpoint..(live.from - 1) = {}
      <4>1. live.from = query.endpoint
        BY <1>1, <2>7 DEF Player, Written
      <4>2. query.endpoint..(query.endpoint - 1) = {}
        BY <1>1
      <4>3. QED
        BY <4>1, <4>2
    <3>2. query'.pc = "live" /\ client'.result = "none"
      BY <2>2, <2>3, <2>7
    <3>3. Covered'
      BY <2>1, <2>2, <2>4, <2>5, <3>1, <3>2 DEF Covered
    <3>4. Followed'
      BY <1>1, <2>1, <2>2, <2>7 DEF Outcome, Followed
    <3>5. Told'
      BY <3>2 DEF Told
    <3>6. QED
      BY <2>6, <3>3, <3>4, <3>5 DEF Outcome
  <2>8. CASE ~query.follow
    <3>1. query'.pc = "ended" /\ ~query'.follow
      BY <2>2, <2>8
    <3>2. Covered' /\ Followed'
      BY <3>1 DEF Covered, Followed
    <3>3. Told'
      <4>1. Ran' = Low'..(Stop' - 1)
        BY <2>4, <2>5
      <4>2. conf'.mode # "unset"
        BY <1>1
      <4>3. QED
        BY <3>1, <4>1, <4>2, ToldHolds
    <3>4. QED
      BY <2>6, <3>2, <3>3 DEF Outcome
  <2>9. QED
    BY <2>7, <2>8
<1>4. QED
  BY <1>2, <1>3

\* A range grows at its end.
LEMMA RangeGrows ==
  ASSUME NEW a \in Int, NEW b \in Int, a <= b
  PROVE  (a..(b - 1)) \cup {b} = a..(b + 1 - 1)
OBVIOUS

LEMMA ReceiveKeepsOutcome ==
  ASSUME Player, Outcome, ReceiveLive
  PROVE  Outcome'
<1>1. /\ query.pc = "live" /\ UNCHANGED <<position, hist, conf, broker>>
      /\ QueryTypes /\ client \in Clients /\ query.endpoint \in Nat
      /\ live \in Lives /\ live.from \in Nat /\ live.to \in Nat
      /\ client.first \in Int /\ conf.mode # "unset"
  BY DEF ReceiveLive, Player, QueryTypes, Queries, PiecesInOrder, Lives,
         Clients
<1>2. /\ query.follow /\ query.endpoint <= live.from /\ live.from <= live.to
      /\ live.on => live.to = position /\ live.reason = "none"
      /\ live.reason = "broker_closed" =>
            live.to = position /\ broker.drains = "ended"
      /\ Ran = (Low..(Stop - 1)) \cup (query.endpoint..(live.from - 1))
  BY <1>1 DEF Outcome, Covered, Followed
<1>3. CASE live.from < live.to
  <2>1. /\ client' = [client EXCEPT !.out = Append(@, live.from)]
        /\ live' = [live EXCEPT !.from = @ + 1] /\ UNCHANGED query
    BY <1>3 DEF ReceiveLive
  <2>2. /\ live'.from = live.from + 1 /\ live'.to = live.to
        /\ live'.on = live.on /\ live'.reason = live.reason
    BY <1>1, <2>1 DEF Lives
  <2>3. /\ Ran' = Ran \cup {live.from} /\ client'.out # <<>>
        /\ client'.out[1] = IF client.out = <<>> THEN live.from
                            ELSE client.out[1]
        /\ client'.first = client.first /\ client'.result = client.result
        /\ client.out = <<>> => Ran = {}
    <3>1. \A n \in Int :
             client' = [client EXCEPT !.out = Append(@, n)] =>
               /\ Ran' = Ran \cup {n} /\ client'.out # <<>>
               /\ client'.out[1] = IF client.out = <<>> THEN n
                                   ELSE client.out[1]
               /\ client'.first = client.first
               /\ client'.result = client.result
               /\ client.out = <<>> => Ran = {}
      BY <1>1, RanGrows
    <3>2. live.from \in Int
      BY <1>1
    <3>3. QED
      BY <2>1, <3>1, <3>2
  <2>4. Stop' = Stop /\ Stop \in Nat /\ Stop <= query.endpoint
    BY <1>1, <2>1 DEF Stop, Recording
  <2>5. Low'..(Stop - 1) = Low..(Stop - 1)
    <3>1. CASE client.out = <<>>
      <4>1. Low = client.first /\ Low' = Least(client.first, live.from)
        BY <2>3, <3>1 DEF Low
      <4>2. Low..(Stop - 1) = {}
        BY <1>2, <2>3, <3>1
      <4>3. client.first > Stop - 1
        <5>1. client.first <= Stop - 1 => client.first \in Low..(Stop - 1)
          BY <1>1, <2>4, <4>1
        <5>2. QED
          BY <1>1, <2>4, <4>2, <5>1
      <4>4. Low' \in Int /\ Low' > Stop - 1
        BY <1>1, <1>2, <2>4, <4>1, <4>3 DEF Least
      <4>5. Low'..(Stop - 1) = {}
        BY <2>4, <4>4
      <4>6. QED
        BY <4>2, <4>5
    <3>2. CASE client.out # <<>>
      BY <2>3, <3>2 DEF Low
    <3>3. QED
      BY <3>1, <3>2
  <2>6. (query.endpoint..(live.from - 1)) \cup {live.from}
           = query.endpoint..(live'.from - 1)
    <3>1. query.endpoint \in Int /\ live.from \in Int
      BY <1>1
    <3>2. QED
      BY <1>2, <2>2, <3>1, RangeGrows
  <2>7. Ran' = (Low'..(Stop' - 1)) \cup (query.endpoint..(live'.from - 1))
    BY <1>2, <2>3, <2>4, <2>5, <2>6
  <2>8. query'.pc = "live" /\ query'.endpoint = query.endpoint
        /\ query'.follow = query.follow
    BY <1>1, <2>1
  <2>9. Covered'
    BY <2>7, <2>8 DEF Covered
  <2>10. Followed'
    BY <1>1, <1>2, <1>3, <2>2, <2>8 DEF Followed
  <2>11. client'.result # "ok"
    BY <1>1, <2>3 DEF Outcome, Told
  <2>12. QED
    BY <2>8, <2>9, <2>10, <2>11 DEF Outcome, Asked, Told
<1>4. CASE ~(live.from < live.to)
  <2>1. /\ query' = [At("asked") EXCEPT !.at = position]
        /\ UNCHANGED <<client, live>>
    BY <1>4 DEF ReceiveLive
  <2>2. /\ query'.pc = "asked" /\ query'.follow = query.follow
        /\ query'.endpoint = query.endpoint /\ query'.at = position
    <3>1. PICK q : q = At("asked")
      OBVIOUS
    <3>2. /\ q \in Queries /\ q.pc = "asked" /\ q.follow = query.follow
          /\ q.endpoint = query.endpoint
      BY <1>1, <3>1, AtIsTyped, AtKeeps
    <3>3. query' = [q EXCEPT !.at = position]
      BY <2>1, <3>1
    <3>4. QED
      BY <3>2, <3>3 DEF Queries
  <2>3. Ran' = Ran /\ Low' = Low /\ Stop' = Stop
    BY <1>1, <2>1, <2>2 DEF Ran, Low, Stop, Recording
  <2>4. Covered'
    BY <1>2, <2>1, <2>2, <2>3 DEF Covered
  <2>5. Followed'
    <3>1. live.from = live.to
      BY <1>1, <1>2, <1>4
    <3>2. live.on \/ live.reason = "broker_closed" => position = live.from
      BY <1>2, <3>1
    <3>3. UNCHANGED <<live, position, broker>>
      BY <1>1, <2>1
    <3>4. QED
      BY <1>2, <2>2, <3>2, <3>3 DEF Followed
  <2>6. client'.result # "ok"
    BY <1>1, <2>1 DEF Outcome, Told
  <2>7. QED
    BY <2>2, <2>4, <2>5, <2>6 DEF Outcome, Asked, Told
<1>5. QED
  BY <1>3, <1>4

LEMMA LookKeepsOutcome ==
  ASSUME Player, Outcome, LookReason
  PROVE  Outcome'
<1>1. /\ query.pc = "asked"
      /\ UNCHANGED <<position, hist, conf, broker, live>>
      /\ QueryTypes /\ query \in Queries /\ client \in Clients
      /\ conf.mode # "unset"
  BY DEF LookReason, Player, QueryTypes, PiecesInOrder
<1>2. /\ query.follow /\ query.endpoint <= live.from /\ live.from <= live.to
      /\ live.on => live.to = position /\ live.reason = "none"
      /\ live.reason = "broker_closed" =>
            /\ live.to = position /\ broker.drains = "ended"
            /\ query.at = live.from
      /\ Ran = (Low..(Stop - 1)) \cup (query.endpoint..(live.from - 1))
      /\ client.result # "ok"
  BY <1>1 DEF Outcome, Covered, Followed, Told
<1>3. CASE live.reason = "none"
  <2>1. query' = At("live") /\ UNCHANGED client
    BY <1>3 DEF LookReason
  <2>2. /\ query'.pc = "live" /\ query'.follow = query.follow
        /\ query'.endpoint = query.endpoint
    BY <1>1, <2>1, AtKeeps
  <2>3. Ran' = Ran /\ Low' = Low /\ Stop' = Stop
    BY <1>1, <2>1, <2>2 DEF Ran, Low, Stop, Recording
  <2>4. Covered' /\ Followed'
    BY <1>1, <1>2, <2>2, <2>3 DEF Covered, Followed
  <2>5. QED
    BY <1>2, <2>1, <2>2, <2>4 DEF Outcome, Asked, Told
<1>4. CASE live.reason = "broker_closed"
  <2>1. /\ query' = [query EXCEPT !.pc = "ended"]
        /\ client' = [client EXCEPT !.result = "ok"]
    BY <1>4 DEF LookReason
  <2>2. client'.out = client.out /\ client'.first = client.first
    BY <1>1, <2>1 DEF Clients
  <2>3. /\ query'.pc = "ended" /\ query'.follow = query.follow
        /\ query'.endpoint = query.endpoint /\ query'.at = query.at
    BY <1>1, <2>1 DEF Queries
  <2>4. Ran' = Ran /\ Low' = Low /\ Stop' = Stop
    BY <1>1, <2>2, <2>3 DEF Ran, Low, Stop, Recording
  <2>5. Ran' = (Low'..(Stop' - 1)) \cup (query'.endpoint..(query'.at - 1))
    BY <1>2, <1>4, <2>3, <2>4
  <2>6. /\ query'.follow /\ broker'.drains = "ended" /\ ~live'.on
        /\ live'.from = query'.at /\ live'.to = position'
        /\ conf'.mode # "unset"
    BY <1>1, <1>2, <1>4, <2>3
  <2>7. Told'
    BY <2>3, <2>5, <2>6, ToldHolds
  <2>8. QED
    BY <2>3, <2>7 DEF Outcome, Asked, Covered, Followed
<1>5. CASE live.reason \notin {"none", "broker_closed"}
  <2>1. query' = At("ended") /\ client' = FailedClient
    BY <1>5 DEF LookReason
  <2>2. query'.pc = "ended"
    BY <1>1, <2>1, AtKeeps
  <2>3. QED
    BY <2>1, <2>2, FailKeepsOutcome
<1>6. QED
  BY <1>3, <1>4, <1>5

LEMMA StepOutcome ==
  LogInv /\ Counts /\ Retention /\ Outcome /\ [Next]_vars => Outcome'
<1> SUFFICES ASSUME LogInv, Counts, Retention, Outcome, [Next]_vars
             PROVE  Outcome'
  OBVIOUS
<1>1. Player
  BY DEF LogInv
<1>2. BrokerTypes'
  BY StepRecorder DEF LogInv, Recorder
<1>3. CASE Subscribe
  BY <1>3, SubscribeKeepsOutcome
<1>4. CASE PlanReplay
  BY <1>4, PlanKeepsOutcome
<1>5. CASE ReplayMemory
  BY <1>1, <1>5, MemoryKeepsOutcome
<1>6. CASE EndRead
  BY <1>1, <1>6, EndReadKeepsOutcome
<1>7. CASE EndReplay
  BY <1>1, <1>7, EndReplayKeepsOutcome
<1>8. CASE ReceiveLive \/ LookReason
  BY <1>1, <1>8, ReceiveKeepsOutcome, LookKeepsOutcome
<1>9. CASE PeerBreaks
  BY <1>9, BreakKeepsOutcome
<1>10. CASE \/ Publish \/ DrainFails \/ BeginClose \/ CloseWriter
            \/ CloseFollowers \/ Configure \/ OpenStore \/ Attach
            \/ StartRead \/ ReadOld \/ (Write /\ UNCHANGED brokerVars)
            \/ (Read /\ UNCHANGED brokerVars) \/ UNCHANGED vars
  BY <1>2, <1>10, QuietKeepsOutcome
<1>11. QED
  BY <1>3, <1>4, <1>5, <1>6, <1>7, <1>8, <1>9, <1>10 DEF Next

LEMMA StepComplete ==
  ASSUME MaxFiles > 1
  PROVE  LogInv /\ CompleteInv /\ [Next]_vars => CompleteInv'
BY StepCounts, StepRetention, StepOutcome DEF CompleteInv

\* For any sizes, where more than one file is kept: a client that succeeds has
\* written all there was when it asked, from the oldest byte retained then,
\* and, if it follows, all that was published until its queue was last found
\* empty, and what the queue holds at the end is the rest, whatever is rotated
\* or evicted meanwhile (logging.py:486, 113, 128, 316).
THEOREM SuccessMissesNothing ==
  ASSUME MaxFiles > 1
  PROVE  Spec => []SuccessIsComplete
<1>1. Init => CompleteInv
  BY InitCounts, InitOutcome DEF CompleteInv
<1>2. LogInv /\ CompleteInv /\ [Next]_vars => CompleteInv'
  BY StepComplete
<1>3. CompleteInv => SuccessIsComplete
  <2>1. client.result # "ok" => SuccessIsComplete
    BY DEF SuccessIsComplete
  <2>2. QED
    BY <2>1 DEF CompleteInv, Outcome, Told
<1>4. Spec => []LogInv
  BY LogInvariant
<1>5. QED
  BY <1>1, <1>2, <1>3, <1>4, PTL DEF Spec

-----------------------------------------------------------------------------
(* 10. The limits.                                                         *)

\* A file is no longer than it may be, there are no more than there may be,
\* and each begins where the one before it ends, but for old bytes.
Limits ==
    /\ Count <= MaxFiles
    /\ \A k \in 1..Count : Entry(k).end - Entry(k).start <= FileSize
    /\ \A k \in 2..Count : Entry(k).start > 0 /\ Entry(k-1).end > 0 =>
                              Entry(k-1).end = Entry(k).start
    /\ Count > 0 /\ (writer.pc \notin {"none", "ended"} \/ conf.pc = "attach")
          => Entry(Count).end = store.acked
    /\ ~store.open => content[1].len <= FileSize

\* What memory and the follower hold.
Buffers ==
    /\ conf.mode = "unset" => hist.end - hist.start <= BootSize
    /\ conf.mode = "none" => hist.start = hist.end
    /\ live.from <= live.to /\ live.to - live.from <= FollowerSize
    /\ live.on => live.to = position /\ live.reason = "none"

LimitInv == Counts /\ Limits /\ Buffers

-----------------------------------------------------------------------------

LEMMA StoreIsTyped ==
  ASSUME Catalog
  PROVE  /\ StoreTypes /\ store \in Stores /\ store.acked \in Nat
         /\ store.seq \in Nat /\ store.spans \in Seq(Entries)
         /\ Count \in Nat /\ DOMAIN store.spans = 1..Count
         /\ Len(store.spans) = Count
         /\ \A k \in 1..Count : /\ Entry(k) \in Entries
                                /\ Entry(k).start \in Int
                                /\ Entry(k).end \in Int
  BY SpansAreTyped DEF Catalog, StoreTypes, Stores, Count

\* The effects of the writer on what the catalog says.
LEMMA UpdateEffect ==
  ASSUME Catalog, BrokerTypes, UpdateCatalog
  PROVE  /\ Count > 0 /\ Count' = Count /\ store'.acked = store.acked
         /\ store'.open = store.open /\ writer'.pc = "evict"
         /\ \A k \in 1..Count : /\ Entry(k)'.start = Entry(k).start
                                /\ Entry(k)'.end = Entry(k).end
<1>1. /\ StoreTypes /\ store \in Stores /\ Count \in Nat
      /\ store.spans \in Seq(Entries) /\ Len(store.spans) = Count
      /\ \A k \in 1..Count : Entry(k) \in Entries
      /\ writer.pc = "catalog"
  BY StoreIsTyped DEF UpdateCatalog
<1>2. Count > 0 /\ Active = Entry(Count)
  BY <1>1 DEF Catalog, Catalogued, Active, Entry, Count
<1> DEFINE r == store.rotating
           s == [store.spans EXCEPT ![Count] = r]
<1>3. /\ r \in Entries /\ r.start = Active.start /\ r.end = Active.end
  <2>1. r = [Active EXCEPT !.name = store.seq] /\ store.seq \in Nat
    BY <1>1 DEF Catalog, Catalogued, Stores
  <2>2. Entry(Count) \in Entries
    BY <1>1, <1>2
  <2>3. QED
    BY <1>2, <2>1, <2>2 DEF Entries
<1>4. /\ writer'.pc = "evict" /\ store'.acked = store.acked
      /\ store'.spans = s /\ store'.open = store.open
  BY <1>1 DEF UpdateCatalog, GoWriter, BrokerTypes, Stores
<1> HIDE DEF r
<1>5. /\ Len(s) = Count /\ s[Count] = r
      /\ \A k \in 1..Count : k # Count => s[k] = Entry(k)
  BY <1>1, <1>2, <1>3, ExceptSeq, LenProperties DEF Entry
<1> HIDE DEF s
<1>6. Count' = Count /\ \A k \in 1..Count : Entry(k)' = s[k]
  BY <1>4, <1>5 DEF Count, Entry
<1>7. QED
  BY <1>2, <1>3, <1>4, <1>5, <1>6

LEMMA DropEffect ==
  ASSUME Catalog, BrokerTypes, DropSpan
  PROVE  /\ Count > 0 /\ Count' = Count - 1 /\ store'.acked = store.acked
         /\ store'.open = store.open /\ writer'.pc = "evict"
         /\ \A k \in 1..Count - 1 : Entry(k)' = Entry(k + 1)
<1>1. /\ StoreTypes /\ store \in Stores /\ Count \in Nat
      /\ store.spans \in Seq(Entries) /\ Len(store.spans) = Count
      /\ writer.pc = "drop"
  BY StoreIsTyped DEF DropSpan
<1>2. Count > 0
  BY <1>1 DEF Catalog, Catalogued
<1> DEFINE s == Tail(store.spans)
<1>3. /\ writer'.pc = "evict" /\ store'.acked = store.acked
      /\ store'.spans = s /\ store'.open = store.open
  BY <1>1 DEF DropSpan, GoWriter, BrokerTypes, Stores
<1>4. /\ Len(s) = Count - 1
      /\ \A k \in 1..Count - 1 : s[k] = Entry(k + 1)
  BY <1>1, <1>2, HeadTailProperties DEF Entry
<1> HIDE DEF s
<1>5. Count' = Count - 1 /\ \A k \in 1..Count - 1 : Entry(k)' = s[k]
  BY <1>3, <1>4 DEF Count, Entry
<1>6. QED
  BY <1>2, <1>3, <1>4, <1>5

LEMMA CreateEffect ==
  ASSUME Catalog, BrokerTypes, NEW i \in FreeInodes,
         store' = [store EXCEPT !.spans =
                     Append(@, Span(0, i, store.acked, store.acked))]
  PROVE  /\ Count' = Count + 1 /\ store'.acked = store.acked
         /\ store'.open = store.open
         /\ \A k \in 1..Count : Entry(k)' = Entry(k)
         /\ Entry(Count)'.start = store.acked
         /\ Entry(Count)'.end = store.acked
<1>1. /\ StoreTypes /\ store \in Stores /\ Count \in Nat
      /\ store.acked \in Nat
      /\ store.spans \in Seq(Entries) /\ Len(store.spans) = Count
      /\ MaxInode \in Nat
  BY StoreIsTyped, StorageBounds
<1> DEFINE e == Span(0, i, store.acked, store.acked)
           s == Append(store.spans, e)
<1>2. /\ e \in Entries /\ e.start = store.acked /\ e.end = store.acked
  BY <1>1 DEF Span, Entries, FreeInodes
<1>3. /\ store'.acked = store.acked /\ store'.spans = s
      /\ store'.open = store.open
  BY <1>1 DEF Stores
<1> HIDE DEF e
<1>4. /\ Len(s) = Count + 1 /\ s[Count + 1] = e
      /\ \A k \in 1..Count : s[k] = Entry(k)
  BY <1>1, <1>2, AppendProperties DEF Entry
<1> HIDE DEF s
<1>5. /\ Count' = Count + 1 /\ Entry(Count)' = e
      /\ \A k \in 1..Count : Entry(k)' = Entry(k)
  BY <1>1, <1>3, <1>4 DEF Count, Entry
<1>6. QED
  BY <1>2, <1>3, <1>5

\* What changes no file's bounds keeps the limits.
LEMMA LimitsFrame ==
  ASSUME Catalog, Limits, store'.acked = store.acked,
         store'.open = store.open, Count' = Count,
         \A k \in 1..Count : /\ Entry(k)'.start = Entry(k).start
                             /\ Entry(k)'.end = Entry(k).end,
         store.open \/ UNCHANGED content,
         writer'.pc \notin {"none", "ended"} \/ conf'.pc = "attach" =>
            writer.pc \notin {"none", "ended"} \/ conf.pc = "attach"
  PROVE  Limits'
<1>1. Count \in Nat
  BY StoreIsTyped
<1>2. \A k \in 1..Count' : Entry(k)'.end - Entry(k)'.start <= FileSize
  BY DEF Limits
<1>3. \A k \in 2..Count' :
         Entry(k)'.start > 0 /\ Entry(k-1)'.end > 0 =>
            Entry(k-1)'.end = Entry(k)'.start
  <2> SUFFICES ASSUME NEW k \in 2..Count,
                      Entry(k)'.start > 0, Entry(k-1)'.end > 0
               PROVE  Entry(k-1)'.end = Entry(k)'.start
    OBVIOUS
  <2>1. k \in 1..Count /\ k - 1 \in 1..Count
    BY <1>1
  <2>2. /\ Entry(k)'.start = Entry(k).start
        /\ Entry(k-1)'.end = Entry(k-1).end
    BY <2>1
  <2>3. QED
    BY <2>2 DEF Limits
<1>4. Count' > 0 /\ (writer'.pc \notin {"none", "ended"}
                     \/ conf'.pc = "attach") =>
         Entry(Count)'.end = store'.acked
  <2> SUFFICES ASSUME Count > 0, writer'.pc \notin {"none", "ended"}
                                 \/ conf'.pc = "attach"
               PROVE  Entry(Count)'.end = store'.acked
    OBVIOUS
  <2>1. Count \in 1..Count
    BY <1>1
  <2>2. \A k \in 1..Count : k = Count => Entry(k)'.end = Entry(k).end
    OBVIOUS
  <2>3. \A k : k = Count' => Entry(k)' = Entry(Count)'
    BY DEF Entry
  <2>4. Entry(Count)'.end = Entry(Count).end
    BY <2>1, <2>2, <2>3
  <2>5. QED
    BY <2>4 DEF Limits
<1>5. ~store'.open => content'[1].len <= FileSize
  BY DEF Limits
<1>6. Count' <= MaxFiles
  BY DEF Limits
<1>7. QED
  BY <1>2, <1>3, <1>4, <1>5, <1>6 DEF Limits

LEMMA AppendKeepsLimits ==
  ASSUME Catalog, BrokerTypes, Admitted, Limits, AppendByte, UNCHANGED conf
  PROVE  Limits'
<1>1. /\ StoreTypes /\ store \in Stores /\ store.acked \in Nat
      /\ writer.pc \in {"append", "idle"} /\ conf.pc # "attach"
      /\ store.open /\ Count \in Nat /\ FileSize \in Nat
      /\ \A k \in 1..Count : /\ Entry(k) \in Entries
                             /\ Entry(k).start \in Int
                             /\ Entry(k).end \in Int
  BY StoreIsTyped, StorageBounds
     DEF AppendByte, Admitted, Catalog, Opened
<1>2. Count > 0 /\ Active = Entry(Count) /\ Entry(Count).end = store.acked
  BY <1>1 DEF Catalog, Catalogued, Active, Entry, Count, Limits
<1>3. CASE UNCHANGED store
  BY <1>1, <1>3, LimitsFrame DEF Count, Entry
<1>4. CASE store' = [store EXCEPT
              !.seq = @ + 1,
              !.rotating = [Active EXCEPT !.name = store.seq + 1]]
  <2>1. /\ store'.spans = store.spans /\ store'.acked = store.acked
        /\ store'.open = store.open
    BY <1>1, <1>4 DEF Stores
  <2>2. QED
    BY <1>1, <2>1, LimitsFrame DEF Count, Entry
<1>5. CASE /\ Active.end - Active.start < FileSize
           /\ store' = [store EXCEPT
                !.acked = @ + 1, !.spans[Len(store.spans)].end = @ + 1]
  <2>1. /\ store'.acked = store.acked + 1 /\ Count' = Count
        /\ store'.open = store.open
        /\ \A k \in 1..Count : Entry(k)' =
              IF k = Count THEN [Entry(k) EXCEPT !.end = @ + 1] ELSE Entry(k)
    BY <1>1, <1>2, <1>5, GrowEffect
  <2>2. \A k \in 1..Count :
           /\ Entry(k)'.start = Entry(k).start
           /\ Entry(k)'.end = IF k = Count THEN Entry(k).end + 1
                              ELSE Entry(k).end
    <3>1. \A e \in Entries : /\ [e EXCEPT !.end = @ + 1].start = e.start
                             /\ [e EXCEPT !.end = @ + 1].end = e.end + 1
      BY DEF Entries
    <3>2. QED
      BY <1>1, <2>1, <3>1
  <2>3. \A k \in 1..Count' : Entry(k)'.end - Entry(k)'.start <= FileSize
    <3> SUFFICES ASSUME NEW k \in 1..Count
                 PROVE  Entry(k)'.end - Entry(k)'.start <= FileSize
      BY <2>1
    <3>1. CASE k = Count
      <4>1. Entry(Count).end - Entry(Count).start < FileSize
        BY <1>2, <1>5
      <4>2. /\ Entry(k)'.start = Entry(Count).start
            /\ Entry(k)'.end = Entry(Count).end + 1
            /\ Entry(Count).start \in Int /\ Entry(Count).end \in Int
        BY <1>1, <2>2, <3>1
      <4>3. QED
        BY <1>1, <4>1, <4>2
    <3>2. CASE k # Count
      BY <2>2, <3>2 DEF Limits
    <3>3. QED
      BY <3>1, <3>2
  <2>4. \A k \in 2..Count' :
           Entry(k)'.start > 0 /\ Entry(k-1)'.end > 0 =>
              Entry(k-1)'.end = Entry(k)'.start
    <3> SUFFICES ASSUME NEW k \in 2..Count,
                        Entry(k)'.start > 0, Entry(k-1)'.end > 0
                 PROVE  Entry(k-1)'.end = Entry(k)'.start
      BY <2>1
    <3>1. k \in 1..Count /\ k - 1 \in 1..Count /\ k - 1 # Count
      BY <1>1
    <3>2. /\ Entry(k)'.start = Entry(k).start
          /\ Entry(k-1)'.end = Entry(k-1).end
      BY <2>2, <3>1
    <3>3. QED
      BY <3>2 DEF Limits
  <2>5. Entry(Count)'.end = store'.acked
    <3>1. \A k : k = Count' => Entry(k)' = Entry(Count)'
      BY DEF Entry
    <3>2. Count \in 1..Count
      BY <1>1, <1>2
    <3>3. QED
      BY <1>2, <2>1, <2>2, <3>1, <3>2
  <2>6. QED
    BY <1>1, <2>1, <2>3, <2>4, <2>5 DEF Limits
<1>6. QED
  BY <1>3, <1>4, <1>5 DEF AppendByte

LEMMA DropKeepsLimits ==
  ASSUME Catalog, BrokerTypes, Admitted, Limits, DropSpan, UNCHANGED conf
  PROVE  Limits'
<1>1. /\ Count > 0 /\ Count' = Count - 1 /\ store'.acked = store.acked
      /\ store'.open = store.open /\ writer'.pc = "evict"
      /\ \A k \in 1..Count - 1 : Entry(k)' = Entry(k + 1)
      /\ Count \in Nat /\ MaxFiles \in Nat
  BY DropEffect, StoreIsTyped, StorageBounds
<1>2. writer.pc = "drop" /\ store.open
  BY DEF DropSpan, Catalog, Opened
<1>3. Count' <= MaxFiles
  BY <1>1 DEF Limits
<1>4. \A k \in 1..Count' : Entry(k)'.end - Entry(k)'.start <= FileSize
  <2>1. \A k \in 1..Count - 1 : k + 1 \in 1..Count
    BY <1>1
  <2>2. QED
    BY <1>1, <2>1 DEF Limits
<1>5. \A k \in 2..Count' :
         Entry(k)'.start > 0 /\ Entry(k-1)'.end > 0 =>
            Entry(k-1)'.end = Entry(k)'.start
  <2> SUFFICES ASSUME NEW k \in 2..Count - 1,
                      Entry(k)'.start > 0, Entry(k-1)'.end > 0
               PROVE  Entry(k-1)'.end = Entry(k)'.start
    BY <1>1
  <2>1. /\ k \in 1..Count - 1 /\ k - 1 \in 1..Count - 1
        /\ k + 1 \in 2..Count /\ k + 1 - 1 = k /\ k - 1 + 1 = k
    BY <1>1
  <2>2. Entry(k)' = Entry(k + 1) /\ Entry(k-1)' = Entry(k - 1 + 1)
    BY <1>1, <2>1
  <2>3. Entry(k-1)' = Entry(k + 1 - 1)
    BY <2>1, <2>2
  <2>4. QED
    BY <2>1, <2>2, <2>3 DEF Limits
<1>6. Count' > 0 => Entry(Count)'.end = store'.acked
  <2> SUFFICES ASSUME Count - 1 > 0 PROVE Entry(Count)'.end = store'.acked
    BY <1>1
  <2>1. Count - 1 \in 1..Count - 1 /\ Count - 1 + 1 = Count
    BY <1>1
  <2>2. \A k \in 1..Count - 1 : k = Count - 1 => Entry(k)' = Entry(k + 1)
    BY <1>1
  <2>3. \A k : k = Count' => Entry(k)' = Entry(Count)'
    BY DEF Entry
  <2>4. Entry(Count)' = Entry(Count)
    BY <1>1, <2>1, <2>2, <2>3
  <2>5. QED
    BY <1>1, <1>2, <2>4 DEF Limits
<1>7. QED
  BY <1>1, <1>2, <1>3, <1>4, <1>5, <1>6 DEF Limits

LEMMA CreateKeepsLimits ==
  ASSUME Catalog, BrokerTypes, Admitted, Limits, CreateActive,
         UNCHANGED conf
  PROVE  Limits'
<1>1. /\ writer.pc = "evict" /\ Count < MaxFiles /\ store.open
      /\ Count \in Nat /\ MaxFiles \in Nat /\ FileSize \in Nat
      /\ store.acked \in Nat
  BY StoreIsTyped, StorageBounds DEF CreateActive, Catalog, Opened, Count
<1>2. CASE UNCHANGED store
  BY <1>1, <1>2, LimitsFrame DEF Count, Entry
<1>3. CASE \E i \in FreeInodes :
              store' = [store EXCEPT !.spans =
                          Append(@, Span(0, i, store.acked, store.acked))]
  <2>1. /\ Count' = Count + 1 /\ store'.acked = store.acked
        /\ store'.open = store.open
        /\ \A k \in 1..Count : Entry(k)' = Entry(k)
        /\ Entry(Count)'.start = store.acked
        /\ Entry(Count)'.end = store.acked
    BY <1>3, CreateEffect
  <2>2. \A k : k = Count' => Entry(k)' = Entry(Count)'
    BY DEF Entry
  <2>3. \A k \in 1..Count' : Entry(k)'.end - Entry(k)'.start <= FileSize
    <3> SUFFICES ASSUME NEW k \in 1..Count + 1
                 PROVE  Entry(k)'.end - Entry(k)'.start <= FileSize
      BY <2>1
    <3>1. CASE k = Count + 1
      <4>1. /\ Entry(k)'.start = store.acked
            /\ Entry(k)'.end = store.acked
        BY <2>1, <2>2, <3>1
      <4>2. QED
        BY <1>1, <4>1
    <3>2. CASE k # Count + 1
      <4>1. k \in 1..Count
        BY <1>1, <3>2
      <4>2. QED
        BY <2>1, <4>1 DEF Limits
    <3>3. QED
      BY <3>1, <3>2
  <2>4. \A k \in 2..Count' :
           Entry(k)'.start > 0 /\ Entry(k-1)'.end > 0 =>
              Entry(k-1)'.end = Entry(k)'.start
    <3> SUFFICES ASSUME NEW k \in 2..Count + 1,
                        Entry(k)'.start > 0, Entry(k-1)'.end > 0
                 PROVE  Entry(k-1)'.end = Entry(k)'.start
      BY <2>1
    <3>1. k - 1 \in 1..Count /\ Entry(k-1)' = Entry(k-1)
      BY <1>1, <2>1
    <3>2. CASE k = Count + 1
      <4>1. Entry(k)'.start = store.acked /\ k - 1 = Count /\ Count > 0
        BY <1>1, <2>1, <2>2, <3>2
      <4>2. Entry(Count).end = store.acked
        BY <1>1, <4>1 DEF Limits
      <4>3. QED
        BY <3>1, <4>1, <4>2
    <3>3. CASE k # Count + 1
      <4>1. k \in 1..Count /\ k \in 2..Count
        BY <1>1, <3>3
      <4>2. Entry(k)' = Entry(k)
        BY <2>1, <4>1
      <4>3. QED
        BY <3>1, <4>1, <4>2 DEF Limits
    <3>4. QED
      BY <3>2, <3>3
  <2>5. QED
    BY <1>1, <2>1, <2>3, <2>4 DEF Limits
<1>4. QED
  BY <1>2, <1>3 DEF CreateActive

\* Where the files begin.
LEMMA OpenKeepsLimits ==
  ASSUME Catalog, BrokerTypes, Admitted, Limits, OpenStore
  PROVE  Limits'
<1>1. /\ conf.pc = "open" /\ writer.pc = "none" /\ writer' = writer
      /\ conf.start \in Nat /\ store \in Stores /\ StoreTypes
      /\ MaxFiles \in Nat /\ MaxFiles > 0 /\ FileSize \in Nat
  BY StorageBounds
     DEF OpenStore, Admitted, BrokerTypes, Catalog, StoreTypes
<1>2. /\ store.spans = <<>> /\ store.acked = 0 /\ ~store.open /\ Count = 0
  BY <1>1, EmptySeq DEF Catalog, Opened, Count
<1>3. CASE conf'.pc = "attach"
  <2>1. Admit(conf.start)
    BY <1>1, <1>3 DEF OpenStore, BrokerTypes
  <2> DEFINE ino == Named(0)
             old == content[ino].len
             fresh == CHOOSE i \in FreeInodes : TRUE
             new == Span(0, fresh, conf.start, conf.start)
  <2>2. ino # 0 => old > 0 /\ old <= FileSize /\ old \in Int
    <3>1. ino # 0 => ino = 1 /\ content[1].len > 0
      BY <1>2 DEF Catalog, Opened
    <3>2. 1 \in Inodes
      BY StorageBounds DEF Inodes
    <3>3. content[1].len \in Int /\ content[1].len <= FileSize
      BY <1>1, <1>2, <3>2 DEF StoreTypes, Limits
    <3>4. QED
      BY <3>1, <3>3
  <2>3. CASE ino = 0 \/ (conf.start # 0 /\ MaxFiles = 1)
    <3>1. store'.spans = <<new>> /\ store'.acked = conf.start /\ store'.open
      <4>1. <<>> \o <<new>> = <<new>>
        <5>1. <<new>> \in Seq({new})
          OBVIOUS
        <5>2. QED
          BY <5>1, ConcatEmptySeq
      <4>2. CASE ino = 0
        BY <1>1, <2>1, <4>2 DEF Admit, Stores
      <4>3. CASE ino # 0 /\ conf.start # 0 /\ MaxFiles = 1
        <5>1. store' = [store EXCEPT !.open = TRUE, !.acked = conf.start,
                          !.seq = 1, !.spans = <<>> \o <<new>>]
          BY <2>1, <4>3 DEF Admit
        <5> HIDE DEF new
        <5>2. QED
          BY <1>1, <4>1, <5>1 DEF Stores
      <4>4. QED
        BY <2>3, <4>2, <4>3
    <3>2. new.start = conf.start /\ new.end = conf.start
      BY DEF Span
    <3> HIDE DEF new
    <3>3. Count' = 1 /\ Entry(1)' = new /\ Entry(Count)' = new
      BY <3>1 DEF Count, Entry
    <3>4. \A k \in 1..Count' : k = 1
      BY <3>3
    <3>5. \A k \in 2..Count' : FALSE
      BY <3>3
    <3>6. QED
      BY <1>1, <3>1, <3>2, <3>3, <3>4, <3>5 DEF Limits
  <2>4. CASE ino # 0 /\ conf.start = 0
    <3> DEFINE e == Span(0, ino, -old, 0)
    <3>1. store'.spans = <<e>> /\ store'.acked = 0 /\ store'.open
      BY <1>1, <1>2, <2>1, <2>4 DEF Admit, Stores
    <3>2. e.start = -old /\ e.end = 0
      BY DEF Span
    <3> HIDE DEF e
    <3>3. Count' = 1 /\ Entry(1)' = e /\ Entry(Count)' = e
      BY <3>1 DEF Count, Entry
    <3>4. e.end - e.start <= FileSize
      <4>1. old \in Int /\ old <= FileSize
        BY <2>2, <2>4
      <4> HIDE DEF old
      <4>2. QED
        BY <1>1, <3>2, <4>1
    <3>5. \A k \in 1..Count' : k = 1
      BY <3>3
    <3>6. \A k \in 2..Count' : FALSE
      BY <3>3
    <3>7. QED
      BY <1>1, <3>1, <3>2, <3>3, <3>4, <3>5, <3>6 DEF Limits
  <2>5. CASE ino # 0 /\ conf.start # 0 /\ MaxFiles # 1
    <3> DEFINE e == Span(1, ino, -old, 0)
    <3>1. store'.spans = <<e>> \o <<new>> /\ store'.acked = conf.start
          /\ store'.open
      <4>1. MaxFiles > 1
        BY <1>1, <2>5
      <4>2. QED
        BY <1>1, <2>1, <2>5, <4>1 DEF Admit, Stores
    <3>2. /\ e.start = -old /\ e.end = 0
          /\ new.start = conf.start /\ new.end = conf.start
      BY DEF Span
    <3> HIDE DEF e, new
    <3>3. /\ Len(<<e>> \o <<new>>) = 2
          /\ (<<e>> \o <<new>>)[1] = e /\ (<<e>> \o <<new>>)[2] = new
      <4>1. /\ <<e>> \in Seq({e, new}) /\ <<new>> \in Seq({e, new})
            /\ Len(<<e>>) = 1 /\ Len(<<new>>) = 1
            /\ <<e>>[1] = e /\ <<new>>[1] = new
        OBVIOUS
      <4>2. QED
        BY <4>1, ConcatProperties
    <3>4. /\ Count' = 2 /\ Entry(1)' = e /\ Entry(2)' = new
          /\ Entry(Count)' = new
      BY <3>1, <3>3 DEF Count, Entry
    <3>5. e.end - e.start <= FileSize
      <4>1. old \in Int /\ old <= FileSize
        BY <2>2, <2>5
      <4> HIDE DEF old
      <4>2. QED
        BY <1>1, <3>2, <4>1
    <3>6. \A k \in 1..Count' : k = 1 \/ k = 2
      BY <3>4
    <3>7. \A k \in 2..Count' : k = 2 /\ k - 1 = 1
      BY <3>4
    <3>8. Count' <= MaxFiles
      BY <1>1, <2>5, <3>4
    <3>9. \A k \in 1..Count' : Entry(k)'.end - Entry(k)'.start <= FileSize
      BY <1>1, <3>2, <3>4, <3>5, <3>6
    <3>10. \A k \in 2..Count' : ~(Entry(k-1)'.end > 0)
      BY <3>2, <3>4, <3>7
    <3>11. QED
      BY <3>1, <3>2, <3>4, <3>8, <3>9, <3>10 DEF Limits
  <2>6. QED
    BY <2>3, <2>4, <2>5
<1>4. CASE conf'.pc # "attach"
  <2>1. UNCHANGED <<store, content>>
    BY <1>1, <1>4 DEF OpenStore, BrokerTypes
  <2>2. Count' = 0
    BY <1>2, <2>1 DEF Count
  <2>3. QED
    BY <1>2, <2>1, <2>2 DEF Limits
<1>5. QED
  BY <1>3, <1>4

LEMMA InitLimits == Init => Limits /\ Buffers
<1> SUFFICES ASSUME Init PROVE Limits /\ Buffers
  OBVIOUS
<1>1. PICK old \in 0..MaxOld : StorageInit(old)
  BY DEF Init
<1>2. /\ store.spans = <<>> /\ ~store.open /\ content[1].len = old
  <2>1. 1 \in Inodes
    BY StorageBounds DEF Inodes
  <2>2. QED
    BY <1>1, <2>1 DEF StorageInit
<1>3. Count = 0
  BY <1>2, EmptySeq DEF Count
<1>4. MaxFiles \in Nat /\ FileSize \in Nat /\ old <= FileSize
      /\ BootSize \in Nat /\ FollowerSize \in Nat
  BY StorageBounds, LogBounds
<1>5. Limits
  BY <1>2, <1>3, <1>4 DEF Limits
<1>6. hist = [start |-> 0, end |-> 0] /\ conf.mode = "unset"
      /\ live = NoLive
  BY DEF Init
<1>7. Buffers
  BY <1>4, <1>6 DEF Buffers, NoLive
<1>8. QED
  BY <1>5, <1>7

LEMMA StepLimits == LogInv /\ Limits /\ [Next]_vars => Limits'
<1> SUFFICES ASSUME LogInv, Limits, [Next]_vars PROVE Limits'
  OBVIOUS
<1>0. /\ Catalog /\ BrokerTypes /\ Admitted /\ StoreTypes
      /\ store \in Stores
  BY DEF LogInv, Recorder, Catalog, StoreTypes
<1>1. ASSUME store'.spans = store.spans, store'.acked = store.acked,
             store'.open = store.open, store.open \/ UNCHANGED content,
             writer'.pc \notin {"none", "ended"} \/ conf'.pc = "attach" =>
                writer.pc \notin {"none", "ended"} \/ conf.pc = "attach"
      PROVE  Limits'
  BY <1>0, <1>1, LimitsFrame DEF Count, Entry
<1>2. CASE Publish \/ CloseWriter \/ CloseFollowers
  <2>1. UNCHANGED <<store, content, conf>> /\ writer'.pc = writer.pc
    BY <1>0, <1>2
       DEF Publish, CloseWriter, CloseFollowers, BrokerTypes, Enqueued
  <2>2. QED
    BY <1>1, <2>1
<1>3. CASE Configure
  <2>1. /\ UNCHANGED <<store, content, writer>> /\ conf'.pc # "attach"
    BY <1>0, <1>3 DEF Configure, storageVars, BrokerTypes
  <2>2. QED
    BY <1>1, <2>1
<1>4. CASE OpenStore
  BY <1>0, <1>4, OpenKeepsLimits
<1>5. CASE Attach
  <2>1. UNCHANGED <<store, content>> /\ conf.pc = "attach"
    BY <1>5 DEF Attach
  <2>2. QED
    BY <1>1, <2>1
<1>6. CASE Write /\ UNCHANGED brokerVars
  <2>1. UNCHANGED conf /\ writer.pc # "none" /\ store.open
    BY <1>0, <1>6, WriteEffect DEF brokerVars, Catalog, Opened
  <2>2. CASE EndWriter
    <3>1. UNCHANGED store /\ writer'.pc = "ended"
      BY <1>0, <2>2 DEF EndWriter, GoWriter, Failing, BrokerTypes
    <3>2. conf.pc # "attach"
      BY <1>0, <2>1 DEF Admitted
    <3>3. QED
      BY <1>1, <2>1, <3>1, <3>2
  <2>3. CASE RenameActive \/ Evict
    <3>1. /\ store'.spans = store.spans /\ store'.acked = store.acked
          /\ store'.open = store.open /\ writer.pc \in {"rename", "evict"}
      BY <1>0, <2>3 DEF RenameActive, Evict, Stores
    <3>2. QED
      BY <1>1, <2>1, <3>1
  <2>4. CASE UpdateCatalog
    <3>1. writer.pc = "catalog"
      BY <2>4 DEF UpdateCatalog
    <3>2. QED
      BY <1>0, <2>1, <2>4, <3>1, UpdateEffect, LimitsFrame
  <2>5. QED
    BY <1>0, <1>6, <2>1, <2>2, <2>3, <2>4, AppendKeepsLimits,
       DropKeepsLimits, CreateKeepsLimits DEF Write
<1>7. QED
  <2>1. \/ DrainFails \/ BeginClose \/ Subscribe \/ PlanReplay \/ ReplayMemory
        \/ StartRead \/ ReadOld \/ EndRead \/ EndReplay \/ ReceiveLive
        \/ LookReason \/ PeerBreaks \/ (Read /\ UNCHANGED brokerVars)
        \/ UNCHANGED vars
        => UNCHANGED <<conf, store, content, writer>>
    BY DEF DrainFails, BeginClose, Subscribe, PlanReplay, ReplayMemory,
           StartRead, ReadOld, EndRead, EndReplay, ReceiveLive, LookReason,
           PeerBreaks, Read, vars, brokerVars, storageVars
  <2>2. CASE UNCHANGED <<conf, store, content, writer>>
    BY <1>1, <2>2
  <2>3. QED
    BY <1>2, <1>3, <1>4, <1>5, <1>6, <2>1, <2>2 DEF Next

\* A publication fills what has room, and closes what has none.
LEMMA PublishKeepsBuffers ==
  ASSUME BrokerTypes, Admitted, live \in Lives, Counts, Buffers, Publish
  PROVE  Buffers'
<1>1. /\ position \in Nat /\ hist.start \in Nat /\ hist.end \in Nat
      /\ live.from \in Nat /\ live.to \in Nat /\ live.on \in BOOLEAN
      /\ BootSize \in Nat /\ BootSize > 0
      /\ FollowerSize \in Nat /\ FollowerSize > 0
  BY LogBounds DEF BrokerTypes, Lives
<1>2. position' = position + 1 /\ conf' = conf
  BY DEF Publish
<1>3. conf'.mode = "unset" => hist'.end - hist'.start <= BootSize
  <2> SUFFICES ASSUME conf.mode = "unset"
               PROVE  hist'.end - hist'.start <= BootSize
    BY <1>2
  <2>1. Recording /\ Capacity = BootSize
    BY DEF Recording, Capacity
  <2> DEFINE start == Most(hist.start, position + 1 - BootSize)
  <2>2. start \in Int /\ position + 1 - BootSize <= start
    BY <1>1 DEF Most
  <2>3. hist' = [start |-> start, end |-> position + 1]
    BY <2>1 DEF Publish
  <2> HIDE DEF start
  <2>4. hist'.start = start /\ hist'.end = position + 1
    BY <2>3
  <2>5. QED
    BY <1>1, <2>2, <2>4
<1>4. conf'.mode = "none" => hist'.start = hist'.end
  <2> SUFFICES ASSUME conf.mode = "none" PROVE hist'.start = hist'.end
    BY <1>2
  <2>1. hist' = hist
    BY DEF Publish, Recording
  <2>2. QED
    BY <2>1 DEF Buffers
<1>5. /\ live'.from <= live'.to /\ live'.to - live'.from <= FollowerSize
      /\ live'.on => live'.to = position' /\ live'.reason = "none"
  <2>1. CASE live' = live /\ ~live.on
    BY <2>1 DEF Buffers
  <2>2. CASE /\ live' = [live EXCEPT !.on = FALSE, !.reason = "overflow",
                                     !.from = @, !.to = live.from]
    <3>1. /\ ~live'.on /\ live'.from = live.from /\ live'.to = live.from
      BY <2>2 DEF Lives
    <3>2. QED
      BY <1>1, <3>1
  <2>3. CASE /\ live.on
             /\ ~(live.to - live.from + 1 > FollowerSize)
             /\ live' = [live EXCEPT !.to = position + 1]
    <3>1. /\ live'.on /\ live'.from = live.from /\ live'.to = position + 1
          /\ live'.reason = live.reason
      BY <2>3 DEF Lives
    <3>2. /\ live.to = position /\ live.reason = "none"
          /\ live.from <= live.to
      BY <2>3 DEF Buffers
    <3>3. QED
      BY <1>1, <1>2, <2>3, <3>1, <3>2
  <2>4. QED
    <3>1. live.on => live.reason = "none"
      BY DEF Buffers
    <3>2. QED
      BY <1>1, <2>1, <2>2, <2>3, <3>1 DEF Publish, OfferLive
<1>6. QED
  BY <1>3, <1>4, <1>5 DEF Buffers

LEMMA ConfigureKeepsBuffers ==
  ASSUME BrokerTypes, Buffers, Configure
  PROVE  Buffers'
<1>1. PICK mode \in Modes :
         /\ conf' = [mode |-> mode,
                     start |-> Most(hist.start, hist.end - FileSize),
                     pc |-> IF mode = "file" THEN "open" ELSE "done"]
         /\ hist' = [hist EXCEPT
               !.start = IF mode = "none" THEN hist.end
                         ELSE Most(hist.start, hist.end - FileSize)]
  BY DEF Configure
<1>2. conf'.mode = mode /\ mode # "unset"
  BY <1>1, LogBounds
<1>3. mode = "none" => hist'.start = hist'.end
  BY <1>1 DEF BrokerTypes
<1>4. UNCHANGED <<live, position>>
  BY DEF Configure
<1>5. QED
  BY <1>2, <1>3, <1>4 DEF Buffers

\* A follower that is new, gone, closed, or one byte shorter.
LEMMA LiveKeepsBuffers ==
  ASSUME live \in Lives, position \in Nat, Buffers,
         UNCHANGED <<hist, conf, position>>,
         \/ live' = live
         \/ live' = [on |-> TRUE, from |-> position, to |-> position,
                     reason |-> "none"]
         \/ live' = [NoLive EXCEPT !.reason = "client_closed"]
         \/ /\ live.from < live.to
            /\ live' = [live EXCEPT !.from = live.from + 1]
         \/ live' = [live EXCEPT !.on = FALSE, !.reason = "broker_closed"]
         \/ live' = [live EXCEPT !.on = FALSE, !.reason = "broker_failed",
                                 !.to = live.from]
  PROVE  Buffers'
<1>1. /\ live.from \in Nat /\ live.to \in Nat
      /\ FollowerSize \in Nat /\ FollowerSize > 0
  BY LogBounds DEF Lives
<1>2. /\ live.from <= live.to /\ live.to - live.from <= FollowerSize
      /\ live.on => live.to = position /\ live.reason = "none"
  BY DEF Buffers
<1>3. /\ live'.from <= live'.to /\ live'.to - live'.from <= FollowerSize
      /\ live'.on => live'.to = position /\ live'.reason = "none"
  <2>1. CASE live' = live
    BY <1>2, <2>1
  <2>2. CASE live' = [on |-> TRUE, from |-> position, to |-> position,
                      reason |-> "none"]
    BY <1>1, <2>2
  <2>3. CASE live' = [NoLive EXCEPT !.reason = "client_closed"]
    BY <1>1, <2>3 DEF NoLive
  <2>4. CASE /\ live.from < live.to
             /\ live' = [live EXCEPT !.from = live.from + 1]
    <3>1. /\ live'.from = live.from + 1 /\ live'.to = live.to
          /\ live'.on = live.on /\ live'.reason = live.reason
      BY <2>4 DEF Lives
    <3>2. QED
      BY <1>1, <1>2, <2>4, <3>1
  <2>5. CASE live' = [live EXCEPT !.on = FALSE, !.reason = "broker_closed"]
    BY <1>2, <2>5 DEF Lives
  <2>6. CASE live' = [live EXCEPT !.on = FALSE, !.reason = "broker_failed",
                                  !.to = live.from]
    <3>1. ~live'.on /\ live'.from = live.from /\ live'.to = live.from
      BY <2>6 DEF Lives
    <3>2. QED
      BY <1>1, <3>1
  <2>7. QED
    BY <2>1, <2>2, <2>3, <2>4, <2>5, <2>6
<1>4. QED
  BY <1>3 DEF Buffers

LEMMA StepBuffers == LogInv /\ Counts /\ Buffers /\ [Next]_vars => Buffers'
<1> SUFFICES ASSUME LogInv, Counts, Buffers, [Next]_vars PROVE Buffers'
  OBVIOUS
<1>0. /\ BrokerTypes /\ Admitted /\ live \in Lives /\ position \in Nat
  BY DEF LogInv, Recorder, BrokerTypes, Player, QueryTypes
<1>1. CASE Publish
  BY <1>0, <1>1, PublishKeepsBuffers
<1>2. CASE Configure
  BY <1>0, <1>2, ConfigureKeepsBuffers
<1>3. CASE \/ DrainFails \/ BeginClose \/ CloseWriter \/ PlanReplay
           \/ ReplayMemory \/ StartRead \/ ReadOld \/ EndRead
           \/ ((Write \/ Read) /\ UNCHANGED brokerVars) \/ UNCHANGED vars
  <2>1. UNCHANGED <<hist, conf, position, live>>
    BY <1>3 DEF DrainFails, BeginClose, CloseWriter, PlanReplay,
                ReplayMemory, StartRead, ReadOld, EndRead, vars, brokerVars
  <2>2. QED
    BY <2>1 DEF Buffers
<1>4. CASE OpenStore \/ Attach
  <2>1. /\ UNCHANGED <<hist, position, live>> /\ conf'.mode = conf.mode
    BY <1>0, <1>4 DEF OpenStore, Attach, BrokerTypes
  <2>2. QED
    BY <2>1 DEF Buffers
<1>5. CASE Subscribe
  <2>1. /\ UNCHANGED <<hist, conf, position>>
        /\ \/ live' = [on |-> TRUE, from |-> position, to |-> position,
                       reason |-> "none"]
           \/ live' = live
    BY <1>5 DEF Subscribe
  <2>2. QED
    BY <1>0, <2>1, LiveKeepsBuffers
<1>6. CASE EndReplay \/ PeerBreaks
  <2>1. /\ UNCHANGED <<hist, conf, position>>
        /\ \/ live' = [NoLive EXCEPT !.reason = "client_closed"]
           \/ live' = live
    BY <1>6 DEF EndReplay, PeerBreaks
  <2>2. QED
    BY <1>0, <2>1, LiveKeepsBuffers
<1>7. CASE ReceiveLive \/ LookReason
  <2>1. /\ UNCHANGED <<hist, conf, position>>
        /\ \/ /\ live.from < live.to
              /\ live' = [live EXCEPT !.from = live.from + 1]
           \/ live' = live
    BY <1>7 DEF ReceiveLive, LookReason
  <2>2. QED
    BY <1>0, <2>1, LiveKeepsBuffers
<1>8. CASE CloseFollowers
  <2>1. /\ UNCHANGED <<hist, conf, position>>
        /\ \/ live' = live
           \/ live' = [live EXCEPT !.on = FALSE, !.reason = "broker_closed"]
           \/ live' = [live EXCEPT !.on = FALSE, !.reason = "broker_failed",
                                   !.to = live.from]
    BY <1>8 DEF CloseFollowers
  <2>2. QED
    BY <1>0, <2>1, LiveKeepsBuffers
<1>9. QED
  BY <1>1, <1>2, <1>3, <1>4, <1>5, <1>6, <1>7, <1>8 DEF Next

LEMMA LimitsAreTyped == LogInv /\ LimitInv => LogsTypeOK
<1> SUFFICES ASSUME LogInv, LimitInv PROVE LogsTypeOK
  OBVIOUS
<1>1. /\ Catalog /\ BrokerTypes /\ Admitted /\ live \in Lives
      /\ Counts /\ Limits /\ Buffers
  BY DEF LogInv, LimitInv, Recorder, Player, QueryTypes
<1>2. /\ store.acked \in Nat /\ Count \in Nat
      /\ DOMAIN store.spans = 1..Count /\ Len(store.spans) = Count
      /\ \A k \in 1..Count : Entry(k) \in Entries
  BY <1>1, StoreIsTyped
<1>3. StorageTypeOK
  <2>1. \A k \in 1..Count :
           /\ Entry(k).ino \in Inodes
           /\ Entry(k).start <= Entry(k).end /\ Entry(k).end <= store.acked
           /\ Entry(k).end - Entry(k).start <= FileSize
    BY <1>1, <1>2 DEF Catalog, InOrder, Limits, Entries
  <2>2. \A k \in 1..Count :
           writer.pc # "drop" \/ k > 1
              => content[Entry(k).ino].from = Entry(k).start
    <3>1. SUFFICES ASSUME NEW k \in 1..Count, writer.pc # "drop" \/ k > 1
                   PROVE  content[Entry(k).ino].from = Entry(k).start
      OBVIOUS
    <3>2. ~(writer.pc = "drop" /\ k = 1)
      BY <3>1
    <3>3. QED
      BY <1>1, <3>2 DEF Catalog, Contents
  <2>3. \A k \in 1..Count :
           k > 1 /\ Entry(k).start > 0 /\ Entry(k-1).end > 0
              => Entry(k-1).end = Entry(k).start
    <3>1. \A k \in 1..Count : k > 1 => k \in 2..Count
      BY <1>2
    <3>2. QED
      BY <1>1, <3>1 DEF Limits
  <2>4. Len(store.spans) <= MaxFiles
    BY <1>1, <1>2 DEF Limits
  <2>5. writer.pc = "none" \/ store.acked <= writer.next
    BY <1>1 DEF Counts
  <2>6. QED
    BY <1>2, <2>1, <2>2, <2>3, <2>4, <2>5 DEF StorageTypeOK, Entry
<1>4. /\ hist.start <= hist.end /\ hist.end <= position
      /\ hist.end - hist.start <= Most(BootSize, FileSize)
  <2>1. /\ hist.start \in Nat /\ hist.end \in Nat /\ position \in Nat
        /\ BootSize \in Nat /\ FileSize \in Nat
        /\ conf.mode \in {"unset", "none", "memory", "file"}
    BY <1>1, StorageBounds, LogBounds DEF BrokerTypes
  <2>2. hist.start <= hist.end /\ hist.end <= position
    BY <1>1 DEF Counts
  <2>3. /\ Most(BootSize, FileSize) \in Int
        /\ Most(BootSize, FileSize) >= BootSize
        /\ Most(BootSize, FileSize) >= FileSize
    BY <2>1 DEF Most
  <2>4. \/ hist.end - hist.start <= BootSize
        \/ hist.end - hist.start <= FileSize
    <3>1. CASE conf.mode = "unset"
      BY <1>1, <3>1 DEF Buffers
    <3>2. CASE conf.mode = "none"
      BY <1>1, <2>1, <3>2 DEF Buffers
    <3>3. CASE conf.mode \in {"memory", "file"}
      <4>1. position - FileSize <= hist.start
        BY <1>1, <3>3 DEF Counts
      <4>2. QED
        BY <2>1, <2>2, <4>1
    <3>4. QED
      BY <2>1, <3>1, <3>2, <3>3
  <2>5. QED
    BY <2>1, <2>2, <2>3, <2>4
<1>5. live.to - live.from \in 0..FollowerSize
  <2>1. live.from \in Nat /\ live.to \in Nat /\ FollowerSize \in Nat
    BY <1>1, LogBounds DEF Lives
  <2>2. live.from <= live.to /\ live.to - live.from <= FollowerSize
    BY <1>1 DEF Buffers
  <2>3. QED
    BY <2>1, <2>2
<1>6. live.on => live.to = position
  BY <1>1 DEF Buffers
<1>7. QED
  BY <1>3, <1>4, <1>5, <1>6 DEF LogsTypeOK

\* For any sizes: there are never more files than may be, none is longer than
\* it may be, each goes on where the one before it ends, the memory history
\* keeps to its capacity, before and after the settings are known, and the
\* queue of a follower to its own (log_storage.py:230, log_history.py:44,
\* logging.py:132).
THEOREM LimitsHold == Spec => []LogsTypeOK
<1>1. Init => LimitInv
  BY InitCounts, InitLimits DEF LimitInv
<1>2. LogInv /\ LimitInv /\ [Next]_vars => LimitInv'
  BY StepCounts, StepLimits, StepBuffers DEF LimitInv
<1>3. Spec => []LogInv
  BY LogInvariant
<1>4. QED
  BY <1>1, <1>2, <1>3, LimitsAreTyped, PTL DEF Spec

=============================================================================
