----------------------------- MODULE RuntimeLogs -----------------------------
(***************************************************************************)
(* The log broker of src/comfyui_docker_helper/container/runtime/          *)
(* logging.py: the ordered publication of drained output to the memory     *)
(* history (log_history.py), the files (LogStorage) and a live follower;   *)
(* the one admission of the recording settings while output keeps coming;  *)
(* one query (log_query.py), which the control server sends to a client    *)
(* (control/server.py, control/client.py); and the close of the broker.    *)
(* A chunk is one byte.                                                    *)
(***************************************************************************)
EXTENDS LogStorage

CONSTANTS MaxPosition,   \* bound: bytes published
          BootSize,      \* capacity of the history before settings are known
          FollowerSize,  \* RUNTIME_LOG_FOLLOWER_QUEUE_BYTES
          MaxOld,        \* bound: bytes in the file of an earlier controller
          Modes          \* recording modes to try

ASSUME LogBounds == /\ MaxPosition \in Nat /\ BootSize \in Nat \ {0}
                    /\ FollowerSize \in Nat \ {0} /\ MaxOld \in 0..FileSize
                    /\ Modes \subseteq {"none", "memory", "file"}

VARIABLES position,  \* bytes published
          hist,      \* MemoryHistory: the range it retains
          conf,      \* configure: mode, place, first byte of the files
          sfailed,   \* _storage_failed of the broker
          broker,    \* "open", "closing" or "closed"; drains; reason given
          live,      \* the follower: its queue of positions, its close reason
          query,     \* the query: place, what it captured, spans left
          client     \* what the client has written, and its result

brokerVars == <<position, hist, conf, sfailed, broker, live, query, client>>
vars == <<storageVars, brokerVars>>

NoLive == [on |-> FALSE, from |-> 0, to |-> 0, reason |-> "none"]
NoQuery == [pc |-> "none", follow |-> FALSE, endpoint |-> 0, mem |-> 0,
            filed |-> FALSE, files |-> <<>>, spans |-> <<>>, at |-> 0,
            complete |-> TRUE]
(* What a failed client wrote is not looked at again. *)
FailedClient == [out |-> <<>>, result |-> "failed", first |-> 0]
At(pc) == [NoQuery EXCEPT !.pc = pc, !.follow = query.follow,
                          !.endpoint = query.endpoint]

Init ==
  /\ \E old \in 0..MaxOld : StorageInit(old)
  /\ position = 0
  /\ hist = [start |-> 0, end |-> 0]
  /\ conf = [mode |-> "unset", pc |-> "idle", start |-> 0]
  /\ sfailed = FALSE
  /\ broker = [state |-> "open", drains |-> "running", reason |-> "none"]
  /\ live = NoLive
  /\ query = NoQuery
  /\ client = [out |-> <<>>, result |-> "none", first |-> 0]

Capacity == IF conf.mode = "unset" THEN BootSize ELSE FileSize
Most(a, b) == IF a > b THEN a ELSE b
Least(a, b) == IF a < b THEN a ELSE b
Recording == conf.mode # "none"

-----------------------------------------------------------------------------
(* Publication, under the followers lock.                                  *)

PublishDropsOldest ==   \* mutant
  live' = IF ~live.on \/ live.reason # "none" THEN live
          ELSE [live EXCEPT !.to = position + 1,
                            !.from = Most(@, position + 1 - FollowerSize)]

(* A follower that has no room is closed, and what it held is dropped. *)
OfferLive ==
  live' = IF ~live.on \/ live.reason # "none" THEN live
          ELSE IF live.to - live.from + 1 > FollowerSize
               THEN [live EXCEPT !.on = FALSE, !.reason = "overflow",
                                 !.from = @, !.to = live.from]
               ELSE [live EXCEPT !.to = position + 1]

Publish ==
  /\ broker.drains = "running" /\ position < MaxPosition
  /\ position' = position + 1
  /\ hist' = IF Recording
             THEN [start |-> Most(hist.start, position + 1 - Capacity),
                   end |-> position + 1]
             ELSE hist
  /\ writer' = IF writer.pc # "none" /\ ~sfailed
               THEN Enqueued(position + 1) ELSE writer
  /\ OfferLive
  /\ UNCHANGED <<names, content, store, rd, conf, sfailed, broker, query,
                 client>>

(* A drain that fails, or whose primary output fails, publishes no more. *)
DrainFails ==
  /\ broker.drains = "running"
  /\ broker' = [broker EXCEPT !.drains = "failed"]
  /\ UNCHANGED <<storageVars, position, hist, conf, sfailed, live, query,
                 client>>

-----------------------------------------------------------------------------
(* configure: the settings are admitted, the store is opened without the  *)
(* lock, and what was published meanwhile is handed over.                 *)

Configure ==
  /\ conf.mode = "unset" /\ broker.state = "open"
  /\ \E mode \in Modes :
       LET start == Most(hist.start, hist.end - FileSize) IN
       /\ conf' = [mode |-> mode, start |-> start,
                   pc |-> IF mode = "file" THEN "open" ELSE "done"]
       /\ hist' = [hist EXCEPT !.start = IF mode = "none" THEN hist.end
                                         ELSE start]
  /\ UNCHANGED <<storageVars, position, sfailed, broker, live, query, client>>

OpenStore ==
  /\ conf.pc = "open"
  /\ \/ /\ Admit(conf.start) /\ conf' = [conf EXCEPT !.pc = "attach"]
        /\ UNCHANGED sfailed
     \/ /\ sfailed' = TRUE /\ conf' = [conf EXCEPT !.pc = "done"]
        /\ UNCHANGED <<names, content, store>>
  /\ UNCHANGED <<writer, rd, position, hist, broker, live, query, client>>

AttachStale ==   \* mutant
  /\ conf.pc = "attach"
  /\ conf' = [conf EXCEPT !.pc = "done"]
  /\ writer' = [NoWriter EXCEPT !.pc = "idle", !.next = conf.start]
  /\ UNCHANGED <<sfailed, names, content, store, rd, position, hist, broker,
                 live, query, client>>

(* More than the queue can take, or more than memory kept, ends recording *)
(* before it began.                                                       *)
Attach ==
  /\ conf.pc = "attach"
  /\ conf' = [conf EXCEPT !.pc = "done"]
  /\ LET fits == hist.start <= conf.start /\ hist.end - conf.start <= QueueSize
     IN /\ writer' = [NoWriter EXCEPT !.pc = "idle",
                        !.next = IF fits THEN hist.end ELSE conf.start]
        /\ sfailed' = (sfailed \/ ~fits)
  /\ UNCHANGED <<names, content, store, rd, position, hist, broker, live,
                 query, client>>

-----------------------------------------------------------------------------
(* A query.                                                                *)

Attached == conf.pc = "done" /\ writer.pc # "none"
SpanStarts(s) == {s[k].start : k \in {j \in DOMAIN s : s[j].end > s[j].start}}
SmallestOf(S, default) ==
  IF S = {} THEN default ELSE CHOOSE x \in S : \A y \in S : x <= y

(* logs: the endpoint, the memory and file ranges and the subscription are *)
(* taken in one section.  "disabled" recording still reads old files.      *)
Captured == IF Attached THEN store.spans
            ELSE IF conf.mode = "none" /\ content[1].len > 0 /\ Named(0) = 1
                 THEN <<Span(0, 1, content[1].from, 0)>> ELSE <<>>

Subscribe ==
  /\ query.pc = "none" /\ broker.state = "open" /\ conf.mode # "unset"
  /\ \E follow \in BOOLEAN :
       /\ query' = [NoQuery EXCEPT
            !.pc = "plan", !.follow = follow, !.endpoint = position,
            !.mem = hist.start, !.filed = Attached, !.files = Captured]
       /\ live' = IF follow THEN [on |-> TRUE, from |-> position,
                                  to |-> position, reason |-> "none"]
                  ELSE live
  /\ client' = [client EXCEPT !.first =
       SmallestOf(SpanStarts(Captured) \cup
                    (IF Recording /\ hist.start < position
                     THEN {hist.start} ELSE {}), position)]
  /\ UNCHANGED <<storageVars, position, hist, conf, sfailed, broker>>

Piece(kind, ino, s, e, off) ==
  [kind |-> kind, ino |-> ino, start |-> s, end |-> e, off |-> off,
   fend |-> e]
FilePiece(s, e) ==
  [Piece("file", s.ino, s.start, e, s.off) EXCEPT !.fend = s.end]

\* The elements of s at these places, in their order.
Rank(i, I) == Cardinality({j \in I : j <= i})
Keep(s, I) ==
  [n \in 1..Cardinality(I) |-> s[CHOOSE i \in I : Rank(i, I) = n]]

Newer(end) == Keep(store.spans, {k \in DOMAIN store.spans :
                                   store.spans[k].end > end})

BridgedUncut == query.files \o Newer(0)   \* mutant

(* The captured artifacts, and what current ones have added since. *)
Bridged ==
  LET oldEnd == IF query.files = <<>> THEN 0
                ELSE query.files[Len(query.files)].end
      cut(s) == [s EXCEPT !.start = Most(@, oldEnd),
                          !.off = @ + Most(0, oldEnd - s.start)]
      newer == Newer(oldEnd)
  IN query.files \o [k \in DOMAIN newer |-> cut(newer[k])]

FilesNow ==
  IF conf.mode = "none" THEN query.files
  ELSE IF ~Attached THEN <<>>
  ELSE IF query.filed THEN Bridged ELSE store.spans

(* Memory for the recent suffix, files before it, and a marked gap where *)
(* what was captured is gone.                                            *)
PlanOf(start) ==
  LET stop == IF Recording THEN Least(start, query.endpoint)
              ELSE query.endpoint
      now == FilesNow
      useful == Keep(now, {k \in DOMAIN now :
                             Least(now[k].end, stop) > now[k].start})
      files == [k \in DOMAIN useful |->
                  FilePiece(useful[k], Least(useful[k].end, stop))]
      memory == IF Recording /\ query.endpoint > start
                THEN <<Piece("memory", 0, start, query.endpoint, 0)>>
                ELSE <<>>
      spans == files \o memory
      expected == SmallestOf(SpanStarts(query.files), query.mem)
      end == IF spans = <<>> THEN query.endpoint
             ELSE Least(query.endpoint, spans[1].start)
      missing == /\ Recording /\ start > query.mem
                 /\ spans = <<>> \/ spans[1].start > expected
                 /\ end > expected
  IN IF missing THEN <<Piece("missing", 0, expected, end, 0)>> \o spans
     ELSE spans

Gapless(s) == \A k \in 2..Len(s) : s[k-1].end = s[k].start

(* replay plans with the memory that is left, after a bounded wait for the *)
(* files to reach it.                                                      *)
PlanReplay ==
  /\ query.pc = "plan"
  /\ LET start == Least(query.endpoint, Most(query.mem, hist.start))
         spans == PlanOf(start)
         ends == IF spans = <<>> THEN 0 ELSE spans[Len(spans)].end
     IN query' = [query EXCEPT
          !.pc = "replay", !.spans = spans,
          !.at = IF spans = <<>> THEN 0 ELSE spans[1].start,
          !.complete = /\ Gapless(spans)
                       /\ Recording => ends = query.endpoint]
  /\ UNCHANGED <<storageVars, position, hist, conf, sfailed, broker, live,
                 client>>

Piece1 == query.spans[1]
NextPiece == [query EXCEPT !.spans = Tail(@),
                !.at = IF Len(query.spans) > 1 THEN query.spans[2].start
                       ELSE @]
SkipPiece == [NextPiece EXCEPT !.complete = FALSE]

(* One bounded read: from memory if it still has it, *)
ReplayMemory ==
  /\ query.pc = "replay" /\ query.spans # <<>> /\ Piece1.kind # "file"
  /\ IF Piece1.kind = "missing" \/ query.at < hist.start
     THEN query' = SkipPiece /\ UNCHANGED client
     ELSE /\ client' = [client EXCEPT !.out = Append(@, query.at)]
          /\ query' = IF query.at + 1 = Piece1.end THEN NextPiece
                      ELSE [query EXCEPT !.at = @ + 1]
  /\ UNCHANGED <<storageVars, position, hist, conf, sfailed, broker, live>>

(* or from a file, by the reader of LogStorage. *)
StartRead ==
  /\ query.pc = "replay" /\ query.spans # <<>> /\ Piece1.kind = "file"
  /\ rd.pc = "idle"
  /\ rd' = [NoRead EXCEPT
       !.pc = IF conf.mode = "none" THEN "open" ELSE "lookup",
       !.span = [name |-> 0, ino |-> Piece1.ino, start |-> Piece1.start,
                 end |-> Piece1.fend, off |-> Piece1.off],
       !.at = query.at]
  /\ UNCHANGED <<names, content, store, writer, brokerVars>>

(* Disabled recording reads files that nothing renames. *)
ReadOld ==
  /\ rd.pc = "retained" /\ conf.mode = "none"
  /\ GoRead("done")
  /\ UNCHANGED <<names, content, store, writer, brokerVars>>

EndRead ==
  /\ rd.pc \in {"done", "unavailable"}
  /\ rd' = NoRead
  /\ IF rd.pc = "unavailable"
     THEN query' = SkipPiece /\ UNCHANGED client
     ELSE /\ client' = [client EXCEPT !.out = Append(@, rd.data)]
          /\ query' = IF query.at + 1 = Piece1.end THEN NextPiece
                      ELSE [query EXCEPT !.at = @ + 1]
  /\ UNCHANGED <<names, content, store, writer, position, hist, conf,
                 sfailed, broker, live>>

(* The end of the replay is told; an incomplete one never goes live. *)
EndReplay ==
  /\ query.pc = "replay" /\ query.spans = <<>>
  /\ IF query.complete
     THEN /\ query' = At(IF query.follow THEN "live" ELSE "ended")
          /\ client' = [client EXCEPT !.result = IF query.follow THEN "none"
                                                 ELSE "ok"]
          /\ UNCHANGED live
     ELSE /\ query' = [NoQuery EXCEPT !.pc = "ended"]
          /\ client' = FailedClient
          /\ live' = IF live.on THEN [NoLive EXCEPT !.reason = "client_closed"]
                     ELSE live
  /\ UNCHANGED <<storageVars, position, hist, conf, sfailed, broker>>

(* A round of the server takes a chunk from the follower's queue.  When it *)
(* found none, at says how much was published by then ...                  *)
ReceiveLive ==
  /\ query.pc = "live"
  /\ IF live.from < live.to
     THEN /\ client' = [client EXCEPT !.out = Append(@, live.from)]
          /\ live' = [live EXCEPT !.from = @ + 1]
          /\ UNCHANGED query
     ELSE /\ query' = [At("asked") EXCEPT !.at = position]
          /\ UNCHANGED <<client, live>>
  /\ UNCHANGED <<storageVars, position, hist, conf, sfailed, broker>>

(* ... and it looks at the close reason, under the lock once more: what was *)
(* published in between is not sent when the broker has closed meanwhile.   *)
LookReason ==
  /\ query.pc = "asked"
  /\ CASE live.reason = "none" ->
            query' = At("live") /\ UNCHANGED client
       [] live.reason = "broker_closed" ->
            /\ query' = [query EXCEPT !.pc = "ended"]
            /\ client' = [client EXCEPT !.result = "ok"]
       [] OTHER -> query' = At("ended") /\ client' = FailedClient
  /\ UNCHANGED <<storageVars, position, hist, conf, sfailed, broker, live>>

(* The peer leaves, is too slow, or the control server stops delivering. *)
PeerBreaks ==
  /\ query.pc \in {"plan", "replay", "live", "asked"} /\ rd.pc = "idle"
  /\ client' = FailedClient
  /\ query' = [NoQuery EXCEPT !.pc = "ended"]
  /\ live' = IF live.on THEN [NoLive EXCEPT !.reason = "client_closed"]
             ELSE live
  /\ UNCHANGED <<storageVars, position, hist, conf, sfailed, broker>>

-----------------------------------------------------------------------------
(* close: the primary descriptors are restored, the drains and the writer  *)
(* are given the deadline, and followers learn whether they have it all.   *)

BeginClose ==
  /\ broker.state = "open" /\ conf.pc \notin {"open", "attach"}
  /\ broker' = [broker EXCEPT !.state = "closing"]
  /\ UNCHANGED <<storageVars, position, hist, conf, sfailed, live, query,
                 client>>

(* The drains reach the end of their pipes, or the deadline passes; then *)
(* the writer is closed.                                                  *)
CloseWriter ==
  /\ broker.state = "closing"
  /\ \E drains \in {broker.drains, "ended"} :
       /\ drains = "ended" => broker.drains = "running"
       /\ broker' = [broker EXCEPT !.state = "joining", !.drains = drains]
       /\ writer' = IF writer.pc = "none" THEN writer
                    ELSE [writer EXCEPT !.closing = TRUE,
                                        !.abort = (drains = "running")]
  /\ UNCHANGED <<names, content, store, rd, position, hist, conf, sfailed,
                 live, query, client>>

(* The writer has ended, or too late: only then is the follower cut off. *)
CloseFollowers ==
  /\ broker.state = "joining"
  /\ LET ended == writer.pc \in {"none", "ended"}
     IN /\ writer' = [writer EXCEPT !.abort = @ \/ ~ended]
        /\ \E late \in BOOLEAN :
             /\ ~ended => late
             /\ broker' = [broker EXCEPT
                  !.state = "closed",
                  !.reason = IF ~late /\ broker.drains = "ended"
                             THEN "broker_closed" ELSE "broker_failed"]
  /\ live' = IF ~live.on THEN live
             ELSE IF broker'.reason = "broker_closed"
             THEN [live EXCEPT !.on = FALSE, !.reason = "broker_closed"]
             ELSE [live EXCEPT !.on = FALSE, !.reason = "broker_failed",
                               !.to = live.from]
  /\ UNCHANGED <<names, content, store, rd, position, hist, conf, sfailed,
                 query, client>>

-----------------------------------------------------------------------------

Next == \/ Publish \/ DrainFails \/ Configure \/ OpenStore \/ Attach
        \/ Subscribe \/ PlanReplay \/ ReplayMemory \/ StartRead \/ ReadOld
        \/ EndRead \/ EndReplay \/ ReceiveLive \/ LookReason \/ PeerBreaks
        \/ BeginClose \/ CloseWriter \/ CloseFollowers
        \/ (Write \/ Read) /\ UNCHANGED brokerVars

Spec == Init /\ [][Next]_vars

-----------------------------------------------------------------------------

LogsTypeOK ==
  /\ StorageTypeOK
  /\ hist.start <= hist.end /\ hist.end <= position
  /\ hist.end - hist.start <= Most(BootSize, FileSize)
  /\ live.to - live.from \in 0..FollowerSize
  /\ live.on => live.to = position

(* What a client writes is the log: in order, every byte once, and none    *)
(* that the log did not have there, whatever is rotated, evicted, reused   *)
(* or handed over while it is read (log_query.py:94, log_storage.py:454).  *)
WrittenIsTheLog ==
  \A k \in 2..Len(client.out) : client.out[k-1] < client.out[k]

(* A client that succeeds has written all from the oldest byte that was    *)
(* retained when it asked up to what existed then, and, following, all     *)
(* that was published until its queue was last found empty; what the       *)
(* broker published between that look and its close is the whole of the    *)
(* queue the end leaves behind (logging.py:486, 113, 128, 316).  Disabled  *)
(* recording has its announced gap.                                        *)
SuccessIsComplete ==
  client.result = "ok" =>
    LET low == IF client.out = <<>> THEN client.first
               ELSE Least(client.first, client.out[1])
    IN /\ {client.out[k] : k \in DOMAIN client.out} =
            (low..(IF Recording THEN query.endpoint - 1 ELSE -1))
              \cup (IF query.follow THEN query.endpoint..(query.at - 1) ELSE {})
       /\ query.follow => live.from = query.at /\ live.to = position

(* docs/dev/contracts.md:385 says of following: "Sole sender emits         *)
(* explicit live-end after final queued delivery".  The close may come     *)
(* between the two looks, with bytes in the queue: TLC refutes it.         *)
EndAfterQueue ==
  client.result = "ok" /\ query.follow => live.from = live.to

(* While file recording goes on, the files and their queue hold every byte *)
(* from the first one they were handed, also across the admission of the   *)
(* settings: enqueue never sees a byte out of order (logging.py:452).      *)
RecordingHasNoHole ==
  Attached /\ ~sfailed /\ ~writer.failed /\ ~writer.closing =>
    writer.next = position
=============================================================================
