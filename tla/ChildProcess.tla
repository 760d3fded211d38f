---------------------------- MODULE ChildProcess ----------------------------
(***************************************************************************)
(* Children of the container's helper and the narrow operations it has on  *)
(* them: poll and reap, a cooperative signal, and force                    *)
(* (src/comfyui_docker_helper/container/process/control.py).  The kernel   *)
(* and the interpreter's process object are external: a child ends when it *)
(* likes, may ignore the cooperative signal, and cannot survive SIGKILL.   *)
(***************************************************************************)
CONSTANT Procs   \* the children this instance may own

VARIABLE proc    \* state, strongest signal sent, and whether it failed

NoChild == [is |-> "none", asked |-> "none", bad |-> FALSE]
ProcInit == proc = [p \in Procs |-> NoChild]

ProcType == [Procs -> [is : {"none", "running", "ended", "reaped"},
                       asked : {"none", "term", "kill"}, bad : BOOLEAN]]

Spawned(p) == [proc EXCEPT ![p] = [NoChild EXCEPT !.is = "running"]]

(* A thread that blocks in wait holds the object's lock: another thread's *)
(* poll then reports a child that has ended as running.                   *)
Terminal(p, held) == proc[p].is = "reaped" \/ (proc[p].is = "ended" /\ ~held)

(* The children after a poll that reports a terminal child has reaped it, *)
(* and after its object was dropped.                                      *)
Reaped(p) == [proc EXCEPT ![p].is = "reaped"]
Forgotten(p) == [proc EXCEPT ![p] = NoChild]

(* poll, then the signal; it reaches a live child only, and SIGTERM does *)
(* not take back a SIGKILL.                                              *)
Asked(p, held, sig) ==
  IF Terminal(p, held) THEN Reaped(p)
  ELSE [proc EXCEPT ![p].asked =
          IF proc[p].is # "running" \/ @ = "kill" THEN @ ELSE sig]

ChildEnds(p) ==
  /\ proc[p].is = "running"
  /\ \E b \in BOOLEAN : proc' = [proc EXCEPT ![p].is = "ended", ![p].bad = b]

KilledEnds(p) == proc[p].asked = "kill" /\ ChildEnds(p)

Live(p) == proc[p].is \in {"running", "ended"}
=============================================================================
