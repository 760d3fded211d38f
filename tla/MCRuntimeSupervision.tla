----------------------- MODULE MCRuntimeSupervision -----------------------
(* sshd without hooks and producers; one hook per phase around an sshd     *)
(* with a key; and producers that overflow queues of one, with or without  *)
(* the ssh monitor among them.                                             *)
EXTENDS RuntimeSupervision
MCProcs == Commands \cup {"sshd", "hook"}
Ssh(e, k, p) == [enable |-> e, keys |-> k, password |-> p]
Off == Ssh(FALSE, FALSE, FALSE)
NoHooks == [pre |-> 0, post |-> 0]
OneEach == [pre |-> 1, post |-> 1]
Scenario(s, h, q, n) == [ssh |-> s, hooks |-> h, quiet |-> q, offers |-> n]
MCScenarios ==
  {Scenario(Ssh(TRUE, k, p), NoHooks, TRUE, 0) : k \in BOOLEAN, p \in BOOLEAN}
    \cup {Scenario(Ssh(TRUE, TRUE, FALSE), OneEach, TRUE, 0),
          Scenario(Ssh(TRUE, TRUE, FALSE), NoHooks, TRUE, 1),
          Scenario(Off, [pre |-> 2, post |-> 0], TRUE, 0),
          Scenario(Off, NoHooks, FALSE, 2)}
=============================================================================
