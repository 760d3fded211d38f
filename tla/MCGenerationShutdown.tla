------------------------ MODULE MCGenerationShutdown ------------------------
(***************************************************************************)
(* Shutdown of one generation on a small clock.  The program's bounds are  *)
(* 5 s (auxiliaries, component stops), 4 s (child grace) and 2 s           *)
(* (reserve); here they are 2, 1 and 1 ticks, so that every order of the   *)
(* boundaries occurs: a budget below the reserve, between the reserve and  *)
(* the auxiliary bound, above it, and none at all.                         *)
(***************************************************************************)
EXTENDS GenerationShutdown

Timeouts == {0, 1, 3, 5, Unlimited}
AllPaths == ParallelPaths \cup SerialPaths

=============================================================================
