--------------------------- MODULE MCRuntimeServe ---------------------------
(***************************************************************************)
(* The serve loop on a small instance.  Two tickets give up to three       *)
(* generations: a first one, a successor that itself is replaced, and the  *)
(* replacement.  The middle one has no shutdown budget, so that an         *)
(* unlimited shutdown may end a successor and precede one.  Nothing else   *)
(* needs a bound.                                                          *)
(***************************************************************************)
EXTENDS RuntimeServe

=============================================================================
