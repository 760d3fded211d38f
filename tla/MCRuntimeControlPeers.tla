------------------------ MODULE MCRuntimeControlPeers ------------------------
(***************************************************************************)
(* Clients of the control endpoint.  Every client may be the one that the  *)
(* limit of peers turns away, so they are symmetric; the liveness run uses *)
(* no symmetry.                                                            *)
(***************************************************************************)
EXTENDS RuntimeControlPeers, TLC

Symmetry == Permutations(Tickets)

=============================================================================
