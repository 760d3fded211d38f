-------------------------- MODULE MCRuntimeDownloads --------------------------
(* Queues of up to two items of either kind.                              *)
EXTENDS RuntimeDownloads
MCPlans == {[sync |-> s, async |-> a] :
              s \in {<<>>, <<"aria2">>, <<"httpx">>},
              a \in {<<>>, <<"aria2", "aria2">>, <<"httpx", "aria2">>,
                     <<"httpx", "httpx">>}}
=============================================================================
