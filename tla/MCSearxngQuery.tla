---------------------------- MODULE MCSearxngQuery ----------------------------
(* An instance of SearxngQuery for TLC.                                    *)
EXTENDS SearxngQuery

\* Two searches for the same words whose entries share the cache.
MCTwoRequests == {[caller |-> "web", q |-> "cat", page |-> 2],
                  [caller |-> "images", q |-> "cat", page |-> 1]}

MCLocalFirst == <<"local", "external">>
=============================================================================
