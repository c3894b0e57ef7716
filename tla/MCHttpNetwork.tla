--------------------------- MODULE MCHttpNetwork ---------------------------
(* An instance of HttpNetwork for TLC. *)
EXTENDS HttpNetwork

\* Every attempt after the first goes over another route than the one before.
\* docs/admin/settings/settings_outgoing.rst 86: "On each retry, SearXNG uses
\* an different proxy and source ip."
RetryTakesAnotherRoute ==
    [][\A c \in Fetches : tries'[c] # tries[c] /\ tries[c] > 0 =>
            on'[c][1] # on[c][1]]_vars
=============================================================================
