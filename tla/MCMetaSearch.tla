---------------------------- MODULE MCMetaSearch ----------------------------
(* Values of the constants of MetaSearch that a cfg cannot write. *)
EXTENDS MetaSearch
CONSTANTS r1, r2, web, wiki, map, news, none, a, box

MCNetworkOf == [e \in Engines |-> IF e = web THEN "own" ELSE "shared"]
MCEngineTimeout == [e \in Engines |-> IF e = wiki THEN 2 ELSE 1]
MCOutcomes == [e \in Engines |-> CASE e = web -> {"list", "error", "invalid"}
                               [] e = wiki -> {"list", "none", "banning"}
                               [] OTHER -> {"banning"}]
MCAnswers == [e \in Engines |-> CASE e = web -> {<<a, a>>} [] e = wiki -> {<<a>>, <<box, box>>} [] OTHER -> {}]
MCQueries == [r \in Requests |-> {
    [engines |-> IF r = r1 THEN <<web, news, wiki>> ELSE <<map>>, unsupported |-> {news}, timeout_limit |-> IF r = r1 THEN 1 ELSE none]}]
=============================================================================
