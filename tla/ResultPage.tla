------------------------------ MODULE ResultPage ------------------------------
(* A result page in a browser tab (templates/search/index.html), with the  *)
(* knowledge panel its script asks /api/wiki for and the answer it asks    *)
(* /ai for (core/routes/search.py, core/routes/ai.py).                     *)
(*                                                                         *)
(* The route of the panel climbs a ladder of requests to Wikipedia: the    *)
(* best title for the query, the summary of that title, and a full-text    *)
(* search with the summaries of its hits when the title is no article.     *)
(* Each request may fail.  Meanwhile the user may go on to another page:   *)
(* the handlers of a page that was left run to their end for nobody.       *)
(* Tabs share nothing, so there is one.                                    *)
EXTENDS Naturals, Sequences

CONSTANTS
    Titles,    \* titles of Wikipedia
    Nothing,   \* no title
    MaxHits,   \* srlimit of the full-text search
    MaxPages   \* bound: pages the user asks for

ASSUME PageAssumption ==
    /\ Nothing \notin Titles
    /\ MaxHits \in Nat
    /\ MaxPages \in Nat

Pages == 1..MaxPages
NoPage == 0

\* The answers of the full-text search: a title is found once.
HitLists == {h \in UNION {[1..n -> Titles] : n \in 0..MaxHits} :
                \A i, j \in DOMAIN h : h[i] = h[j] => i = j}

Rungs == {"off", "opensearch", "best", "fulltext", "hits", "done"}

VARIABLES
    articles,  \* the titles that are articles, the others are disambiguations
    asked,     \* pages asked for so far
    loading,   \* the page the tab is waiting for
    open,      \* the page in the tab
    panel,     \* panel[p]: what the page's script shows of the panel
    card,      \* card[p]: what it shows of the AI answer
    ai,        \* ai[p]: the page's request to /ai
    rung,      \* rung[p]: the next request of the page's /api/wiki handler
    best,      \* best[p]: titles[0] of the opensearch
    hits,      \* hits[p]: results of the full-text search
    next,      \* next[p]: the hit the handler looks at
    broken,    \* broken[p]: a request outside the loop over the hits failed
    missed,    \* missed[p]: the hits whose summaries failed
    reply      \* reply[p]: the title in the handler's infobox

tabVars    == <<asked, loading, open>>
scriptVars == <<panel, card, ai>>
climbVars  == <<rung, best, hits, next, broken, missed, reply>>
vars       == <<articles, tabVars, scriptVars, climbVars>>

TypeOK ==
    /\ articles \subseteq Titles
    /\ asked \in 0..MaxPages
    /\ loading \in Pages \cup {NoPage}
    /\ open \in Pages \cup {NoPage}
    /\ panel \in [Pages -> {"absent", "waiting", "hidden", "shown"}]
    /\ card \in [Pages -> {"absent", "waiting", "hidden", "shown"}]
    /\ ai \in [Pages -> {"absent", "asked", "answer", "error", "broken"}]
    /\ rung \in [Pages -> Rungs]
    /\ best \in [Pages -> Titles \cup {Nothing}]
    /\ hits \in [Pages -> HitLists]
    /\ next \in [Pages -> 1..(MaxHits + 1)]
    /\ broken \in [Pages -> BOOLEAN]
    /\ missed \in [Pages -> SUBSET (1..MaxHits)]
    /\ reply \in [Pages -> Titles \cup {Nothing}]

Init ==
    /\ articles \in SUBSET Titles
    /\ asked = 0
    /\ loading = NoPage
    /\ open = NoPage
    /\ panel = [p \in Pages |-> "absent"]
    /\ card = [p \in Pages |-> "absent"]
    /\ ai = [p \in Pages |-> "absent"]
    /\ rung = [p \in Pages |-> "off"]
    /\ best = [p \in Pages |-> Nothing]
    /\ hits = [p \in Pages |-> <<>>]
    /\ next = [p \in Pages |-> 1]
    /\ broken = [p \in Pages |-> FALSE]
    /\ missed = [p \in Pages |-> {}]
    /\ reply = [p \in Pages |-> Nothing]

-----------------------------------------------------------------------------
(* The tab.                                                                *)

(* The user searches or follows a link to another query.  A page the tab   *)
(* still waits for is given up; the page that is open stays, and its       *)
(* scripts run, until the new one is there.                                *)
Search ==
    /\ asked < MaxPages
    /\ asked' = asked + 1
    /\ loading' = asked + 1
    /\ UNCHANGED <<articles, open, scriptVars, climbVars>>

\* The open page, its scripts and its fetches are gone, page p takes its place.
Replace(f, p, value) ==
    [q \in Pages |-> IF q = p THEN value ELSE IF q = open THEN "absent" ELSE f[q]]

(* The page arrives and its scripts start their requests.  With an infobox *)
(* of the search engine there is no place for the panel.                   *)
Render ==
    /\ loading # NoPage
    /\ open' = loading
    /\ loading' = NoPage
    /\ card' = Replace(card, loading, "waiting")
    /\ ai' = Replace(ai, loading, "asked")
    /\ \/ /\ panel' = Replace(panel, loading, "absent")
          /\ UNCHANGED rung
       \/ /\ panel' = Replace(panel, loading, "waiting")
          /\ rung' = [rung EXCEPT ![loading] = "opensearch"]
    /\ UNCHANGED <<articles, asked, best, hits, next, broken, missed, reply>>

(* The navigation fails: the browser shows its own page.                   *)
RenderFails ==
    /\ loading # NoPage
    /\ open' = NoPage
    /\ loading' = NoPage
    /\ card' = Replace(card, loading, "absent")
    /\ ai' = Replace(ai, loading, "absent")
    /\ panel' = Replace(panel, loading, "absent")
    /\ UNCHANGED <<articles, asked, climbVars>>

-----------------------------------------------------------------------------
(* /api/wiki, for a page or for nobody any more.                           *)

Goto(p, r) == rung' = [rung EXCEPT ![p] = r]

\* The answer of the handler: a title's infobox or none.
Answer(p, t) ==
    /\ Goto(p, "done")
    /\ reply' = [reply EXCEPT ![p] = t]

(* Outside the loop over the hits a failed request leaves the handler by   *)
(* its outer except, with no infobox.                                      *)
RequestFails(p) ==
    /\ rung[p] \in {"opensearch", "best", "fulltext"}
    /\ broken' = [broken EXCEPT ![p] = TRUE]
    /\ Answer(p, Nothing)
    /\ UNCHANGED <<articles, tabVars, scriptVars, best, hits, next, missed>>

OpenSearch(p) ==
    /\ rung[p] = "opensearch"
    /\ \E t \in Titles \cup {Nothing} :
          /\ best' = [best EXCEPT ![p] = t]
          /\ Goto(p, IF t = Nothing THEN "fulltext" ELSE "best")
    /\ UNCHANGED <<articles, tabVars, scriptVars, hits, next, broken, missed, reply>>

\* Mutant: a best title that is a disambiguation is shown all the same.
BestSummaryUnchecked(p) ==
    /\ rung[p] = "best"
    /\ Answer(p, best[p])
    /\ UNCHANGED <<articles, tabVars, scriptVars, best, hits, next, broken, missed>>

BestSummary(p) ==
    /\ rung[p] = "best"
    /\ \/ /\ best[p] \in articles
          /\ Answer(p, best[p])
       \/ /\ best[p] \notin articles
          /\ Goto(p, "fulltext")
          /\ UNCHANGED reply
    /\ UNCHANGED <<articles, tabVars, scriptVars, best, hits, next, broken, missed>>

FullText(p) ==
    /\ rung[p] = "fulltext"
    /\ \E h \in HitLists : hits' = [hits EXCEPT ![p] = h]
    /\ Goto(p, "hits")
    /\ UNCHANGED <<articles, tabVars, scriptVars, best, next, broken, missed, reply>>

(* The summary of a hit: the first article is the answer, and a hit that   *)
(* is none is passed over.                                                 *)
HitSummary(p) ==
    /\ rung[p] = "hits" /\ next[p] <= Len(hits[p])
    /\ \/ /\ hits[p][next[p]] \in articles
          /\ Answer(p, hits[p][next[p]])
          /\ UNCHANGED next
       \/ /\ hits[p][next[p]] \notin articles
          /\ next' = [next EXCEPT ![p] = @ + 1]
          /\ UNCHANGED <<rung, reply>>
    /\ UNCHANGED <<articles, tabVars, scriptVars, best, hits, broken, missed>>

\* Mutant: the except in the loop ends the search.
HitFailureEnds(p) ==
    /\ rung[p] = "hits" /\ next[p] <= Len(hits[p])
    /\ missed' = [missed EXCEPT ![p] = @ \cup {next[p]}]
    /\ Answer(p, Nothing)
    /\ UNCHANGED <<articles, tabVars, scriptVars, best, hits, next, broken>>

\* A hit whose summary fails is passed over like one that is no article.
HitFails(p) ==
    /\ rung[p] = "hits" /\ next[p] <= Len(hits[p])
    /\ missed' = [missed EXCEPT ![p] = @ \cup {next[p]}]
    /\ next' = [next EXCEPT ![p] = @ + 1]
    /\ UNCHANGED <<articles, tabVars, scriptVars, rung, best, hits, broken, reply>>

NoHitFits(p) ==
    /\ rung[p] = "hits" /\ next[p] > Len(hits[p])
    /\ Answer(p, Nothing)
    /\ UNCHANGED <<articles, tabVars, scriptVars, best, hits, next, broken, missed>>

-----------------------------------------------------------------------------
(* The scripts of the open page.                                           *)

\* An infobox is shown; an answer without one leaves the panel hidden.
PanelArrives(p) ==
    /\ open = p /\ panel[p] = "waiting" /\ rung[p] = "done"
    /\ panel' = [panel EXCEPT ![p] = IF reply[p] = Nothing THEN "hidden" ELSE "shown"]
    /\ UNCHANGED <<articles, tabVars, card, ai, climbVars>>

(* The fetch itself fails: the catch does nothing, and the panel stays     *)
(* hidden.                                                                 *)
PanelFails(p) ==
    /\ open = p /\ panel[p] = "waiting"
    /\ panel' = [panel EXCEPT ![p] = "hidden"]
    /\ UNCHANGED <<articles, tabVars, card, ai, climbVars>>

(* /ai, or the provider behind it: an answer, an error or a broken         *)
(* connection.                                                             *)
AiReplies(p) ==
    /\ ai[p] = "asked"
    /\ \E r \in {"answer", "error", "broken"} : ai' = [ai EXCEPT ![p] = r]
    /\ UNCHANGED <<articles, tabVars, panel, card, climbVars>>

\* The card shows an answer and goes away with an error.
CardArrives(p) ==
    /\ open = p /\ card[p] = "waiting" /\ ai[p] \in {"answer", "error"}
    /\ card' = [card EXCEPT ![p] = IF ai[p] = "answer" THEN "shown" ELSE "hidden"]
    /\ UNCHANGED <<articles, tabVars, panel, ai, climbVars>>

\* Mutant: the card's catch does nothing, as the panel's does.
CardIgnores(p) ==
    /\ open = p /\ card[p] = "waiting" /\ ai[p] = "broken"
    /\ UNCHANGED vars

\* The catch of the fetch hides the card.
CardCatches(p) ==
    /\ open = p /\ card[p] = "waiting" /\ ai[p] = "broken"
    /\ card' = [card EXCEPT ![p] = "hidden"]
    /\ UNCHANGED <<articles, tabVars, panel, ai, climbVars>>

-----------------------------------------------------------------------------
Climb(p) ==
    \/ RequestFails(p)
    \/ OpenSearch(p)
    \/ BestSummary(p)
    \/ FullText(p)
    \/ HitSummary(p)
    \/ HitFails(p)
    \/ NoHitFits(p)

Script(p) == PanelArrives(p) \/ CardArrives(p) \/ CardCatches(p)

Next ==
    \/ Search
    \/ Render
    \/ RenderFails
    \/ \E p \in Pages : Climb(p) \/ Script(p) \/ PanelFails(p) \/ AiReplies(p)

Spec == Init /\ [][Next]_vars

(* Requests to Wikipedia have a timeout of 5 s, the client of the AI has   *)
(* one as well, and a browser runs the callbacks of an open page.  Nothing *)
(* makes the user search, a page arrive or a fetch fail.                   *)
Fairness ==
    \A p \in Pages : WF_vars(Climb(p)) /\ WF_vars(AiReplies(p)) /\ WF_vars(Script(p))

FairSpec == Spec /\ Fairness

-----------------------------------------------------------------------------
(* A panel that is shown is the article of the best title, or, when that   *)
(* title is no article, the first article among the hits whose summary     *)
(* did not fail: failures of other hits only move it on, and whatever      *)
(* happens no disambiguation is shown.                                     *)
PanelIsFirstFit ==
    \A p \in Pages : panel[p] = "shown" =>
        /\ rung[p] = "done" /\ reply[p] \in articles
        /\ \/ reply[p] = best[p]
           \/ /\ best[p] \notin articles
              /\ \E i \in DOMAIN hits[p] :
                    /\ hits[p][i] = reply[p]
                    /\ \A j \in 1..(i - 1) : hits[p][j] \in articles => j \in missed[p]

(* A handler that has no infobox to give has a reason: a request before    *)
(* the loop over the hits failed, or neither the best title nor a hit that *)
(* could be read is an article.  One hit that fails is no reason to hide   *)
(* the article behind it.                                                  *)
EmptyPanelHasAReason ==
    \A p \in Pages : rung[p] = "done" /\ reply[p] = Nothing =>
        \/ broken[p]
        \/ /\ best[p] \notin articles
           /\ \A i \in DOMAIN hits[p] : hits[p][i] \in articles => i \in missed[p]

(* A page the user stays on settles: the panel and the card do not go on   *)
(* waiting, whatever Wikipedia and the AI do.                              *)
Settled(p) == open # p \/ (panel[p] # "waiting" /\ card[p] # "waiting")

PageSettles == \A p \in Pages : open = p ~> Settled(p)

(* The requests the handler of a page makes at most from where it stands:  *)
(* the rungs of the ladder, the last of them once for each hit.            *)
RungsLeft(p) ==
    CASE rung[p] \in {"off", "done"} -> 0
      [] rung[p] = "hits"            -> MaxHits + 2 - next[p]
      [] rung[p] = "fulltext"        -> MaxHits + 2
      [] rung[p] = "best"            -> MaxHits + 3
      [] rung[p] = "opensearch"      -> MaxHits + 4

(* Why the handler of a page ends, whether its page is still open or not:  *)
(* whatever a request to Wikipedia brings, and when it fails as well, fewer *)
(* of them are left, and nothing the user or the scripts do starts the     *)
(* ladder of a page again.                                                 *)
ClimbsAdvance ==
    [][\A p \in Pages :
          IF Climb(p)
          THEN RungsLeft(p)' \in Nat /\ RungsLeft(p)' < RungsLeft(p)
          ELSE rung[p] # "off" => RungsLeft(p)' = RungsLeft(p)]_vars
=============================================================================
