---------------------------- MODULE ResultPageProofs ----------------------------
(* What ResultPage promises for any titles of Wikipedia, any limit of the  *)
(* full-text search and any number of pages.                               *)
EXTENDS ResultPage, TLAPS

USE PageAssumption DEF Pages, NoPage, Rungs

-----------------------------------------------------------------------------
(* The inductive invariant.                                                *)

(* What the handler of page p has behind it when it stands on its rung.    *)
Climbing(p) ==
    /\ rung[p] \in {"off", "opensearch"} => best[p] = Nothing /\ reply[p] = Nothing
    /\ rung[p] = "best" => best[p] \in Titles
    /\ rung[p] = "hits" =>
          /\ best[p] \notin articles
          /\ next[p] <= Len(hits[p]) + 1
          /\ \A j \in 1..(next[p] - 1) : hits[p][j] \in articles => j \in missed[p]
    /\ rung[p] \in {"off", "opensearch", "best", "fulltext"} => next[p] = 1
    /\ rung[p] = "fulltext" => best[p] \notin articles

(* The infobox a handler gave is the first fit, and an infobox it did not  *)
(* give has a reason.                                                      *)
FirstFit(p) ==
    /\ reply[p] \in articles
    /\ \/ reply[p] = best[p]
       \/ /\ best[p] \notin articles
          /\ \E i \in DOMAIN hits[p] :
                /\ hits[p][i] = reply[p]
                /\ \A j \in 1..(i - 1) : hits[p][j] \in articles => j \in missed[p]

HasAReason(p) ==
    \/ broken[p]
    \/ /\ best[p] \notin articles
       /\ \A i \in DOMAIN hits[p] : hits[p][i] \in articles => i \in missed[p]

Answered(p) ==
    rung[p] = "done" => IF reply[p] = Nothing THEN HasAReason(p) ELSE FirstFit(p)

\* A panel that is shown has been asked for and answered.
Showing(p) == panel[p] = "shown" => rung[p] = "done" /\ reply[p] # Nothing

(* A page that was not asked for yet has no handler: the next one starts   *)
(* on the first rung.                                                      *)
Fresh ==
    /\ loading # NoPage =>
          loading <= asked /\ rung[loading] = "off" /\ panel[loading] = "absent"
    /\ \A p \in Pages : p > asked => rung[p] = "off" /\ panel[p] = "absent"
    /\ open # NoPage => open <= asked

IInv == TypeOK /\ Fresh /\ \A p \in Pages : Climbing(p) /\ Answered(p) /\ Showing(p)

-----------------------------------------------------------------------------
\* A list of hits has at most MaxHits of them.
LEMMA HitsAreLists ==
    ASSUME NEW h \in HitLists
    PROVE  /\ h \in Seq(Titles) /\ Len(h) \in 0..MaxHits /\ DOMAIN h = 1..Len(h)
           /\ \A i \in 1..Len(h) : h[i] \in Titles
<1>1. PICK n \in 0..MaxHits : h \in [1..n -> Titles]
  BY DEF HitLists
<1>2. h \in Seq(Titles) /\ Len(h) = n /\ DOMAIN h = 1..n
  BY <1>1
<1> QED
  BY <1>1, <1>2

LEMMA NoHits == <<>> \in HitLists
<1>1. <<>> \in [1..0 -> Titles]
  OBVIOUS
<1>2. <<>> \in UNION {[1..n -> Titles] : n \in 0..MaxHits}
  BY <1>1
<1> QED
  BY <1>2 DEF HitLists

LEMMA IInvInit == Init => IInv
<1> SUFFICES ASSUME Init PROVE IInv
  OBVIOUS
<1>1. TypeOK
  BY NoHits DEF Init, TypeOK
<1>2. Fresh
  BY DEF Init, Fresh
<1>3. \A p \in Pages : Climbing(p) /\ Answered(p) /\ Showing(p)
  BY DEF Init, Climbing, Answered, Showing
<1> QED
  BY <1>1, <1>2, <1>3 DEF IInv

(* Types: one step per action.                                             *)
LEMMA TypesStep == IInv /\ [Next]_vars => TypeOK'
<1> SUFFICES ASSUME IInv, [Next]_vars PROVE TypeOK'
  OBVIOUS
<1>0. TypeOK
  BY DEF IInv
<1>1. ASSUME Search PROVE TypeOK'
  BY <1>0, <1>1 DEF TypeOK, tabVars, scriptVars, climbVars, Search
<1>2. ASSUME Render PROVE TypeOK'
  BY <1>0, <1>2 DEF TypeOK, tabVars, scriptVars, climbVars, Render, Replace
<1>3. ASSUME RenderFails PROVE TypeOK'
  BY <1>0, <1>3
  DEF TypeOK, tabVars, scriptVars, climbVars, RenderFails, Replace
<1>4. ASSUME NEW p \in Pages, RequestFails(p) PROVE TypeOK'
  BY <1>0, <1>4
  DEF TypeOK, tabVars, scriptVars, climbVars, RequestFails, Answer, Goto
<1>5. ASSUME NEW p \in Pages, OpenSearch(p) PROVE TypeOK'
  BY <1>0, <1>5 DEF TypeOK, tabVars, scriptVars, climbVars, OpenSearch, Goto
<1>6. ASSUME NEW p \in Pages, BestSummary(p) PROVE TypeOK'
  BY <1>0, <1>6
  DEF TypeOK, tabVars, scriptVars, climbVars, BestSummary, Answer, Goto
<1>7. ASSUME NEW p \in Pages, FullText(p) PROVE TypeOK'
  BY <1>0, <1>7 DEF TypeOK, tabVars, scriptVars, climbVars, FullText, Goto
<1>8. ASSUME NEW p \in Pages, HitSummary(p) PROVE TypeOK'
  <2>1. hits[p] \in HitLists
    BY <1>0 DEF TypeOK
  <2>2. next[p] \in 1..MaxHits /\ hits[p][next[p]] \in Titles
    BY <1>0, <1>8, <2>1, HitsAreLists DEF TypeOK, HitSummary
  <2>3. next' \in [Pages -> 1..(MaxHits + 1)]
    <3>1. next' = next \/ next' = [next EXCEPT ![p] = next[p] + 1]
      BY <1>8 DEF HitSummary
    <3>2. next[p] + 1 \in 1..(MaxHits + 1) /\ next \in [Pages -> 1..(MaxHits + 1)]
      BY <1>0, <2>2 DEF TypeOK
    <3> QED
      BY <3>1, <3>2
  <2>4. reply' \in [Pages -> Titles \cup {Nothing}]
    BY <1>0, <1>8, <2>2 DEF TypeOK, HitSummary, Answer
  <2>5. rung' \in [Pages -> Rungs]
    BY <1>0, <1>8 DEF TypeOK, HitSummary, Answer, Goto
  <2> QED
    BY <1>0, <1>8, <2>3, <2>4, <2>5 DEF TypeOK, tabVars, scriptVars, HitSummary
<1>9. ASSUME NEW p \in Pages, HitFails(p) PROVE TypeOK'
  <2>1. hits[p] \in HitLists
    BY <1>0 DEF TypeOK
  <2>2. next[p] \in 1..MaxHits /\ hits[p][next[p]] \in Titles
    BY <1>0, <1>9, <2>1, HitsAreLists DEF TypeOK, HitFails
  <2> QED
    BY <1>0, <1>9, <2>2 DEF TypeOK, tabVars, scriptVars, climbVars, HitFails
<1>10. ASSUME NEW p \in Pages, NoHitFits(p) PROVE TypeOK'
  BY <1>0, <1>10
  DEF TypeOK, tabVars, scriptVars, climbVars, NoHitFits, Answer, Goto
<1>11. ASSUME NEW p \in Pages, PanelArrives(p) PROVE TypeOK'
  BY <1>0, <1>11 DEF TypeOK, tabVars, scriptVars, climbVars, PanelArrives
<1>12. ASSUME NEW p \in Pages, CardArrives(p) PROVE TypeOK'
  BY <1>0, <1>12 DEF TypeOK, tabVars, scriptVars, climbVars, CardArrives
<1>13. ASSUME NEW p \in Pages, CardCatches(p) PROVE TypeOK'
  BY <1>0, <1>13 DEF TypeOK, tabVars, scriptVars, climbVars, CardCatches
<1>14. ASSUME NEW p \in Pages, PanelFails(p) PROVE TypeOK'
  BY <1>0, <1>14 DEF TypeOK, tabVars, scriptVars, climbVars, PanelFails
<1>15. ASSUME NEW p \in Pages, AiReplies(p) PROVE TypeOK'
  BY <1>0, <1>15 DEF TypeOK, tabVars, scriptVars, climbVars, AiReplies
<1>16. ASSUME UNCHANGED vars PROVE TypeOK'
  BY <1>0, <1>16 DEF TypeOK, tabVars, scriptVars, climbVars, vars
<1> QED
  BY <1>1, <1>2, <1>3, <1>4, <1>5, <1>6, <1>7, <1>8, <1>9, <1>10, <1>11, <1>12,
     <1>13, <1>14, <1>15, <1>16
     DEF Next, Climb, Script

(* A page that was not asked for yet has no handler.                       *)
LEMMA FreshStep == IInv /\ [Next]_vars => Fresh'
<1> SUFFICES ASSUME IInv, [Next]_vars PROVE Fresh'
  OBVIOUS
<1>0. TypeOK /\ Fresh
  BY DEF IInv
<1>1. ASSUME Search PROVE Fresh'
  BY <1>0, <1>1 DEF TypeOK, Fresh, tabVars, scriptVars, climbVars, Search
<1>2. ASSUME Render PROVE Fresh'
  BY <1>0, <1>2
  DEF TypeOK, Fresh, tabVars, scriptVars, climbVars, Render, Replace
<1>3. ASSUME RenderFails PROVE Fresh'
  BY <1>0, <1>3
  DEF TypeOK, Fresh, tabVars, scriptVars, climbVars, RenderFails, Replace
<1>4. ASSUME NEW p \in Pages, RequestFails(p) PROVE Fresh'
  BY <1>0, <1>4
  DEF TypeOK, Fresh, tabVars, scriptVars, climbVars, RequestFails, Answer, Goto
<1>5. ASSUME NEW p \in Pages, OpenSearch(p) PROVE Fresh'
  BY <1>0, <1>5
  DEF TypeOK, Fresh, tabVars, scriptVars, climbVars, OpenSearch, Goto
<1>6. ASSUME NEW p \in Pages, BestSummary(p) PROVE Fresh'
  BY <1>0, <1>6
  DEF TypeOK, Fresh, tabVars, scriptVars, climbVars, BestSummary, Answer, Goto
<1>7. ASSUME NEW p \in Pages, FullText(p) PROVE Fresh'
  BY <1>0, <1>7
  DEF TypeOK, Fresh, tabVars, scriptVars, climbVars, FullText, Goto
<1>8. ASSUME NEW p \in Pages, HitSummary(p) PROVE Fresh'
  BY <1>0, <1>8
  DEF TypeOK, Fresh, tabVars, scriptVars, climbVars, HitSummary, Answer, Goto
<1>9. ASSUME NEW p \in Pages, HitFails(p) PROVE Fresh'
  BY <1>0, <1>9 DEF TypeOK, Fresh, tabVars, scriptVars, climbVars, HitFails
<1>10. ASSUME NEW p \in Pages, NoHitFits(p) PROVE Fresh'
  BY <1>0, <1>10
  DEF TypeOK, Fresh, tabVars, scriptVars, climbVars, NoHitFits, Answer, Goto
<1>11. ASSUME NEW p \in Pages, PanelArrives(p) PROVE Fresh'
  BY <1>0, <1>11
  DEF TypeOK, Fresh, tabVars, scriptVars, climbVars, PanelArrives
<1>12. ASSUME NEW p \in Pages, CardArrives(p) PROVE Fresh'
  BY <1>0, <1>12 DEF TypeOK, Fresh, tabVars, scriptVars, climbVars, CardArrives
<1>13. ASSUME NEW p \in Pages, CardCatches(p) PROVE Fresh'
  BY <1>0, <1>13 DEF TypeOK, Fresh, tabVars, scriptVars, climbVars, CardCatches
<1>14. ASSUME NEW p \in Pages, PanelFails(p) PROVE Fresh'
  BY <1>0, <1>14 DEF TypeOK, Fresh, tabVars, scriptVars, climbVars, PanelFails
<1>15. ASSUME NEW p \in Pages, AiReplies(p) PROVE Fresh'
  BY <1>0, <1>15 DEF TypeOK, Fresh, tabVars, scriptVars, climbVars, AiReplies
<1>16. ASSUME UNCHANGED vars PROVE Fresh'
  BY <1>0, <1>16 DEF TypeOK, Fresh, tabVars, scriptVars, climbVars, vars
<1> QED
  BY <1>1, <1>2, <1>3, <1>4, <1>5, <1>6, <1>7, <1>8, <1>9, <1>10, <1>11, <1>12,
     <1>13, <1>14, <1>15, <1>16
     DEF Next, Climb, Script

(* What is said about a page depends on its own handler and panel only.    *)
Same(q) ==
    /\ articles' = articles
    /\ rung'[q] = rung[q] /\ best'[q] = best[q] /\ hits'[q] = hits[q]
    /\ next'[q] = next[q] /\ broken'[q] = broken[q] /\ missed'[q] = missed[q]
    /\ reply'[q] = reply[q]

About(q) == Climbing(q) /\ Answered(q) /\ Showing(q)

LEMMA SameStays ==
    ASSUME NEW q \in Pages, Same(q), About(q),
           panel'[q] = "shown" => panel[q] = "shown" \/ (rung[q] = "done" /\ reply[q] # Nothing)
    PROVE  About(q)'
<1>1. Climbing(q)'
  BY DEF Same, About, Climbing
<1>2. Answered(q)'
  BY DEF Same, About, Answered, HasAReason, FirstFit
<1>3. Showing(q)'
  BY DEF Same, About, Showing
<1> QED
  BY <1>1, <1>2, <1>3 DEF About

LEMMA AboutStep == IInv /\ [Next]_vars => \A q \in Pages : About(q)'
<1> SUFFICES ASSUME IInv, [Next]_vars, NEW q \in Pages PROVE About(q)'
  OBVIOUS
<1>0. TypeOK /\ Fresh /\ About(q) /\ hits[q] \in HitLists
  BY DEF IInv, About, TypeOK
<1>l. /\ Len(hits[q]) \in 0..MaxHits /\ DOMAIN hits[q] = 1..Len(hits[q])
      /\ \A i \in 1..Len(hits[q]) : hits[q][i] \in Titles
  BY <1>0, HitsAreLists
<1>1. ASSUME Search PROVE About(q)'
  <2>1. Same(q)
    BY <1>1 DEF Same, tabVars, scriptVars, climbVars, Search
  <2>2. panel'[q] = "shown" => panel[q] = "shown" \/ (rung[q] = "done" /\ reply[q] # Nothing)
    BY <1>0, <1>1 DEF TypeOK, tabVars, scriptVars, climbVars, Search
  <2> QED
    BY <1>0, <2>1, <2>2, SameStays
<1>2. ASSUME Render PROVE About(q)'
  <2>1. CASE q # loading
    <3>1. Same(q)
      BY <1>0, <1>2, <2>1 DEF Same, TypeOK, Render
    <3>2. panel'[q] = "shown" => panel[q] = "shown"
      BY <1>0, <1>2, <2>1 DEF TypeOK, Render, Replace
    <3> QED
      BY <1>0, <3>1, <3>2, SameStays
  <2>2. CASE q = loading
    <3>1. rung[q] = "off" /\ rung'[q] \in {"off", "opensearch"} /\ panel'[q] # "shown"
      BY <1>0, <1>2, <2>2 DEF Fresh, TypeOK, Render, Replace
    <3>2. best'[q] = Nothing /\ reply'[q] = Nothing /\ next'[q] = 1
      BY <1>0, <1>2, <3>1 DEF About, Climbing, Render
    <3> QED
      BY <3>1, <3>2 DEF About, Climbing, Answered, Showing
  <2> QED
    BY <2>1, <2>2
<1>3. ASSUME RenderFails PROVE About(q)'
  <2>1. Same(q)
    BY <1>3 DEF Same, tabVars, scriptVars, climbVars, RenderFails, Replace
  <2>2. panel'[q] = "shown" => panel[q] = "shown" \/ (rung[q] = "done" /\ reply[q] # Nothing)
    BY <1>0, <1>3
    DEF TypeOK, tabVars, scriptVars, climbVars, RenderFails, Replace
  <2> QED
    BY <1>0, <2>1, <2>2, SameStays
<1>4. ASSUME NEW p \in Pages, RequestFails(p) PROVE About(q)'
  <2>1. CASE q # p
    <3>1. Same(q) /\ panel' = panel
      BY <1>0, <1>4, <2>1
      DEF Same, TypeOK, tabVars, scriptVars, climbVars, RequestFails, Answer,
          Goto
    <3> QED
      BY <1>0, <3>1, SameStays
  <2>2. CASE q = p
    <3>1. rung'[q] = "done" /\ reply'[q] = Nothing /\ broken'[q] /\ panel' = panel
      BY <1>0, <1>4, <2>2 DEF TypeOK, scriptVars, RequestFails, Answer, Goto
    <3>2. panel'[q] # "shown"
      BY <1>0, <1>4, <2>2, <3>1 DEF About, Showing, RequestFails
    <3> QED
      BY <3>1, <3>2 DEF About, Climbing, Answered, HasAReason, Showing
  <2> QED
    BY <2>1, <2>2
<1>5. ASSUME NEW p \in Pages, OpenSearch(p) PROVE About(q)'
  <2>1. CASE q # p
    <3>1. Same(q) /\ panel' = panel
      BY <1>0, <1>5, <2>1
      DEF Same, TypeOK, tabVars, scriptVars, climbVars, OpenSearch, Goto
    <3> QED
      BY <1>0, <3>1, SameStays
  <2>2. CASE q = p
    <3>1. /\ rung'[q] \in {"fulltext", "best"} /\ panel' = panel /\ articles' = articles /\ next' = next
          /\ best'[q] \in Titles \cup {Nothing}
          /\ rung'[q] = IF best'[q] = Nothing THEN "fulltext" ELSE "best"
      BY <1>0, <1>5, <2>2 DEF TypeOK, scriptVars, OpenSearch, Goto
    <3>2. panel'[q] # "shown" /\ Nothing \notin articles' /\ next[q] = 1
      BY <1>0, <1>5, <2>2, <3>1
      DEF TypeOK, About, Showing, Climbing, OpenSearch
    <3> QED
      BY <3>1, <3>2 DEF About, Climbing, Answered, Showing
  <2> QED
    BY <2>1, <2>2
<1>6. ASSUME NEW p \in Pages, BestSummary(p) PROVE About(q)'
  <2>1. CASE q # p
    <3>1. Same(q) /\ panel' = panel
      BY <1>0, <1>6, <2>1
      DEF Same, TypeOK, tabVars, scriptVars, climbVars, BestSummary, Answer,
          Goto
    <3> QED
      BY <1>0, <3>1, SameStays
  <2>2. CASE q = p
    <3>1. /\ panel' = panel /\ articles' = articles /\ best' = best /\ next' = next
          /\ \/ best[q] \in articles /\ rung'[q] = "done" /\ reply'[q] = best[q]
             \/ best[q] \notin articles /\ rung'[q] = "fulltext"
      BY <1>0, <1>6, <2>2 DEF TypeOK, scriptVars, BestSummary, Answer, Goto
    <3>2. panel'[q] # "shown" /\ Nothing \notin articles' /\ next[q] = 1
      BY <1>0, <1>6, <2>2, <3>1
      DEF TypeOK, About, Showing, Climbing, BestSummary
    <3> QED
      BY <3>1, <3>2 DEF About, Climbing, Answered, FirstFit, Showing
  <2> QED
    BY <2>1, <2>2
<1>7. ASSUME NEW p \in Pages, FullText(p) PROVE About(q)'
  <2>1. CASE q # p
    <3>1. Same(q) /\ panel' = panel
      BY <1>0, <1>7, <2>1
      DEF Same, TypeOK, tabVars, scriptVars, climbVars, FullText, Goto
    <3> QED
      BY <1>0, <3>1, SameStays
  <2>2. CASE q = p
    <3>1. /\ rung'[q] = "hits" /\ panel' = panel /\ articles' = articles /\ best' = best
          /\ next' = next /\ hits'[q] \in HitLists
      BY <1>0, <1>7, <2>2 DEF TypeOK, scriptVars, FullText, Goto
    <3>2. panel'[q] # "shown" /\ best[q] \notin articles
      BY <1>0, <1>7, <2>2, <3>1 DEF About, Showing, Climbing, FullText
    <3>3. next[q] = 1
      BY <1>0, <1>7, <2>2 DEF About, Climbing, FullText
    <3>4. Len(hits'[q]) \in Nat
      BY <3>1, HitsAreLists
    <3>5. Climbing(q)'
      BY <3>1, <3>2, <3>3, <3>4 DEF Climbing
    <3> QED
      BY <3>1, <3>2, <3>5 DEF About, Answered, Showing
  <2> QED
    BY <2>1, <2>2
<1>8. ASSUME NEW p \in Pages, HitSummary(p) PROVE About(q)'
  <2>1. CASE q # p
    <3>1. Same(q) /\ panel' = panel
      BY <1>0, <1>8, <2>1
      DEF Same, TypeOK, tabVars, scriptVars, climbVars, HitSummary, Answer,
          Goto
    <3> QED
      BY <1>0, <3>1, SameStays
  <2>2. CASE q = p
    <3>0. /\ panel' = panel /\ articles' = articles /\ best' = best /\ hits' = hits
          /\ missed' = missed /\ next[q] \in 1..Len(hits[q]) /\ best[q] \notin articles
          /\ \A j \in 1..(next[q] - 1) : hits[q][j] \in articles => j \in missed[q]
      BY <1>0, <1>l, <1>8, <2>2
      DEF TypeOK, scriptVars, HitSummary, Answer, Goto, About, Climbing
    <3>1. panel'[q] # "shown" /\ Nothing \notin articles'
      BY <1>0, <1>8, <2>2, <3>0 DEF TypeOK, About, Showing, HitSummary
    <3>2. CASE hits[q][next[q]] \in articles
      <4>1. rung'[q] = "done" /\ reply'[q] = hits[q][next[q]]
        BY <1>0, <1>8, <2>2, <3>2 DEF TypeOK, HitSummary, Answer, Goto
      <4>2. FirstFit(q)'
        BY <3>0, <3>2, <4>1, <1>l DEF FirstFit
      <4> QED
        BY <3>1, <4>1, <4>2 DEF About, Climbing, Answered, FirstFit, Showing
    <3>3. CASE hits[q][next[q]] \notin articles
      <4>1. rung'[q] = "hits" /\ next'[q] = next[q] + 1
        BY <1>0, <1>8, <2>2, <3>3 DEF TypeOK, HitSummary, Answer, Goto
      <4>2. \A j \in 1..(next'[q] - 1) : j \in 1..(next[q] - 1) \/ j = next[q]
        BY <3>0, <1>l, <4>1
      <4>3. Climbing(q)'
        BY <3>0, <3>3, <4>1, <4>2, <1>l DEF Climbing
      <4> QED
        BY <3>1, <4>1, <4>3 DEF About, Answered, Showing
    <3> QED
      BY <3>2, <3>3
  <2> QED
    BY <2>1, <2>2
<1>9. ASSUME NEW p \in Pages, HitFails(p) PROVE About(q)'
  <2>1. CASE q # p
    <3>1. Same(q) /\ panel' = panel
      BY <1>0, <1>9, <2>1
      DEF Same, TypeOK, tabVars, scriptVars, climbVars, HitFails
    <3> QED
      BY <1>0, <3>1, SameStays
  <2>2. CASE q = p
    <3>0. /\ panel' = panel /\ articles' = articles /\ best' = best /\ hits' = hits
          /\ missed'[q] = missed[q] \cup {next[q]} /\ next'[q] = next[q] + 1
          /\ next[q] \in 1..Len(hits[q]) /\ best[q] \notin articles /\ rung'[q] = "hits"
          /\ \A j \in 1..(next[q] - 1) : hits[q][j] \in articles => j \in missed[q]
      BY <1>0, <1>l, <1>9, <2>2
      DEF TypeOK, scriptVars, HitFails, About, Climbing
    <3>1. panel'[q] # "shown"
      BY <1>0, <1>9, <2>2, <3>0 DEF About, Showing, HitFails
    <3>2. \A j \in 1..(next'[q] - 1) : j \in 1..(next[q] - 1) \/ j = next[q]
      BY <3>0, <1>l
    <3>3. Climbing(q)'
      BY <3>0, <3>2, <1>l DEF Climbing
    <3> QED
      BY <3>0, <3>1, <3>3 DEF About, Answered, Showing
  <2> QED
    BY <2>1, <2>2
<1>10. ASSUME NEW p \in Pages, NoHitFits(p) PROVE About(q)'
  <2>1. CASE q # p
    <3>1. Same(q) /\ panel' = panel
      BY <1>0, <1>10, <2>1
      DEF Same, TypeOK, tabVars, scriptVars, climbVars, NoHitFits, Answer, Goto
    <3> QED
      BY <1>0, <3>1, SameStays
  <2>2. CASE q = p
    <3>0. /\ panel' = panel /\ articles' = articles /\ best' = best /\ hits' = hits
          /\ missed' = missed /\ broken' = broken /\ next[q] > Len(hits[q])
          /\ best[q] \notin articles /\ rung'[q] = "done" /\ reply'[q] = Nothing
          /\ \A j \in 1..(next[q] - 1) : hits[q][j] \in articles => j \in missed[q]
      BY <1>0, <1>l, <1>10, <2>2
      DEF TypeOK, scriptVars, NoHitFits, Answer, Goto, About, Climbing
    <3>1. panel'[q] # "shown"
      BY <1>0, <1>10, <2>2, <3>0 DEF About, Showing, NoHitFits
    <3>2. \A j \in DOMAIN hits[q] : j \in 1..(next[q] - 1)
      <4>1. next[q] \in Nat
        BY <1>0 DEF TypeOK
      <4> QED
        BY <3>0, <1>l, <4>1
    <3>3. HasAReason(q)'
      BY <3>0, <3>2 DEF HasAReason
    <3> QED
      BY <3>0, <3>1, <3>3 DEF About, Climbing, Answered, HasAReason, Showing
  <2> QED
    BY <2>1, <2>2
<1>11. ASSUME NEW p \in Pages, PanelArrives(p) PROVE About(q)'
  <2>1. Same(q)
    BY <1>11 DEF Same, tabVars, scriptVars, climbVars, PanelArrives
  <2>2. panel'[q] = "shown" => panel[q] = "shown" \/ (rung[q] = "done" /\ reply[q] # Nothing)
    BY <1>0, <1>11 DEF TypeOK, tabVars, scriptVars, climbVars, PanelArrives
  <2> QED
    BY <1>0, <2>1, <2>2, SameStays
<1>12. ASSUME NEW p \in Pages, CardArrives(p) PROVE About(q)'
  <2>1. Same(q)
    BY <1>12 DEF Same, tabVars, scriptVars, climbVars, CardArrives
  <2>2. panel'[q] = "shown" => panel[q] = "shown" \/ (rung[q] = "done" /\ reply[q] # Nothing)
    BY <1>0, <1>12 DEF TypeOK, tabVars, scriptVars, climbVars, CardArrives
  <2> QED
    BY <1>0, <2>1, <2>2, SameStays
<1>13. ASSUME NEW p \in Pages, CardCatches(p) PROVE About(q)'
  <2>1. Same(q)
    BY <1>13 DEF Same, tabVars, scriptVars, climbVars, CardCatches
  <2>2. panel'[q] = "shown" => panel[q] = "shown" \/ (rung[q] = "done" /\ reply[q] # Nothing)
    BY <1>0, <1>13 DEF TypeOK, tabVars, scriptVars, climbVars, CardCatches
  <2> QED
    BY <1>0, <2>1, <2>2, SameStays
<1>14. ASSUME NEW p \in Pages, PanelFails(p) PROVE About(q)'
  <2>1. Same(q)
    BY <1>14 DEF Same, tabVars, scriptVars, climbVars, PanelFails
  <2>2. panel'[q] = "shown" => panel[q] = "shown" \/ (rung[q] = "done" /\ reply[q] # Nothing)
    BY <1>0, <1>14 DEF TypeOK, tabVars, scriptVars, climbVars, PanelFails
  <2> QED
    BY <1>0, <2>1, <2>2, SameStays
<1>15. ASSUME NEW p \in Pages, AiReplies(p) PROVE About(q)'
  <2>1. Same(q)
    BY <1>15 DEF Same, tabVars, scriptVars, climbVars, AiReplies
  <2>2. panel'[q] = "shown" => panel[q] = "shown" \/ (rung[q] = "done" /\ reply[q] # Nothing)
    BY <1>0, <1>15 DEF TypeOK, tabVars, scriptVars, climbVars, AiReplies
  <2> QED
    BY <1>0, <2>1, <2>2, SameStays
<1>16. ASSUME UNCHANGED vars PROVE About(q)'
  <2>1. Same(q)
    BY <1>16 DEF Same, tabVars, scriptVars, climbVars, vars
  <2>2. panel'[q] = "shown" => panel[q] = "shown" \/ (rung[q] = "done" /\ reply[q] # Nothing)
    BY <1>0, <1>16 DEF TypeOK, tabVars, scriptVars, climbVars, vars
  <2> QED
    BY <1>0, <2>1, <2>2, SameStays
<1> QED
  BY <1>1, <1>2, <1>3, <1>4, <1>5, <1>6, <1>7, <1>8, <1>9, <1>10, <1>11, <1>12,
     <1>13, <1>14, <1>15, <1>16
     DEF Next, Climb, Script

LEMMA IInvStep == IInv /\ [Next]_vars => IInv'
  BY TypesStep, FreshStep, AboutStep DEF IInv, About

THEOREM Invariant == Spec => []IInv
<1>1. Init => IInv
  BY IInvInit
<1>2. IInv /\ [Next]_vars => IInv'
  BY IInvStep
<1> QED
  BY <1>1, <1>2, PTL DEF Spec

-----------------------------------------------------------------------------
(* Every variable of the tab and of its handlers has its type.             *)
THEOREM TypeCorrect == Spec => []TypeOK
<1>1. IInv => TypeOK
  BY DEF IInv
<1> QED
  BY <1>1, Invariant, PTL

(* The panel that is shown is the first article on the ladder that could   *)
(* be read.                                                                *)
THEOREM FirstFits == Spec => []PanelIsFirstFit
<1>1. ASSUME IInv, NEW p \in Pages, panel[p] = "shown"
      PROVE  rung[p] = "done" /\ FirstFit(p)
  BY <1>1 DEF IInv, Showing, Answered
<1>2. IInv => PanelIsFirstFit
  BY <1>1 DEF PanelIsFirstFit, FirstFit
<1> QED
  BY <1>2, Invariant, PTL

(* A handler gives no infobox for a reason only: a request outside the     *)
(* loop failed, or nothing that could be read is an article.               *)
THEOREM EmptyHasAReason == Spec => []EmptyPanelHasAReason
<1>1. IInv => EmptyPanelHasAReason
  BY DEF IInv, Answered, HasAReason, EmptyPanelHasAReason
<1> QED
  BY <1>1, Invariant, PTL
-----------------------------------------------------------------------------
(* Why a handler ends.                                                     *)

\* The requests that are left, rung by rung.
LeftIs(p) ==
    /\ rung[p] \in {"off", "done"} => RungsLeft(p) = 0
    /\ rung[p] = "hits" => RungsLeft(p) = MaxHits + 2 - next[p]
    /\ rung[p] = "fulltext" => RungsLeft(p) = MaxHits + 2
    /\ rung[p] = "best" => RungsLeft(p) = MaxHits + 3
    /\ rung[p] = "opensearch" => RungsLeft(p) = MaxHits + 4

LEMMA LeftAt == ASSUME TypeOK, NEW p \in Pages PROVE LeftIs(p)
<1>1. MaxHits \in Nat /\ next[p] \in 1..(MaxHits + 1)
  BY DEF TypeOK
<1> QED
  BY <1>1 DEF LeftIs, RungsLeft

LEMMA LeftAtNext == ASSUME TypeOK', NEW p \in Pages PROVE LeftIs(p)'
<1>1. MaxHits \in Nat /\ next'[p] \in 1..(MaxHits + 1)
  BY DEF TypeOK
<1> QED
  BY <1>1 DEF LeftIs, RungsLeft

\* A rung leads to a higher one, or to the next hit, or to the end.
LEMMA ClimbMoves ==
    ASSUME TypeOK, NEW p \in Pages, Climb(p)
    PROVE  \/ rung[p] \in {"opensearch", "best", "fulltext", "hits"} /\ rung'[p] = "done"
           \/ rung[p] = "opensearch" /\ rung'[p] \in {"best", "fulltext"}
           \/ rung[p] = "best" /\ rung'[p] = "fulltext"
           \/ rung[p] = "fulltext" /\ rung'[p] = "hits"
           \/ rung[p] = "hits" /\ rung'[p] = "hits" /\ next'[p] = next[p] + 1
<1> USE DEF TypeOK, Goto, Answer
<1>1. CASE RequestFails(p)
  BY <1>1 DEF RequestFails
<1>2. CASE OpenSearch(p)
  BY <1>2 DEF OpenSearch
<1>3. CASE BestSummary(p)
  BY <1>3 DEF BestSummary
<1>4. CASE FullText(p)
  BY <1>4 DEF FullText
<1>5. CASE HitSummary(p)
  BY <1>5 DEF HitSummary
<1>6. CASE HitFails(p)
  BY <1>6 DEF HitFails
<1>7. CASE NoHitFits(p)
  BY <1>7 DEF NoHitFits
<1> QED
  BY <1>1, <1>2, <1>3, <1>4, <1>5, <1>6, <1>7 DEF Climb

\* A request, answered or failed, leaves fewer of them.
LEMMA ClimbAdvances ==
    ASSUME TypeOK, TypeOK', NEW p \in Pages, Climb(p)
    PROVE  RungsLeft(p)' \in Nat /\ RungsLeft(p)' < RungsLeft(p)
<1> DEFINE was == next[p]
           is == next'[p]
           from == rung[p]
           to == rung'[p]
           left == RungsLeft(p)
           leftNext == RungsLeft(p)'
<1>1. MaxHits \in Nat /\ was \in 1..(MaxHits + 1) /\ is \in 1..(MaxHits + 1)
  BY DEF TypeOK
<1>2. /\ from = "hits" => left = MaxHits + 2 - was
      /\ from = "fulltext" => left = MaxHits + 2
      /\ from = "best" => left = MaxHits + 3
      /\ from = "opensearch" => left = MaxHits + 4
  BY LeftAt DEF LeftIs
<1>3. /\ to = "done" => leftNext = 0
      /\ to = "hits" => leftNext = MaxHits + 2 - is
      /\ to = "fulltext" => leftNext = MaxHits + 2
      /\ to = "best" => leftNext = MaxHits + 3
  BY LeftAtNext DEF LeftIs
<1>4. \/ from \in {"opensearch", "best", "fulltext", "hits"} /\ to = "done"
      \/ from = "opensearch" /\ to \in {"best", "fulltext"}
      \/ from = "best" /\ to = "fulltext"
      \/ from = "fulltext" /\ to = "hits"
      \/ from = "hits" /\ to = "hits" /\ is = was + 1
  BY ClimbMoves
<1> HIDE DEF was, is, from, to, left, leftNext
<1>5. leftNext \in Nat /\ leftNext < left
  BY <1>1, <1>2, <1>3, <1>4
<1> QED
  BY <1>5 DEF left, leftNext

\* The user, the scripts and the handlers of other pages, seen by a handler.
LEMMA OthersLeaveClimb ==
    ASSUME TypeOK, Fresh, [Next]_vars, NEW p \in Pages, rung[p] # "off", ~Climb(p)
    PROVE  rung'[p] = rung[p] /\ next'[p] = next[p]
<1> USE DEF TypeOK, Goto, Answer
<1>1. ASSUME NEW q \in Pages, Climb(q)
      PROVE  rung'[p] = rung[p] /\ next'[p] = next[p]
  <2>1. q # p
    BY <1>1
  <2> QED
    BY <1>1, <2>1
       DEF Climb, RequestFails, OpenSearch, BestSummary, FullText, HitSummary, HitFails,
           NoHitFits
<1>2. CASE Render
  BY <1>2 DEF Render, Fresh
<1>3. CASE UNCHANGED climbVars
  BY <1>3 DEF climbVars
<1> QED
  BY <1>1, <1>2, <1>3
     DEF Next, vars, Search, RenderFails, Script, PanelArrives, PanelFails, CardArrives,
         CardCatches, AiReplies

(* Each request of a page's handler leaves it fewer, for any limit of the  *)
(* full-text search, whether the request fails and whether the page is     *)
(* still open; nothing puts a handler back on the ladder.                  *)
THEOREM ClimbsComeNearer == Spec => ClimbsAdvance
<1> DEFINE Advance ==
      \A p \in Pages :
          IF Climb(p)
          THEN RungsLeft(p)' \in Nat /\ RungsLeft(p)' < RungsLeft(p)
          ELSE rung[p] # "off" => RungsLeft(p)' = RungsLeft(p)
<1>1. TypeOK /\ TypeOK' /\ Fresh /\ [Next]_vars => [Advance]_vars
  <2> SUFFICES ASSUME TypeOK, TypeOK', Fresh, [Next]_vars, NEW p \in Pages
               PROVE  IF Climb(p)
                      THEN RungsLeft(p)' \in Nat /\ RungsLeft(p)' < RungsLeft(p)
                      ELSE rung[p] # "off" => RungsLeft(p)' = RungsLeft(p)
    OBVIOUS
  <2>1. CASE Climb(p)
    BY <2>1, ClimbAdvances
  <2>2. CASE ~Climb(p) /\ rung[p] # "off"
    <3>1. LeftIs(p) /\ LeftIs(p)' /\ rung[p] \in Rungs
      BY LeftAt, LeftAtNext DEF TypeOK
    <3>2. rung'[p] = rung[p] /\ next'[p] = next[p]
      BY <2>2, OthersLeaveClimb
    <3> QED
      BY <2>2, <3>1, <3>2 DEF LeftIs
  <2> QED
    BY <2>1, <2>2
<1>2. IInv => TypeOK /\ Fresh
  BY DEF IInv
<1>3. Spec => [](TypeOK /\ Fresh)
  BY <1>2, Invariant, PTL
<1> QED
  BY <1>1, <1>3, PTL DEF Spec, ClimbsAdvance
=============================================================================
