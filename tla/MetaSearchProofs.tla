-------------------------- MODULE MetaSearchProofs --------------------------
(***************************************************************************)
(* What holds of every instance of MetaSearch.                             *)
(***************************************************************************)
EXTENDS MetaSearch, TLAPS

\* The list of requests never outgrows the slots: it has fewer engines than the
\* loop of _get_requests has visited.
Slotted(r) ==
    /\ Len(query[r].engines) <= MaxEngines
    /\ Len(asked[r]) <= MaxEngines
    /\ pc[r] = "idle" => cursor[r] = 1 /\ asked[r] = <<>>
    /\ pc[r] = "collect" => Len(asked[r]) < cursor[r] /\ cursor[r] <= Len(query[r].engines) + 1

\* A thread exists in a slot that was asked; past the lookup it works on a result of
\* the kind it looked up.
Threaded(r, k) ==
    /\ tpc[r][k] # "none" => k \in DOMAIN asked[r]
    /\ tpc[r][k] = "storing" => More(r, k) /\ This(r, k) \in Items
    /\ tpc[r][k] = "boxing" => More(r, k) /\ This(r, k) \in Infoboxes

Typed ==
    /\ TypeOK
    /\ \A r \in Requests : Slotted(r)
    /\ \A r \in Requests, k \in Slots : Threaded(r, k)

LEMMA InitTyped == Init => Typed
<1> SUFFICES ASSUME Init PROVE Typed
  OBVIOUS
<1> USE ConstantsAreSane
<1>1. query \in [Requests -> QueryType]
  BY DEF Init
<1>2. now \in Nat /\ ban \in [Networks -> Nat]
  BY DEF Init
<1>3. /\ pc \in [Requests -> {"idle", "collect", "join", "score", "timings", "served", "failed"}]
      /\ start \in [Requests -> Nat] /\ limit \in [Requests -> Nat]
      /\ cursor \in [Requests -> Nat \ {0}] /\ asked \in [Requests -> Seq(Engines)]
  BY DEF Init, PerRequest
<1>4. /\ closed \in [Requests -> BOOLEAN]
      /\ results \in [Requests -> [Items -> SUBSET (Slots \X (Nat \ {0}))]]
      /\ before \in [Requests -> [Items -> SUBSET (Slots \X (Nat \ {0}))]]
      /\ boxes \in [Requests -> Seq([id : Infoboxes, slots : SUBSET Slots])]
  BY DEF Init, PerRequest
<1>5. /\ unresponsive \in [Requests -> SUBSET [engine : Engines, error : Errors]]
      /\ timings \in [Requests -> SUBSET Slots] /\ shown \in [Requests -> SUBSET Items]
      /\ lock \in [Requests -> Slots \cup {Nobody}]
  BY DEF Init, PerRequest
<1>6. /\ tpc \in [Requests -> [Slots -> ThreadStates]]
      /\ flagged \in [Requests -> [Slots -> BOOLEAN]]
      /\ answer \in [Requests -> [Slots -> Seq(Items \cup Infoboxes)]]
      /\ place \in [Requests -> [Slots -> Nat \ {0}]]
      /\ found \in [Requests -> [Slots -> BOOLEAN]]
      /\ cause \in [Requests -> [Slots -> {"list", "none", "invalid", "timeout", "error", "banning"}]]
  BY DEF Init, PerThread, ThreadStates
<1>7. \A r \in Requests : Slotted(r)
  <2> SUFFICES ASSUME NEW r \in Requests PROVE Slotted(r)
    OBVIOUS
  <2>1. query[r] \in Queries[r]
    BY DEF Init
  <2>2. Len(query[r].engines) <= MaxEngines
    BY <2>1
  <2>3. pc[r] = "idle" /\ cursor[r] = 1 /\ asked[r] = <<>> /\ MaxEngines \in Nat
    BY DEF Init, PerRequest
  <2> QED
    BY ONLY <2>2, <2>3 DEF Slotted
<1>8. \A r \in Requests, k \in Slots : Threaded(r, k)
  BY DEF Init, PerThread, Threaded
<1> QED
  BY <1>1, <1>2, <1>3, <1>4, <1>5, <1>6, <1>7, <1>8 DEF Typed, TypeOK

LEMMA BlameTyped ==
    ASSUME unresponsive \in [Requests -> SUBSET [engine : Engines, error : Errors]],
           NEW r \in Requests, NEW e \in Engines, NEW x \in Errors, Blame(r, e, x)
    PROVE  unresponsive' \in [Requests -> SUBSET [engine : Engines, error : Errors]]
BY DEF Blame

LEMMA LookupBoxBoxes ==
    ASSUME boxes \in [Requests -> Seq([id : Infoboxes, slots : SUBSET Slots])],
           NEW r \in Requests, NEW k \in Slots, LookupBox(r, k)
    PROVE  /\ boxes' \in [Requests -> Seq([id : Infoboxes, slots : SUBSET Slots])]
           /\ Len(boxes'[r]) = Len(boxes[r])
           /\ \A b \in DOMAIN boxes[r] :
                  /\ boxes'[r][b].id = boxes[r][b].id
                  /\ boxes'[r][b].slots = IF boxes[r][b].id = This(r, k) THEN boxes[r][b].slots \cup {k}
                                          ELSE boxes[r][b].slots
           /\ \A q \in Requests \ {r} : boxes'[q] = boxes[q]
<1> DEFINE B == [id : Infoboxes, slots : SUBSET Slots]
           same == {b \in DOMAIN boxes[r] : boxes[r][b].id = This(r, k)}
           merged == [b \in DOMAIN boxes[r] |->
                         IF b \in same THEN [boxes[r][b] EXCEPT !.slots = @ \cup {k}] ELSE boxes[r][b]]
<1>1. boxes' = [boxes EXCEPT ![r] = merged]
  BY DEF LookupBox
<1>2. boxes[r] \in Seq(B)
  OBVIOUS
<1>3. ASSUME NEW b \in DOMAIN boxes[r]
      PROVE  /\ merged[b] \in B /\ merged[b].id = boxes[r][b].id
             /\ merged[b].slots = IF boxes[r][b].id = This(r, k) THEN boxes[r][b].slots \cup {k}
                                  ELSE boxes[r][b].slots
  <2>1. boxes[r][b] \in B
    <3> HIDE DEF B
    <3> QED
      BY ONLY <1>2, b \in DOMAIN boxes[r]
  <2>2. merged[b] = IF b \in same THEN [boxes[r][b] EXCEPT !.slots = @ \cup {k}] ELSE boxes[r][b]
    OBVIOUS
  <2>3. b \in same <=> boxes[r][b].id = This(r, k)
    OBVIOUS
  <2> HIDE DEF same, merged
  <2>4. CASE b \in same
    <3>1. merged[b] = [boxes[r][b] EXCEPT !.slots = @ \cup {k}]
      BY <2>2, <2>4
    <3> QED
      BY ONLY <2>1, <2>3, <2>4, <3>1, k \in Slots
  <2>5. CASE b \notin same
    BY <2>1, <2>2, <2>3, <2>5
  <2> QED
    BY <2>4, <2>5
<1>4. DOMAIN merged = DOMAIN boxes[r]
  OBVIOUS
<1>5. merged = [b \in DOMAIN boxes[r] |-> merged[b]]
  OBVIOUS
<1> HIDE DEF merged
<1>6. merged \in Seq(B) /\ Len(merged) = Len(boxes[r])
  <2>1. DOMAIN boxes[r] = 1 .. Len(boxes[r]) /\ Len(boxes[r]) \in Nat
    BY <1>2
  <2>2. merged \in [1 .. Len(boxes[r]) -> B]
    BY <1>3, <1>4, <1>5, <2>1
  <2> HIDE DEF B
  <2>3. merged \in Seq(B)
    BY ONLY <2>1, <2>2
  <2>4. Len(merged) = Len(boxes[r])
    BY ONLY <2>1, <2>2, <2>3
  <2> QED
    BY <2>3, <2>4
<1>7. boxes'[r] = merged /\ \A q \in Requests \ {r} : boxes'[q] = boxes[q]
  BY <1>1
<1>8. boxes' \in [Requests -> Seq(B)]
  BY <1>1, <1>6
<1> QED
  BY <1>3, <1>6, <1>7, <1>8

LEMMA BeginTyped ==
    ASSUME Typed, NEW r \in Requests, Begin(r) PROVE Typed'
<1> USE ConstantsAreSane DEF Begin, Typed, Goto
<1>1. TypeOK'
  BY DEF TypeOK, mainVars, boxVars, threadVars
<1>2. \A q \in Requests : Slotted(q)'
  BY DEF TypeOK, Slotted, mainVars, boxVars, threadVars
<1>3. \A q \in Requests, k \in Slots : Threaded(q, k)'
  BY DEF TypeOK, Threaded, More, This, Slotted, mainVars, boxVars, threadVars
<1> QED
  BY <1>1, <1>2, <1>3

LEMMA BeginElsewhereTyped ==
    ASSUME Typed, NEW r \in Requests, BeginElsewhere(r) PROVE Typed'
<1> USE ConstantsAreSane DEF BeginElsewhere, Typed, Goto
<1>1. TypeOK'
  BY DEF TypeOK, mainVars, boxVars, threadVars
<1>2. \A q \in Requests : Slotted(q)'
  BY DEF TypeOK, Slotted, mainVars, boxVars, threadVars, QueryType
<1>3. \A q \in Requests, k \in Slots : Threaded(q, k)'
  BY DEF TypeOK, Threaded, More, This, Slotted, mainVars, boxVars, threadVars,
     QueryType
<1> QED
  BY <1>1, <1>2, <1>3

LEMMA CollectTyped ==
    ASSUME Typed, NEW r \in Requests, Collect(r) PROVE Typed'
<1> USE ConstantsAreSane DEF Collect, Typed, Goto
<1>1. TypeOK'
  <2> DEFINE e == query[r].engines[cursor[r]]
  <2>1. e \in Engines
    <3>1. query[r].engines \in Seq(Engines) /\ cursor[r] \in 1 .. Len(query[r].engines)
      BY DEF TypeOK, QueryType
    <3> QED
      BY <3>1
  <2>2. unresponsive' \in [Requests -> SUBSET [engine : Engines, error : Errors]]
    BY <2>1, BlameTyped DEF TypeOK, Errors
  <2>3. asked' \in [Requests -> Seq(Engines)]
    BY <2>1 DEF TypeOK
  <2>4. limit' \in [Requests -> Nat]
    BY <2>1 DEF TypeOK, Greatest
  <2>5. cursor' \in [Requests -> Nat \ {0}]
    BY DEF TypeOK
  <2> QED
    BY <2>2, <2>3, <2>4, <2>5 DEF TypeOK, mainVars, boxVars, threadVars
<1>2. \A q \in Requests : Slotted(q)'
  <2> SUFFICES ASSUME NEW q \in Requests PROVE Slotted(q)'
    OBVIOUS
  <2> DEFINE e == query[r].engines[cursor[r]]
  <2>1. e \in Engines
    BY DEF TypeOK, QueryType
  <2>2. asked' = asked \/ asked' = [asked EXCEPT ![r] = Append(@, e)]
    OBVIOUS
  <2>3. Len(asked'[q]) = Len(asked[q]) \/ (q = r /\ Len(asked'[q]) = Len(asked[q]) + 1)
    BY <2>1, <2>2 DEF TypeOK
  <2>4. query[q].engines \in Seq(Engines)
    BY DEF TypeOK, QueryType
  <2> HIDE DEF e
  <2>5. cursor' = [cursor EXCEPT ![r] = @ + 1] /\ UNCHANGED <<pc, query>> /\ pc[r] = "collect"
        /\ cursor[r] <= Len(query[r].engines) /\ Slotted(q)
    OBVIOUS
  <2>6. asked'[q] = asked[q] \/ q = r
    BY <2>2 DEF TypeOK
  <2>7. asked[q] \in Seq(Engines) /\ cursor \in [Requests -> Nat \ {0}] /\ MaxEngines \in Nat
    BY DEF TypeOK
  <2> QED
    BY ONLY <2>3, <2>4, <2>5, <2>6, <2>7, r \in Requests, q \in Requests
    DEF Slotted
<1>3. \A q \in Requests, k \in Slots : Threaded(q, k)'
  <2> SUFFICES ASSUME NEW q \in Requests, NEW k \in Slots PROVE Threaded(q, k)'
    OBVIOUS
  <2> DEFINE e == query[r].engines[cursor[r]]
  <2>1. asked' = asked \/ asked' = [asked EXCEPT ![r] = Append(@, e)]
    OBVIOUS
  <2>2. asked[q] \in Seq(Engines) /\ asked \in [Requests -> Seq(Engines)]
    BY DEF TypeOK
  <2>3. asked'[q] = asked[q] \/ asked'[q] = Append(asked[q], e)
    BY <2>1, <2>2
  <2> HIDE DEF e
  <2>4. DOMAIN asked[q] \subseteq DOMAIN asked'[q]
    BY <2>2, <2>3
  <2>5. UNCHANGED <<tpc, answer, place>>
    BY DEF threadVars
  <2>6. Threaded(q, k)
    OBVIOUS
  <2> QED
    BY ONLY <2>4, <2>5, <2>6 DEF Threaded, More, This
<1> QED
  BY <1>1, <1>2, <1>3

LEMMA CollectedTyped ==
    ASSUME Typed, NEW r \in Requests, Collected(r) PROVE Typed'
<1> USE ConstantsAreSane DEF Collected, Typed, Goto
<1>1. TypeOK'
  <2>1. query[r].timeout_limit \in Nat \cup {NoLimit}
    BY DEF TypeOK, QueryType
  <2>2. ActualTimeout(limit[r], query[r].timeout_limit) \in Nat
    BY <2>1 DEF TypeOK, ActualTimeout, Least
  <2>3. limit' \in [Requests -> Nat]
    BY <2>2 DEF TypeOK
  <2>4. cursor' \in [Requests -> Nat \ {0}]
    BY DEF TypeOK
  <2>5. tpc' \in [Requests -> [Slots -> ThreadStates]]
    BY DEF TypeOK, ThreadStates
  <2>6. pc' \in [Requests -> {"idle", "collect", "join", "score", "timings", "served", "failed"}]
    BY DEF TypeOK
  <2> QED
    BY <2>3, <2>4, <2>5, <2>6 DEF TypeOK, mainVars, boxVars, threadVars
<1>2. \A q \in Requests : Slotted(q)'
  BY DEF TypeOK, Slotted, mainVars, boxVars, threadVars, QueryType,
     ActualTimeout, Least, ThreadStates
<1>3. \A q \in Requests, k \in Slots : Threaded(q, k)'
  BY DEF TypeOK, Threaded, More, This, Slotted, mainVars, boxVars, threadVars,
     QueryType, ActualTimeout, Least, ThreadStates
<1> QED
  BY <1>1, <1>2, <1>3

LEMMA JoinEndedTyped ==
    ASSUME Typed, NEW r \in Requests, JoinEnded(r) PROVE Typed'
<1> USE ConstantsAreSane DEF JoinEnded, Typed, Goto
<1>1. TypeOK'
  <2>1. cursor' \in [Requests -> Nat \ {0}]
    BY DEF TypeOK
  <2> QED
    BY <2>1 DEF TypeOK, mainVars, boxVars, threadVars
<1>2. \A q \in Requests : Slotted(q)'
  BY DEF TypeOK, Slotted, mainVars, boxVars, threadVars
<1>3. \A q \in Requests, k \in Slots : Threaded(q, k)'
  BY DEF TypeOK, Threaded, More, This, Slotted, mainVars, boxVars, threadVars
<1> QED
  BY <1>1, <1>2, <1>3

LEMMA JoinGivesUpTyped ==
    ASSUME Typed, NEW r \in Requests, JoinGivesUp(r) PROVE Typed'
<1> USE ConstantsAreSane DEF JoinGivesUp, Typed, Goto
<1>1. TypeOK'
  <2>1. cursor[r] \in DOMAIN asked[r] /\ cursor[r] \in Slots /\ asked[r][cursor[r]] \in Engines
    BY DEF TypeOK, Slotted, Slots
  <2>2. cursor' \in [Requests -> Nat \ {0}]
    BY DEF TypeOK
  <2>3. flagged' \in [Requests -> [Slots -> BOOLEAN]]
    BY DEF TypeOK
  <2>4. unresponsive' \in [Requests -> SUBSET [engine : Engines, error : Errors]]
    BY <2>1, BlameTyped DEF TypeOK, Errors
  <2> QED
    BY <2>2, <2>3, <2>4 DEF TypeOK, mainVars, boxVars, threadVars
<1>2. \A q \in Requests : Slotted(q)'
  BY DEF TypeOK, Slotted, mainVars, boxVars, threadVars, Blame, Errors,
     QueryType
<1>3. \A q \in Requests, k \in Slots : Threaded(q, k)'
  BY DEF TypeOK, Threaded, More, This, Slotted, mainVars, boxVars, threadVars,
     Blame, Errors, QueryType
<1> QED
  BY <1>1, <1>2, <1>3

LEMMA CloseTyped ==
    ASSUME Typed, NEW r \in Requests, Close(r) PROVE Typed'
<1> USE ConstantsAreSane DEF Close, Typed, Goto
<1>1. TypeOK'
  <2>1. closed' \in [Requests -> BOOLEAN]
    BY DEF TypeOK
  <2>2. before' \in [Requests -> [Items -> SUBSET (Slots \X (Nat \ {0}))]]
    BY DEF TypeOK
  <2>3. pc' \in [Requests -> {"idle", "collect", "join", "score", "timings", "served", "failed"}]
    BY DEF TypeOK
  <2> QED
    BY <2>1, <2>2, <2>3 DEF TypeOK, mainVars, boxVars, threadVars
<1>2. \A q \in Requests : Slotted(q)'
  BY DEF TypeOK, Slotted, mainVars, boxVars, threadVars, Present
<1>3. \A q \in Requests, k \in Slots : Threaded(q, k)'
  BY DEF TypeOK, Threaded, More, This, Slotted, mainVars, boxVars, threadVars,
     Present
<1> QED
  BY <1>1, <1>2, <1>3

LEMMA ScoreTyped ==
    ASSUME Typed, NEW r \in Requests, Score(r) PROVE Typed'
<1> USE ConstantsAreSane DEF Score, Typed, Goto
<1>1. TypeOK'
  BY DEF TypeOK, mainVars, boxVars, threadVars
<1>2. \A q \in Requests : Slotted(q)'
  BY DEF TypeOK, Slotted, mainVars, boxVars, threadVars
<1>3. \A q \in Requests, k \in Slots : Threaded(q, k)'
  BY DEF TypeOK, Threaded, More, This, Slotted, mainVars, boxVars, threadVars
<1> QED
  BY <1>1, <1>2, <1>3

LEMMA ShowTyped ==
    ASSUME Typed, NEW r \in Requests, Show(r) PROVE Typed'
<1> USE ConstantsAreSane DEF Show, Typed, Goto
<1>1. TypeOK'
  BY DEF TypeOK, mainVars, boxVars, threadVars, Present
<1>2. \A q \in Requests : Slotted(q)'
  BY DEF TypeOK, Slotted, mainVars, boxVars, threadVars, Present
<1>3. \A q \in Requests, k \in Slots : Threaded(q, k)'
  BY DEF TypeOK, Threaded, More, This, Slotted, mainVars, boxVars, threadVars,
     Present
<1> QED
  BY <1>1, <1>2, <1>3

LEMMA AnswerListTyped ==
    ASSUME Typed, NEW r \in Requests, NEW k \in Slots, AnswerList(r, k) PROVE Typed'
<1> USE ConstantsAreSane DEF AnswerList, Typed, ThreadGoto
<1>1. TypeOK'
  <2>0. k \in DOMAIN asked[r] /\ asked[r][k] \in Engines
    BY DEF TypeOK, Threaded, More, This, Comes
  <2>1. cause' \in [Requests -> [Slots -> {"list", "none", "invalid", "timeout", "error", "banning"}]]
    BY DEF TypeOK, ReadFlag
  <2>2. answer' \in [Requests -> [Slots -> Seq(Items \cup Infoboxes)]]
    <3>1. PICK list \in Answers[asked[r][k]] : answer' = [answer EXCEPT ![r][k] = list]
      OBVIOUS
    <3>2. list \in Seq(Items \cup Infoboxes)
      BY <2>0, <3>1
    <3> QED
      BY <3>1, <3>2 DEF TypeOK
  <2>9. tpc' \in [Requests -> [Slots -> ThreadStates]]
    BY DEF TypeOK, ThreadStates, ReadFlag
  <2> QED
    BY <2>1, <2>2, <2>9 DEF TypeOK, ReadFlag, mainVars, boxVars, threadVars
<1>2. \A q \in Requests : Slotted(q)'
  BY DEF TypeOK, Slotted, mainVars, boxVars, threadVars, Comes, ReadFlag,
     ThreadStates
<1>3. \A q \in Requests, j \in Slots : Threaded(q, j)'
  <2> SUFFICES ASSUME NEW q \in Requests, NEW j \in Slots PROVE Threaded(q, j)'
    OBVIOUS
  <2>1. Threaded(q, j) /\ Threaded(r, k)
    OBVIOUS
  <2>2. CASE q = r /\ j = k
    <3>1. tpc'[r][k] \in {"extending", "failing"} /\ tpc[r][k] = "asking" /\ asked' = asked
      BY DEF TypeOK, Comes, ReadFlag, mainVars
    <3> QED
      BY ONLY <2>1, <2>2, <3>1 DEF Threaded
  <2>3. CASE ~(q = r /\ j = k)
    <3>1. /\ tpc'[q][j] = tpc[q][j] /\ answer'[q][j] = answer[q][j]
          /\ UNCHANGED <<place, asked>>
      <4>1. tpc'[q][j] = tpc[q][j] /\ UNCHANGED <<place, asked>>
        BY <2>3 DEF TypeOK, ReadFlag, mainVars
      <4>2. answer'[q][j] = answer[q][j]
        <5>1. PICK list : answer' = [answer EXCEPT ![r][k] = list]
          OBVIOUS
        <5>2. answer \in [Requests -> [Slots -> Seq(Items \cup Infoboxes)]]
          BY DEF TypeOK
        <5> QED
          BY ONLY <5>1, <5>2, <2>3, q \in Requests, j \in Slots, r \in
             Requests, k \in Slots
      <4> QED
        BY <4>1, <4>2
    <3> QED
      BY ONLY <2>1, <3>1 DEF Threaded, More, This
  <2> QED
    BY <2>2, <2>3
<1> QED
  BY <1>1, <1>2, <1>3

LEMMA AnswerNoneTyped ==
    ASSUME Typed, NEW r \in Requests, NEW k \in Slots, AnswerNone(r, k) PROVE Typed'
<1> USE ConstantsAreSane DEF AnswerNone, Typed, ThreadGoto
<1>1. TypeOK'
  BY DEF TypeOK, mainVars, boxVars, threadVars, Comes, ReadFlag, ThreadStates
<1>2. \A q \in Requests : Slotted(q)'
  BY DEF TypeOK, Slotted, mainVars, boxVars, threadVars, Comes, ReadFlag,
     ThreadStates
<1>3. \A q \in Requests, j \in Slots : Threaded(q, j)'
  BY DEF TypeOK, Threaded, More, This, mainVars, boxVars, threadVars, Comes,
     ReadFlag, ThreadStates
<1> QED
  BY <1>1, <1>2, <1>3

LEMMA AnswerFailsTyped ==
    ASSUME Typed, NEW r \in Requests, NEW k \in Slots, AnswerFails(r, k) PROVE Typed'
<1> USE ConstantsAreSane DEF AnswerFails, Typed, ThreadGoto
<1>1. TypeOK'
  <2>1. cause' \in [Requests -> [Slots -> {"list", "none", "invalid", "timeout", "error", "banning"}]]
    BY DEF TypeOK
  <2>9. tpc' \in [Requests -> [Slots -> ThreadStates]]
    BY DEF TypeOK, ThreadStates
  <2> QED
    BY <2>1, <2>9 DEF TypeOK, mainVars, boxVars, threadVars
<1>2. \A q \in Requests : Slotted(q)'
  BY DEF TypeOK, Slotted, mainVars, boxVars, threadVars, Comes, ThreadStates
<1>3. \A q \in Requests, j \in Slots : Threaded(q, j)'
  <2> SUFFICES ASSUME NEW q \in Requests, NEW j \in Slots PROVE Threaded(q, j)'
    OBVIOUS
  <2>1. Threaded(q, j) /\ Threaded(r, k)
    OBVIOUS
  <2>2. CASE q = r /\ j = k
    <3>1. tpc'[r][k] \in {"extending", "failing"} /\ tpc[r][k] = "asking" /\ asked' = asked
      BY DEF TypeOK, Comes, ReadFlag, mainVars
    <3> QED
      BY ONLY <2>1, <2>2, <3>1 DEF Threaded
  <2>3. CASE ~(q = r /\ j = k)
    <3>1. /\ tpc'[q][j] = tpc[q][j] /\ answer'[q][j] = answer[q][j]
          /\ UNCHANGED <<place, asked>>
      BY <2>3 DEF TypeOK, ReadFlag, mainVars
    <3> QED
      BY ONLY <2>1, <3>1 DEF Threaded, More, This
  <2> QED
    BY <2>2, <2>3
<1> QED
  BY <1>1, <1>2, <1>3

LEMMA AnswerInvalidTyped ==
    ASSUME Typed, NEW r \in Requests, NEW k \in Slots, AnswerInvalid(r, k) PROVE Typed'
<1> USE ConstantsAreSane DEF AnswerInvalid, Typed, ThreadGoto
<1>1. TypeOK'
  BY DEF TypeOK, mainVars, boxVars, threadVars, Comes, ThreadStates
<1>2. \A q \in Requests : Slotted(q)'
  BY DEF TypeOK, Slotted, mainVars, boxVars, threadVars, Comes, ThreadStates
<1>3. \A q \in Requests, j \in Slots : Threaded(q, j)'
  BY DEF TypeOK, Threaded, More, This, mainVars, boxVars, threadVars, Comes,
     ThreadStates
<1> QED
  BY <1>1, <1>2, <1>3

LEMMA ReadClosedTyped ==
    ASSUME Typed, NEW r \in Requests, NEW k \in Slots, ReadClosed(r, k) PROVE Typed'
<1> USE ConstantsAreSane DEF ReadClosed, Typed, ThreadGoto
<1>1. TypeOK'
  BY DEF TypeOK, mainVars, boxVars, threadVars, ThreadStates
<1>2. \A q \in Requests : Slotted(q)'
  BY DEF TypeOK, Slotted, mainVars, boxVars, threadVars, ThreadStates
<1>3. \A q \in Requests, j \in Slots : Threaded(q, j)'
  BY DEF TypeOK, Threaded, More, This, mainVars, boxVars, threadVars,
     ThreadStates
<1> QED
  BY <1>1, <1>2, <1>3

LEMMA LookupTyped ==
    ASSUME Typed, NEW r \in Requests, NEW k \in Slots, Lookup(r, k) PROVE Typed'
<1> USE ConstantsAreSane DEF Lookup, Typed, ThreadGoto
<1>1. TypeOK'
  BY DEF TypeOK, mainVars, boxVars, threadVars, ThreadStates, More, This
<1>2. \A q \in Requests : Slotted(q)'
  BY DEF TypeOK, Slotted, mainVars, boxVars, threadVars, ThreadStates, More,
     This
<1>3. \A q \in Requests, j \in Slots : Threaded(q, j)'
  BY DEF TypeOK, Threaded, More, This, mainVars, boxVars, threadVars,
     ThreadStates
<1> QED
  BY <1>1, <1>2, <1>3

LEMMA StoreTyped ==
    ASSUME Typed, NEW r \in Requests, NEW k \in Slots, Store(r, k) PROVE Typed'
<1> USE ConstantsAreSane DEF Store, Typed, ThreadGoto
<1>1. TypeOK'
  <2>3. lock' \in [Requests -> Slots \cup {Nobody}]
    BY DEF TypeOK
  <2>4. place' \in [Requests -> [Slots -> Nat \ {0}]]
    BY DEF TypeOK
  <2>9. tpc' \in [Requests -> [Slots -> ThreadStates]]
    BY DEF TypeOK, ThreadStates
  <2>1. results' \in [Requests -> [Items -> SUBSET (Slots \X (Nat \ {0}))]]
    <3>1. <<k, place[r][k]>> \in Slots \X (Nat \ {0})
      BY DEF TypeOK
    <3> DEFINE i == This(r, k)
               v == IF found[r][k] THEN results[r][i] \cup {<<k, place[r][k]>>} ELSE {<<k, place[r][k]>>}
    <3>2. i \in Items
      BY DEF Threaded
    <3>3. v \in SUBSET (Slots \X (Nat \ {0}))
      BY <3>1, <3>2 DEF TypeOK
    <3>4. results' = [results EXCEPT ![r][i] = v]
      OBVIOUS
    <3>5. results \in [Requests -> [Items -> SUBSET (Slots \X (Nat \ {0}))]]
      BY DEF TypeOK
    <3> HIDE DEF i, v
    <3> QED
      BY ONLY <3>2, <3>3, <3>4, <3>5, r \in Requests
  <2> QED
    BY <2>1, <2>3, <2>4, <2>9 DEF TypeOK, mainVars, boxVars, threadVars
<1>2. \A q \in Requests : Slotted(q)'
  BY DEF TypeOK, Slotted, mainVars, boxVars, threadVars, ThreadStates, This
<1>3. \A q \in Requests, j \in Slots : Threaded(q, j)'
  BY DEF TypeOK, Threaded, More, This, mainVars, boxVars, threadVars,
     ThreadStates, This
<1> QED
  BY <1>1, <1>2, <1>3

LEMMA LookupBoxTyped ==
    ASSUME Typed, NEW r \in Requests, NEW k \in Slots, LookupBox(r, k) PROVE Typed'
<1> USE ConstantsAreSane DEF LookupBox, Typed, ThreadGoto
<1>1. TypeOK'
  <2>4. place' \in [Requests -> [Slots -> Nat \ {0}]]
    <3>1. place' = place \/ place' = [place EXCEPT ![r][k] = @ + 1]
      OBVIOUS
    <3>2. place \in [Requests -> [Slots -> Nat \ {0}]]
      BY DEF TypeOK
    <3> QED
      BY ONLY <3>1, <3>2
  <2>9. tpc' \in [Requests -> [Slots -> ThreadStates]]
    BY DEF TypeOK, ThreadStates
  <2>1. boxes' \in [Requests -> Seq([id : Infoboxes, slots : SUBSET Slots])]
    BY LookupBoxBoxes DEF TypeOK
  <2> QED
    BY <2>1, <2>4, <2>9 DEF TypeOK, mainVars, boxVars, threadVars
<1>2. \A q \in Requests : Slotted(q)'
  BY DEF TypeOK, Slotted, mainVars, boxVars, threadVars, ThreadStates, More,
     This
<1>3. \A q \in Requests, j \in Slots : Threaded(q, j)'
  BY DEF TypeOK, Threaded, More, This, mainVars, boxVars, threadVars,
     ThreadStates
<1> QED
  BY <1>1, <1>2, <1>3

LEMMA AppendBoxTyped ==
    ASSUME Typed, NEW r \in Requests, NEW k \in Slots, AppendBox(r, k) PROVE Typed'
<1> USE ConstantsAreSane DEF AppendBox, Typed, ThreadGoto
<1>1. TypeOK'
  <2>4. place' \in [Requests -> [Slots -> Nat \ {0}]]
    BY DEF TypeOK
  <2>9. tpc' \in [Requests -> [Slots -> ThreadStates]]
    BY DEF TypeOK, ThreadStates
  <2>1. This(r, k) \in Infoboxes
    BY DEF Threaded
  <2>2. boxes' \in [Requests -> Seq([id : Infoboxes, slots : SUBSET Slots])]
    <3> DEFINE n == [id |-> This(r, k), slots |-> {k}]
    <3>1. n \in [id : Infoboxes, slots : SUBSET Slots]
      BY <2>1
    <3>2. boxes' = [boxes EXCEPT ![r] = Append(@, n)]
      OBVIOUS
    <3> DEFINE B == [id : Infoboxes, slots : SUBSET Slots]
    <3>3. boxes \in [Requests -> Seq(B)]
      BY DEF TypeOK
    <3>4. n \in B
      BY <3>1
    <3> HIDE DEF n, B
    <3>5. Append(boxes[r], n) \in Seq(B)
      BY <3>3, <3>4
    <3>6. boxes' \in [Requests -> Seq(B)]
      BY ONLY <3>2, <3>3, <3>5, r \in Requests
    <3> QED
      BY <3>6 DEF B
  <2> QED
    BY <2>2, <2>4, <2>9 DEF TypeOK, mainVars, boxVars, threadVars
<1>2. \A q \in Requests : Slotted(q)'
  BY DEF TypeOK, Slotted, mainVars, boxVars, threadVars, ThreadStates, This
<1>3. \A q \in Requests, j \in Slots : Threaded(q, j)'
  BY DEF TypeOK, Threaded, More, This, mainVars, boxVars, threadVars,
     ThreadStates, This
<1> QED
  BY <1>1, <1>2, <1>3

LEMMA MergeRaisesTyped ==
    ASSUME Typed, NEW r \in Requests, NEW k \in Slots, MergeRaises(r, k) PROVE Typed'
<1> USE ConstantsAreSane DEF MergeRaises, Typed, ThreadGoto
<1>1. TypeOK'
  <2>1. PICK c \in {"error", "invalid"}, l \in {"failing", "ended"} :
            cause' = [cause EXCEPT ![r][k] = c] /\ tpc' = [tpc EXCEPT ![r][k] = l]
    OBVIOUS
  <2>2. cause' \in [Requests -> [Slots -> {"list", "none", "invalid", "timeout", "error", "banning"}]]
    BY <2>1 DEF TypeOK
  <2>3. tpc' \in [Requests -> [Slots -> ThreadStates]]
    BY <2>1 DEF TypeOK, ThreadStates
  <2> QED
    BY <2>2, <2>3 DEF TypeOK, mainVars, boxVars, threadVars
<1>2. \A q \in Requests : Slotted(q)'
  BY DEF TypeOK, Slotted, mainVars, boxVars, threadVars, ThreadStates, More
<1>3. \A q \in Requests, j \in Slots : Threaded(q, j)'
  <2> SUFFICES ASSUME NEW q \in Requests, NEW j \in Slots PROVE Threaded(q, j)'
    OBVIOUS
  <2>1. Threaded(q, j) /\ Threaded(r, k)
    OBVIOUS
  <2>2. tpc[r][k] = "merging" /\ UNCHANGED <<asked, answer, place>>
    BY DEF mainVars
  <2>3. CASE q = r /\ j = k
    <3>1. tpc'[r][k] \in {"failing", "ended"}
      BY DEF TypeOK
    <3> QED
      BY ONLY <2>1, <2>2, <2>3, <3>1 DEF Threaded
  <2>4. CASE ~(q = r /\ j = k)
    <3>1. tpc'[q][j] = tpc[q][j]
      BY <2>4 DEF TypeOK
    <3> QED
      BY ONLY <2>1, <2>2, <3>1 DEF Threaded, More, This
  <2> QED
    BY <2>3, <2>4
<1> QED
  BY <1>1, <1>2, <1>3

LEMMA AddTimingTyped ==
    ASSUME Typed, NEW r \in Requests, NEW k \in Slots, AddTiming(r, k) PROVE Typed'
<1> USE ConstantsAreSane DEF AddTiming, Typed, ThreadGoto
<1>1. TypeOK'
  BY DEF TypeOK, mainVars, boxVars, threadVars, CheckOpen, ThreadStates, More
<1>2. \A q \in Requests : Slotted(q)'
  BY DEF TypeOK, Slotted, mainVars, boxVars, threadVars, CheckOpen,
     ThreadStates, More
<1>3. \A q \in Requests, j \in Slots : Threaded(q, j)'
  BY DEF TypeOK, Threaded, More, This, mainVars, boxVars, threadVars,
     CheckOpen, ThreadStates, More
<1> QED
  BY <1>1, <1>2, <1>3

LEMMA AddUnresponsiveTyped ==
    ASSUME Typed, NEW r \in Requests, NEW k \in Slots, AddUnresponsive(r, k) PROVE Typed'
<1> USE ConstantsAreSane DEF AddUnresponsive, Typed, ThreadGoto
<1>1. TypeOK'
  BY DEF TypeOK, mainVars, boxVars, threadVars, CheckOpen, ThreadStates
<1>2. \A q \in Requests : Slotted(q)'
  BY DEF TypeOK, Slotted, mainVars, boxVars, threadVars, CheckOpen,
     ThreadStates
<1>3. \A q \in Requests, j \in Slots : Threaded(q, j)'
  BY DEF TypeOK, Threaded, More, This, mainVars, boxVars, threadVars,
     CheckOpen, ThreadStates
<1> QED
  BY <1>1, <1>2, <1>3

LEMMA RecordTimingTyped ==
    ASSUME Typed, NEW r \in Requests, NEW k \in Slots, RecordTiming(r, k) PROVE Typed'
<1> USE ConstantsAreSane DEF RecordTiming, Typed, ThreadGoto
<1>1. TypeOK'
  BY DEF TypeOK, mainVars, boxVars, threadVars, ThreadStates
<1>2. \A q \in Requests : Slotted(q)'
  BY DEF TypeOK, Slotted, mainVars, boxVars, threadVars, ThreadStates
<1>3. \A q \in Requests, j \in Slots : Threaded(q, j)'
  BY DEF TypeOK, Threaded, More, This, mainVars, boxVars, threadVars,
     ThreadStates
<1> QED
  BY <1>1, <1>2, <1>3

LEMMA ReportFailureTyped ==
    ASSUME Typed, NEW r \in Requests, NEW k \in Slots, ReportFailure(r, k) PROVE Typed'
<1> USE ConstantsAreSane DEF ReportFailure, Typed, ThreadGoto
<1>1. TypeOK'
  <2>3. lock' \in [Requests -> Slots \cup {Nobody}]
    BY DEF TypeOK
  <2>0. k \in DOMAIN asked[r] /\ asked[r][k] \in Engines
    BY DEF TypeOK, Threaded, More, This
  <2>9. tpc' \in [Requests -> [Slots -> ThreadStates]]
    BY DEF TypeOK, ThreadStates
  <2>1. unresponsive' \in [Requests -> SUBSET [engine : Engines, error : Errors]]
    BY <2>0, BlameTyped DEF TypeOK, Errors
  <2> QED
    BY <2>1, <2>3, <2>9 DEF TypeOK, mainVars, boxVars, threadVars
<1>2. \A q \in Requests : Slotted(q)'
  BY DEF TypeOK, Slotted, mainVars, boxVars, threadVars, Blame, Errors,
     ThreadStates
<1>3. \A q \in Requests, j \in Slots : Threaded(q, j)'
  BY DEF TypeOK, Threaded, More, This, mainVars, boxVars, threadVars, Blame,
     Errors, ThreadStates
<1> QED
  BY <1>1, <1>2, <1>3

LEMMA SuspendTyped ==
    ASSUME Typed, NEW r \in Requests, NEW k \in Slots, Suspend(r, k) PROVE Typed'
<1> USE ConstantsAreSane DEF Suspend, Typed, ThreadGoto
<1>1. TypeOK'
  <2>0. k \in DOMAIN asked[r] /\ asked[r][k] \in Engines
    BY DEF TypeOK, Threaded, More, This
  <2>9. tpc' \in [Requests -> [Slots -> ThreadStates]]
    BY DEF TypeOK, ThreadStates
  <2>1. ban' \in [Networks -> Nat]
    BY <2>0 DEF TypeOK
  <2> QED
    BY <2>1, <2>9 DEF TypeOK, mainVars, boxVars, threadVars
<1>2. \A q \in Requests : Slotted(q)'
  BY DEF TypeOK, Slotted, mainVars, boxVars, threadVars, ThreadStates
<1>3. \A q \in Requests, j \in Slots : Threaded(q, j)'
  BY DEF TypeOK, Threaded, More, This, mainVars, boxVars, threadVars,
     ThreadStates
<1> QED
  BY <1>1, <1>2, <1>3

LEMMA ResumeTyped ==
    ASSUME Typed, NEW r \in Requests, NEW k \in Slots, Resume(r, k) PROVE Typed'
<1> USE ConstantsAreSane DEF Resume, Typed, ThreadGoto
<1>1. TypeOK'
  BY DEF TypeOK, mainVars, boxVars, threadVars, ThreadStates
<1>2. \A q \in Requests : Slotted(q)'
  BY DEF TypeOK, Slotted, mainVars, boxVars, threadVars, ThreadStates
<1>3. \A q \in Requests, j \in Slots : Threaded(q, j)'
  BY DEF TypeOK, Threaded, More, This, mainVars, boxVars, threadVars,
     ThreadStates
<1> QED
  BY <1>1, <1>2, <1>3

-----------------------------------------------------------------------------
(* Typed holds in every reachable state. *)

LEMMA TypedStep == Typed /\ [Next]_vars => Typed'
<1> SUFFICES ASSUME Typed, [Next]_vars PROVE Typed'
  OBVIOUS
<1>1. ASSUME NEW r \in Requests, Flask(r) PROVE Typed'
  BY <1>1, BeginTyped, BeginElsewhereTyped, CollectTyped, CollectedTyped,
     JoinEndedTyped, JoinGivesUpTyped, CloseTyped, ScoreTyped, ShowTyped
  DEF Flask
<1>2. ASSUME NEW r \in Requests, NEW k \in Slots, Thread(r, k) PROVE Typed'
  BY <1>2, AnswerListTyped, AnswerNoneTyped, AnswerFailsTyped,
     AnswerInvalidTyped, ReadClosedTyped, LookupTyped, StoreTyped,
     LookupBoxTyped, AppendBoxTyped, MergeRaisesTyped, AddTimingTyped,
     AddUnresponsiveTyped, RecordTimingTyped, ReportFailureTyped, SuspendTyped,
     ResumeTyped
  DEF Thread, UnderLock
<1>3. ASSUME Tick PROVE Typed'
  <2>1. UNCHANGED <<ban, mainVars, boxVars, lock, threadVars>> /\ now' \in Nat
    BY <1>3 DEF Tick, Typed, TypeOK
  <2>2. TypeOK'
    BY <2>1 DEF Typed, TypeOK, mainVars, boxVars, threadVars
  <2>3. \A r \in Requests : Slotted(r)'
    BY <2>1 DEF Typed, Slotted, mainVars, boxVars, threadVars
  <2>4. \A r \in Requests, k \in Slots : Threaded(r, k)'
    BY <2>1 DEF Typed, Threaded, More, This, mainVars, boxVars, threadVars
  <2> QED
    BY <2>2, <2>3, <2>4 DEF Typed
<1>4. ASSUME UNCHANGED vars PROVE Typed'
  BY <1>4
  DEF vars, Typed, TypeOK, Slotted, Threaded, More, This, mainVars, boxVars,
      threadVars
<1> QED
  BY <1>1, <1>2, <1>3, <1>4 DEF Next, Finished

THEOREM Typing == Spec => []Typed
<1>1. Init => Typed
  BY InitTyped
<1>2. Typed /\ [Next]_vars => Typed'
  BY TypedStep
<1> QED
  BY <1>1, <1>2, PTL DEF Spec

-----------------------------------------------------------------------------
(* The inductive invariant. *)

\* The lock of the container is held by the thread that is in a locked section.
Locked(r, k) == tpc[r][k] \in Holding <=> lock[r] = k

\* The lookup of a thread that holds the lock is still true.
Looked(r, k) == tpc[r][k] = "storing" => (found[r][k] <=> results[r][This(r, k)] # {})

\* Result p of the list of slot k is in the container.
Entered(r, k, p) ==
    LET i == answer[r][k][p] IN
    IF i \in Items THEN <<k, p>> \in results[r][i]
    ELSE \E b \in DOMAIN boxes[r] : boxes[r][b].id = i /\ k \in boxes[r][b].slots

\* How far a thread has merged its list.
Progress(r, k) ==
    /\ pc[r] \in {"idle", "collect"} =>
          tpc[r][k] = "none" /\ ~flagged[r][k] /\ cause[r][k] = "list"
    /\ tpc[r][k] \in {"none", "asking"} => answer[r][k] = <<>>
    /\ tpc[r][k] \in {"none", "asking", "extending"} => place[r][k] = 1
    /\ tpc[r][k] \in {"merging", "storing", "boxing"} =>
          \A p \in DOMAIN answer[r][k] : p < place[r][k] => Entered(r, k, p)
    /\ tpc[r][k] = "recording" \/ k \in timings[r] =>
          \A p \in DOMAIN answer[r][k] : Entered(r, k, p)
    /\ k \in timings[r] => tpc[r][k] \in {"lifting", "ended"}
    /\ tpc[r][k] = "ignored" => closed[r]
    /\ cause[r][k] = "none" => answer[r][k] = <<>> /\ tpc[r][k] \in {"lifting", "ended"}
    /\ cause[r][k] = "invalid" => asked[r][k] \in Offline /\ tpc[r][k] = "ended"

Known(r, k) == asked[r][k] \in Quiet \/ Blamed(r, asked[r][k])

\* What is known of the engine of slot k, as its thread and the search go on.
Accounted(r, k) == k \in DOMAIN asked[r] =>
    /\ flagged[r][k] => Known(r, k)
    /\ tpc[r][k] \in {"striking", "lifting", "ended"} =>
          closed[r] \/ k \in timings[r] \/ Known(r, k) \/ cause[r][k] \in {"none", "invalid"}
    /\ pc[r] = "join" /\ k < cursor[r] => tpc[r][k] = "ended" \/ flagged[r][k]
    /\ closed[r] => \/ k \in timings[r] \/ Known(r, k)
                    \/ cause[r][k] \in {"none", "invalid"} /\ tpc[r][k] \in {"lifting", "ended"}
    /\ closed[r] => tpc[r][k] = "ended" \/ flagged[r][k]

\* Once the page is shown no thread is between the check of `_closed' and the
\* entry, and what was delivered is shown.
Shown(r, k) == pc[r] = "served" =>
    /\ tpc[r][k] \notin {"recording", "reporting"}
    /\ k \in timings[r] => \A p \in DOMAIN answer[r][k] :
          answer[r][k][p] \in Items => answer[r][k][p] \in shown[r]

\* What is entered after the container was closed comes from engines that were given
\* up, and adds to what there was.
Late(r) == closed[r] => \A i \in Items :
    /\ before[r][i] \subseteq results[r][i]
    /\ \A entry \in results[r][i] \ before[r][i] : flagged[r][entry[1]]

\* Only a late result breaks the closing.
Closing(r) ==
    /\ closed[r] <=> pc[r] \in {"score", "timings", "served", "failed"}
    /\ pc[r] = "failed" => \E i \in Items : results[r][i] # before[r][i]
    /\ Late(r)

Sound(r) ==
    /\ \A k \in Slots : Locked(r, k) /\ Looked(r, k) /\ Progress(r, k)
    /\ \A k \in Slots : Accounted(r, k) /\ Shown(r, k)
    /\ Closing(r)

IInv == Typed /\ \A r \in Requests : Sound(r)

LEMMA InitSound == Init => \A r \in Requests : Sound(r)
<1> SUFFICES ASSUME Init, NEW r \in Requests PROVE Sound(r)
  OBVIOUS
<1>1. /\ pc[r] = "idle" /\ asked[r] = <<>> /\ ~closed[r] /\ timings[r] = {}
      /\ lock[r] = Nobody
  BY DEF Init, PerRequest
<1>2. \A k \in Slots : /\ tpc[r][k] = "none" /\ ~flagged[r][k] /\ answer[r][k] = <<>>
                        /\ place[r][k] = 1 /\ cause[r][k] = "list"
  BY DEF Init, PerThread
<1>3. \A k \in Slots : k # Nobody
  BY DEF Slots, Nobody
<1>4. \A k \in Slots : Locked(r, k) /\ Looked(r, k) /\ Progress(r, k)
  BY ONLY <1>1, <1>2, <1>3 DEF Locked, Looked, Progress, Holding
<1>5. \A k \in Slots : Accounted(r, k) /\ Shown(r, k)
  BY ONLY <1>1, <1>2 DEF Accounted, Shown
<1>6. Closing(r)
  BY ONLY <1>1 DEF Closing, Late
<1> QED
  BY <1>4, <1>5, <1>6 DEF Sound

\* What a request owns.
Own(r) == <<pc[r], query[r], start[r], limit[r], cursor[r], asked[r], closed[r], results[r],
            boxes[r], unresponsive[r], timings[r], before[r], shown[r], lock[r], tpc[r],
            flagged[r], answer[r], place[r], found[r], cause[r]>>

\* A request of which nothing changed stays sound.
LEMMA OthersStaySound ==
    ASSUME NEW q \in Requests, Sound(q), UNCHANGED Own(q) PROVE Sound(q)'
<1>3. Closing(q)'
  BY DEF Own, Sound, Closing, Late
<1> SUFFICES ASSUME NEW k \in Slots
    PROVE  (Locked(q, k) /\ Looked(q, k) /\ Progress(q, k) /\ Accounted(q, k) /\ Shown(q, k))'
  BY <1>3 DEF Sound
<1>4. Locked(q, k)' /\ Looked(q, k)' /\ Shown(q, k)'
  BY DEF Own, Sound, Locked, Looked, This, Shown
<1>5. \A p : Entered(q, k, p)' <=> Entered(q, k, p)
  BY DEF Own, Entered
<1>6. Progress(q, k)'
  BY <1>5 DEF Own, Sound, Progress
<1>7. Accounted(q, k)'
  BY DEF Own, Sound, Accounted, Known, Blamed
<1> QED
  BY <1>4, <1>6, <1>7

\* Closing follows when neither the map nor the phase changed.
LEMMA ClosingStays ==
    ASSUME NEW r \in Requests, Closing(r),
           UNCHANGED <<pc[r], closed[r], results[r], before[r], flagged[r]>>
    PROVE  Closing(r)'
BY DEF Closing, Late

LEMMA AnswerListSound ==
    ASSUME IInv, NEW r \in Requests, NEW k \in Slots, AnswerList(r, k) PROVE \A q \in Requests : Sound(q)'
<1>1. TypeOK /\ Sound(r) /\ \A k1 \in Slots : Threaded(r, k1)
  BY DEF IInv, Typed
<1>2. \A q \in Requests \ {r} : Sound(q)'
  <2> SUFFICES ASSUME NEW q \in Requests \ {r} PROVE UNCHANGED Own(q)
    BY OthersStaySound DEF IInv
  <2> QED
    BY <1>1
    DEF TypeOK, AnswerList, ThreadGoto, Own, mainVars, boxVars, threadVars,
        Comes, ReadFlag
<1>3. /\ tpc[r][k] = "asking"
      /\ UNCHANGED <<pc, cursor, asked, closed, results, boxes, unresponsive, timings, before, shown, lock, flagged, place, found>>
      /\ tpc'[r][k] = IF flagged[r][k] THEN "failing" ELSE "extending"
      /\ cause'[r][k] \in {"timeout", "list"}
  BY <1>1
  DEF TypeOK, AnswerList, ThreadGoto, Free, mainVars, boxVars, threadVars,
      Comes, ReadFlag
<1>4. ASSUME NEW j \in Slots \ {k}
      PROVE  tpc'[r][j] = tpc[r][j] /\ answer'[r][j] = answer[r][j] /\ cause'[r][j] = cause[r][j]
  BY <1>1 DEF TypeOK, AnswerList, ThreadGoto, Comes, ReadFlag
<1>5. Closing(r)'
  BY <1>1, <1>3, ClosingStays DEF Sound
<1> SUFFICES ASSUME NEW j \in Slots
    PROVE  (Locked(r, j) /\ Looked(r, j) /\ Progress(r, j) /\ Accounted(r, j) /\ Shown(r, j))'
  BY <1>2, <1>5 DEF Sound
<1>6. Sound(r) /\ TypeOK /\ Threaded(r, j) /\ Threaded(r, k) /\ (k = j \/ j \in Slots \ {k}) /\ j \in Nat \ {0}
  BY <1>1 DEF Slots
<1>7. Locked(r, j)'
  BY ONLY <1>3, <1>4, <1>6, k \in Slots, j \in Slots
  DEF Sound, Locked, Holding, Nobody
<1>8. Looked(r, j)'
  BY ONLY <1>3, <1>4, <1>6, k \in Slots, j \in Slots
  DEF Sound, Locked, Looked, This, Holding, Nobody
<1>9. k # j => \A p : Entered(r, j, p) => Entered(r, j, p)'
  BY ONLY <1>3, <1>4, <1>6, k \in Slots, j \in Slots DEF Entered
<1>10. Progress(r, j)'
  BY ONLY <1>3, <1>4, <1>6, <1>9, k \in Slots, j \in Slots
  DEF Sound, Progress, More, TypeOK
<1>11. Accounted(r, j)'
  BY ONLY <1>3, <1>4, <1>6, k \in Slots, j \in Slots
  DEF Sound, Accounted, Known, Blamed, Threaded, Progress
<1>12. Shown(r, j)'
  BY ONLY <1>3, <1>4, <1>6, k \in Slots, j \in Slots
  DEF Sound, Shown, Closing, Progress
<1> QED
  BY <1>7, <1>8, <1>10, <1>11, <1>12

LEMMA AnswerNoneSound ==
    ASSUME IInv, NEW r \in Requests, NEW k \in Slots, AnswerNone(r, k) PROVE \A q \in Requests : Sound(q)'
<1>1. TypeOK /\ Sound(r) /\ \A k1 \in Slots : Threaded(r, k1)
  BY DEF IInv, Typed
<1>2. \A q \in Requests \ {r} : Sound(q)'
  <2> SUFFICES ASSUME NEW q \in Requests \ {r} PROVE UNCHANGED Own(q)
    BY OthersStaySound DEF IInv
  <2> QED
    BY <1>1
    DEF TypeOK, AnswerNone, ThreadGoto, Own, mainVars, boxVars, threadVars,
        Comes, ReadFlag
<1>3. /\ tpc[r][k] = "asking"
      /\ UNCHANGED <<pc, cursor, asked, closed, results, boxes, unresponsive, timings, before, shown, lock, flagged, answer, place, found>>
      /\ tpc'[r][k] = IF flagged[r][k] THEN "failing" ELSE "lifting"
      /\ cause'[r][k] = IF flagged[r][k] THEN "timeout" ELSE "none"
  BY <1>1
  DEF TypeOK, AnswerNone, ThreadGoto, Free, mainVars, boxVars, threadVars,
      Comes, ReadFlag
<1>4. ASSUME NEW j \in Slots \ {k}
      PROVE  tpc'[r][j] = tpc[r][j] /\ cause'[r][j] = cause[r][j]
  BY <1>1 DEF TypeOK, AnswerNone, ThreadGoto, Comes, ReadFlag
<1>5. Closing(r)'
  BY <1>1, <1>3, ClosingStays DEF Sound
<1> SUFFICES ASSUME NEW j \in Slots
    PROVE  (Locked(r, j) /\ Looked(r, j) /\ Progress(r, j) /\ Accounted(r, j) /\ Shown(r, j))'
  BY <1>2, <1>5 DEF Sound
<1>6. Sound(r) /\ TypeOK /\ Threaded(r, j) /\ Threaded(r, k) /\ (k = j \/ j \in Slots \ {k}) /\ j \in Nat \ {0}
  BY <1>1 DEF Slots
<1>7. Locked(r, j)'
  BY ONLY <1>3, <1>4, <1>6, k \in Slots, j \in Slots
  DEF Sound, Locked, Holding, Nobody
<1>8. Looked(r, j)'
  BY ONLY <1>3, <1>4, <1>6, k \in Slots, j \in Slots
  DEF Sound, Locked, Looked, This, Holding, Nobody
<1>9. \A p : Entered(r, j, p) => Entered(r, j, p)'
  BY ONLY <1>3, <1>4, <1>6, k \in Slots, j \in Slots DEF Entered
<1>10. Progress(r, j)'
  BY ONLY <1>3, <1>4, <1>6, <1>9, k \in Slots, j \in Slots
  DEF Sound, Progress, More, TypeOK
<1>11. Accounted(r, j)'
  BY ONLY <1>3, <1>4, <1>6, k \in Slots, j \in Slots
  DEF Sound, Accounted, Known, Blamed, Threaded, Progress
<1>12. Shown(r, j)'
  BY ONLY <1>3, <1>4, <1>6, k \in Slots, j \in Slots
  DEF Sound, Shown, Closing, Progress
<1> QED
  BY <1>7, <1>8, <1>10, <1>11, <1>12

LEMMA AnswerFailsSound ==
    ASSUME IInv, NEW r \in Requests, NEW k \in Slots, AnswerFails(r, k) PROVE \A q \in Requests : Sound(q)'
<1>1. TypeOK /\ Sound(r) /\ \A k1 \in Slots : Threaded(r, k1)
  BY DEF IInv, Typed
<1>2. \A q \in Requests \ {r} : Sound(q)'
  <2> SUFFICES ASSUME NEW q \in Requests \ {r} PROVE UNCHANGED Own(q)
    BY OthersStaySound DEF IInv
  <2> QED
    BY <1>1
    DEF TypeOK, AnswerFails, ThreadGoto, Own, mainVars, boxVars, threadVars,
        Comes
<1>3. /\ tpc[r][k] = "asking"
      /\ UNCHANGED <<pc, cursor, asked, closed, results, boxes, unresponsive, timings, before, shown, lock, flagged, answer, place, found>>
      /\ tpc'[r][k] = "failing"
      /\ cause'[r][k] \in {"error", "banning"}
  BY <1>1
  DEF TypeOK, AnswerFails, ThreadGoto, Free, mainVars, boxVars, threadVars,
      Comes
<1>4. ASSUME NEW j \in Slots \ {k}
      PROVE  tpc'[r][j] = tpc[r][j] /\ cause'[r][j] = cause[r][j]
  BY <1>1 DEF TypeOK, AnswerFails, ThreadGoto, Comes
<1>5. Closing(r)'
  BY <1>1, <1>3, ClosingStays DEF Sound
<1> SUFFICES ASSUME NEW j \in Slots
    PROVE  (Locked(r, j) /\ Looked(r, j) /\ Progress(r, j) /\ Accounted(r, j) /\ Shown(r, j))'
  BY <1>2, <1>5 DEF Sound
<1>6. Sound(r) /\ TypeOK /\ Threaded(r, j) /\ Threaded(r, k) /\ (k = j \/ j \in Slots \ {k}) /\ j \in Nat \ {0}
  BY <1>1 DEF Slots
<1>7. Locked(r, j)'
  BY ONLY <1>3, <1>4, <1>6, k \in Slots, j \in Slots
  DEF Sound, Locked, Holding, Nobody
<1>8. Looked(r, j)'
  BY ONLY <1>3, <1>4, <1>6, k \in Slots, j \in Slots
  DEF Sound, Locked, Looked, This, Holding, Nobody
<1>9. \A p : Entered(r, j, p) => Entered(r, j, p)'
  BY ONLY <1>3, <1>4, <1>6, k \in Slots, j \in Slots DEF Entered
<1>10. Progress(r, j)'
  BY ONLY <1>3, <1>4, <1>6, <1>9, k \in Slots, j \in Slots
  DEF Sound, Progress, More, TypeOK
<1>11. Accounted(r, j)'
  BY ONLY <1>3, <1>4, <1>6, k \in Slots, j \in Slots
  DEF Sound, Accounted, Known, Blamed, Threaded, Progress
<1>12. Shown(r, j)'
  BY ONLY <1>3, <1>4, <1>6, k \in Slots, j \in Slots
  DEF Sound, Shown, Closing, Progress
<1> QED
  BY <1>7, <1>8, <1>10, <1>11, <1>12

LEMMA AnswerInvalidSound ==
    ASSUME IInv, NEW r \in Requests, NEW k \in Slots, AnswerInvalid(r, k) PROVE \A q \in Requests : Sound(q)'
<1>1. TypeOK /\ Sound(r) /\ \A k1 \in Slots : Threaded(r, k1)
  BY DEF IInv, Typed
<1>2. \A q \in Requests \ {r} : Sound(q)'
  <2> SUFFICES ASSUME NEW q \in Requests \ {r} PROVE UNCHANGED Own(q)
    BY OthersStaySound DEF IInv
  <2> QED
    BY <1>1
    DEF TypeOK, AnswerInvalid, ThreadGoto, Own, mainVars, boxVars, threadVars,
        Comes
<1>3. /\ tpc[r][k] = "asking"
      /\ UNCHANGED <<pc, cursor, asked, closed, results, boxes, unresponsive, timings, before, shown, lock, flagged, answer, place, found>>
      /\ tpc'[r][k] = "ended"
      /\ cause'[r][k] = "invalid"
  BY <1>1
  DEF TypeOK, AnswerInvalid, ThreadGoto, Free, mainVars, boxVars, threadVars,
      Comes
<1>13. asked[r][k] \in Offline
  <2>1. k \in DOMAIN asked[r] /\ asked[r][k] \in Engines /\ "invalid" \in Outcomes[asked[r][k]]
    BY <1>1 DEF AnswerInvalid, Comes, Threaded, TypeOK
  <2> QED
    BY <2>1, ConstantsAreSane
<1>4. ASSUME NEW j \in Slots \ {k}
      PROVE  tpc'[r][j] = tpc[r][j] /\ cause'[r][j] = cause[r][j]
  BY <1>1 DEF TypeOK, AnswerInvalid, ThreadGoto, Comes
<1>5. Closing(r)'
  BY <1>1, <1>3, ClosingStays DEF Sound
<1> SUFFICES ASSUME NEW j \in Slots
    PROVE  (Locked(r, j) /\ Looked(r, j) /\ Progress(r, j) /\ Accounted(r, j) /\ Shown(r, j))'
  BY <1>2, <1>5 DEF Sound
<1>6. Sound(r) /\ TypeOK /\ Threaded(r, j) /\ Threaded(r, k) /\ (k = j \/ j \in Slots \ {k}) /\ j \in Nat \ {0}
  BY <1>1 DEF Slots
<1>7. Locked(r, j)'
  BY ONLY <1>3, <1>4, <1>6, k \in Slots, j \in Slots
  DEF Sound, Locked, Holding, Nobody
<1>8. Looked(r, j)'
  BY ONLY <1>3, <1>4, <1>6, k \in Slots, j \in Slots
  DEF Sound, Locked, Looked, This, Holding, Nobody
<1>9. \A p : Entered(r, j, p) => Entered(r, j, p)'
  BY ONLY <1>3, <1>4, <1>6, k \in Slots, j \in Slots DEF Entered
<1>10. Progress(r, j)'
  BY ONLY <1>3, <1>4, <1>6, <1>9, <1>13, k \in Slots, j \in Slots
  DEF Sound, Progress, More, TypeOK
<1>11. Accounted(r, j)'
  BY ONLY <1>3, <1>4, <1>6, k \in Slots, j \in Slots
  DEF Sound, Accounted, Known, Blamed, Threaded, Progress
<1>12. Shown(r, j)'
  BY ONLY <1>3, <1>4, <1>6, k \in Slots, j \in Slots
  DEF Sound, Shown, Closing, Progress
<1> QED
  BY <1>7, <1>8, <1>10, <1>11, <1>12

LEMMA ReadClosedSound ==
    ASSUME IInv, NEW r \in Requests, NEW k \in Slots, ReadClosed(r, k) PROVE \A q \in Requests : Sound(q)'
<1>1. TypeOK /\ Sound(r) /\ \A k1 \in Slots : Threaded(r, k1)
  BY DEF IInv, Typed
<1>2. \A q \in Requests \ {r} : Sound(q)'
  <2> SUFFICES ASSUME NEW q \in Requests \ {r} PROVE UNCHANGED Own(q)
    BY OthersStaySound DEF IInv
  <2> QED
    BY <1>1
    DEF TypeOK, ReadClosed, ThreadGoto, Own, mainVars, boxVars, threadVars
<1>3. /\ tpc[r][k] = "extending"
      /\ UNCHANGED <<pc, cursor, asked, closed, results, boxes, unresponsive, timings, before, shown, lock, flagged, answer, place, found, cause>>
      /\ tpc'[r][k] = IF closed[r] THEN "ignored" ELSE "merging"
  BY <1>1
  DEF TypeOK, ReadClosed, ThreadGoto, Free, mainVars, boxVars, threadVars
<1>4. ASSUME NEW j \in Slots \ {k}
      PROVE  tpc'[r][j] = tpc[r][j]
  BY <1>1 DEF TypeOK, ReadClosed, ThreadGoto
<1>5. Closing(r)'
  BY <1>1, <1>3, ClosingStays DEF Sound
<1> SUFFICES ASSUME NEW j \in Slots
    PROVE  (Locked(r, j) /\ Looked(r, j) /\ Progress(r, j) /\ Accounted(r, j) /\ Shown(r, j))'
  BY <1>2, <1>5 DEF Sound
<1>6. Sound(r) /\ TypeOK /\ Threaded(r, j) /\ Threaded(r, k) /\ (k = j \/ j \in Slots \ {k}) /\ j \in Nat \ {0}
  BY <1>1 DEF Slots
<1>7. Locked(r, j)'
  BY ONLY <1>3, <1>4, <1>6, k \in Slots, j \in Slots
  DEF Sound, Locked, Holding, Nobody
<1>8. Looked(r, j)'
  BY ONLY <1>3, <1>4, <1>6, k \in Slots, j \in Slots
  DEF Sound, Locked, Looked, This, Holding, Nobody
<1>9. \A p : Entered(r, j, p) => Entered(r, j, p)'
  BY ONLY <1>3, <1>4, <1>6, k \in Slots, j \in Slots DEF Entered
<1>10. Progress(r, j)'
  BY ONLY <1>3, <1>4, <1>6, <1>9, k \in Slots, j \in Slots
  DEF Sound, Progress, More, TypeOK
<1>11. Accounted(r, j)'
  BY ONLY <1>3, <1>4, <1>6, k \in Slots, j \in Slots
  DEF Sound, Accounted, Known, Blamed, Threaded, Progress
<1>12. Shown(r, j)'
  BY ONLY <1>3, <1>4, <1>6, k \in Slots, j \in Slots
  DEF Sound, Shown, Closing, Progress
<1> QED
  BY <1>7, <1>8, <1>10, <1>11, <1>12

LEMMA LookupSound ==
    ASSUME IInv, NEW r \in Requests, NEW k \in Slots, Lookup(r, k) PROVE \A q \in Requests : Sound(q)'
<1>1. TypeOK /\ Sound(r) /\ \A k1 \in Slots : Threaded(r, k1)
  BY DEF IInv, Typed
<1>2. \A q \in Requests \ {r} : Sound(q)'
  <2> SUFFICES ASSUME NEW q \in Requests \ {r} PROVE UNCHANGED Own(q)
    BY OthersStaySound DEF IInv
  <2> QED
    BY <1>1 DEF TypeOK, Lookup, ThreadGoto, Own, mainVars, boxVars, threadVars
<1>3. /\ tpc[r][k] = "merging" /\ lock[r] = Nobody
      /\ UNCHANGED <<pc, cursor, asked, closed, results, boxes, unresponsive, timings, before, shown, flagged, answer, place, cause>>
      /\ tpc'[r][k] = "storing"
      /\ lock'[r] = k
      /\ (found'[r][k] <=> results[r][This(r, k)] # {})
  BY <1>1 DEF TypeOK, Lookup, ThreadGoto, Free, mainVars, boxVars, threadVars
<1>4. ASSUME NEW j \in Slots \ {k}
      PROVE  tpc'[r][j] = tpc[r][j] /\ found'[r][j] = found[r][j]
  BY <1>1 DEF TypeOK, Lookup, ThreadGoto
<1>5. Closing(r)'
  BY <1>1, <1>3, ClosingStays DEF Sound
<1> SUFFICES ASSUME NEW j \in Slots
    PROVE  (Locked(r, j) /\ Looked(r, j) /\ Progress(r, j) /\ Accounted(r, j) /\ Shown(r, j))'
  BY <1>2, <1>5 DEF Sound
<1>6. Sound(r) /\ TypeOK /\ Threaded(r, j) /\ Threaded(r, k) /\ (k = j \/ j \in Slots \ {k}) /\ j \in Nat \ {0}
  BY <1>1 DEF Slots
<1>7. Locked(r, j)'
  BY ONLY <1>3, <1>4, <1>6, k \in Slots, j \in Slots
  DEF Sound, Locked, Holding, Nobody
<1>8. Looked(r, j)'
  BY ONLY <1>3, <1>4, <1>6, k \in Slots, j \in Slots
  DEF Sound, Locked, Looked, This, Holding, Nobody
<1>9. \A p : Entered(r, j, p) => Entered(r, j, p)'
  BY ONLY <1>3, <1>4, <1>6, k \in Slots, j \in Slots DEF Entered
<1>10. Progress(r, j)'
  BY ONLY <1>3, <1>4, <1>6, <1>9, k \in Slots, j \in Slots
  DEF Sound, Progress, More, TypeOK
<1>11. Accounted(r, j)'
  BY ONLY <1>3, <1>4, <1>6, k \in Slots, j \in Slots
  DEF Sound, Accounted, Known, Blamed, Threaded, Progress
<1>12. Shown(r, j)'
  BY ONLY <1>3, <1>4, <1>6, k \in Slots, j \in Slots
  DEF Sound, Shown, Closing, Progress
<1> QED
  BY <1>7, <1>8, <1>10, <1>11, <1>12

LEMMA StoreSound ==
    ASSUME IInv, NEW r \in Requests, NEW k \in Slots, Store(r, k) PROVE \A q \in Requests : Sound(q)'
<1>1. TypeOK /\ Sound(r) /\ \A k1 \in Slots : Threaded(r, k1)
  BY DEF IInv, Typed
<1>2. \A q \in Requests \ {r} : Sound(q)'
  <2> SUFFICES ASSUME NEW q \in Requests \ {r} PROVE UNCHANGED Own(q)
    BY OthersStaySound DEF IInv
  <2> QED
    BY <1>1 DEF TypeOK, Store, ThreadGoto, Own, mainVars, boxVars, threadVars
<1>3. /\ tpc[r][k] = "storing"
      /\ UNCHANGED <<pc, cursor, asked, closed, boxes, unresponsive, timings, before, shown, flagged, answer, found, cause>>
      /\ tpc'[r][k] = "merging"
      /\ lock'[r] = Nobody
      /\ place'[r][k] = place[r][k] + 1
  BY <1>1 DEF TypeOK, Store, ThreadGoto, Free, mainVars, boxVars, threadVars
<1>4. ASSUME NEW j \in Slots \ {k}
      PROVE  tpc'[r][j] = tpc[r][j] /\ place'[r][j] = place[r][j]
  BY <1>1 DEF TypeOK, Store, ThreadGoto
<1>13. /\ \A i \in Items : results[r][i] \subseteq results'[r][i]
       /\ \A i \in Items : results'[r][i] \subseteq results[r][i] \cup {<<k, place[r][k]>>}
       /\ <<k, place[r][k]>> \in results'[r][This(r, k)]
  <2>1. This(r, k) \in Items /\ place[r][k] \in Nat \ {0}
    BY <1>1, <1>3 DEF Threaded, TypeOK
  <2>2. found[r][k] <=> results[r][This(r, k)] # {}
    BY <1>1, <1>3 DEF Sound, Looked
  <2>3. results[r] \in [Items -> SUBSET (Slots \X (Nat \ {0}))]
    BY <1>1 DEF TypeOK
  <2>4. results'[r] = [results[r] EXCEPT ![This(r, k)] =
            IF found[r][k] THEN @ \cup {<<k, place[r][k]>>} ELSE {<<k, place[r][k]>>}]
    BY <1>1 DEF TypeOK, Store
  <2> QED
    BY ONLY <2>1, <2>2, <2>3, <2>4
<1>5. Closing(r)'
  <2>1. Closing(r) /\ UNCHANGED <<pc, closed, before, flagged>>
    BY <1>1, <1>3 DEF Sound
  <2>2. closed[r] => flagged[r][k]
    BY <1>1, <1>3 DEF Sound, Accounted, Threaded
  <2>3. <<k, place[r][k]>>[1] = k
    OBVIOUS
  <2>4. Late(r)'
    BY ONLY <1>13, <2>1, <2>2, <2>3 DEF Closing, Late
  <2>5. pc[r] = "failed" => \E i \in Items : results'[r][i] # before[r][i]
    <3>1. ASSUME pc[r] = "failed", NEW i \in Items, results[r][i] # before[r][i]
          PROVE  results'[r][i] # before[r][i]
      BY ONLY <1>13, <2>1, <3>1 DEF Closing, Late
    <3> QED
      BY <2>1, <3>1 DEF Closing
  <2> QED
    BY ONLY <2>1, <2>4, <2>5 DEF Closing
<1> SUFFICES ASSUME NEW j \in Slots
    PROVE  (Locked(r, j) /\ Looked(r, j) /\ Progress(r, j) /\ Accounted(r, j) /\ Shown(r, j))'
  BY <1>2, <1>5 DEF Sound
<1>6. Sound(r) /\ TypeOK /\ Threaded(r, j) /\ Threaded(r, k) /\ (k = j \/ j \in Slots \ {k}) /\ j \in Nat \ {0}
  BY <1>1 DEF Slots
<1>7. Locked(r, j)'
  BY ONLY <1>3, <1>4, <1>6, k \in Slots, j \in Slots
  DEF Sound, Locked, Holding, Nobody
<1>8. Looked(r, j)'
  <2>1. Locked(r, j) /\ Locked(r, k)
    BY <1>1 DEF Sound
  <2>2. tpc'[r][j] # "storing"
    BY ONLY <1>3, <1>4, <1>6, <2>1, k \in Slots, j \in Slots
    DEF Locked, Holding
  <2> QED
    BY <2>2 DEF Looked
<1>9. /\ \A p : Entered(r, j, p) => Entered(r, j, p)'
      /\ \A p : p = place[r][k] => Entered(r, k, p)'
  <2>1. This(r, k) \in Items
    BY <1>1, <1>3 DEF Threaded
  <2>2. \A p : Entered(r, j, p) => Entered(r, j, p)'
    BY ONLY <1>3, <1>13 DEF Entered
  <2>3. \A p : p = place[r][k] => Entered(r, k, p)'
    BY ONLY <1>3, <1>13, <2>1 DEF Entered, This
  <2> QED
    BY <2>2, <2>3
<1>10. Progress(r, j)'
  <2>1. /\ Progress(r, j) /\ Progress(r, k) /\ answer[r][k] \in Seq(Items \cup Infoboxes)
        /\ place[r][k] \in Nat \ {0}
    BY <1>1, <1>6 DEF Sound, TypeOK
  <2>2. CASE j = k
    BY ONLY <1>3, <1>9, <2>1, <2>2 DEF Progress
  <2>3. CASE j # k
    BY ONLY <1>3, <1>4, <1>6, <1>9, <2>1, <2>3 DEF Progress
  <2> QED
    BY <2>2, <2>3
<1>11. Accounted(r, j)'
  BY ONLY <1>3, <1>4, <1>6, k \in Slots, j \in Slots
  DEF Sound, Accounted, Known, Blamed, Threaded, Progress
<1>12. Shown(r, j)'
  BY ONLY <1>3, <1>4, <1>6, k \in Slots, j \in Slots
  DEF Sound, Shown, Closing, Progress
<1> QED
  BY <1>7, <1>8, <1>10, <1>11, <1>12

LEMMA LookupBoxSound ==
    ASSUME IInv, NEW r \in Requests, NEW k \in Slots, LookupBox(r, k) PROVE \A q \in Requests : Sound(q)'
<1>1. TypeOK /\ Sound(r) /\ \A k1 \in Slots : Threaded(r, k1)
  BY DEF IInv, Typed
<1>2. \A q \in Requests \ {r} : Sound(q)'
  <2> SUFFICES ASSUME NEW q \in Requests \ {r} PROVE UNCHANGED Own(q)
    BY OthersStaySound DEF IInv
  <2> QED
    BY <1>1
    DEF TypeOK, LookupBox, ThreadGoto, Own, mainVars, boxVars, threadVars
<1>3. /\ tpc[r][k] = "merging" /\ lock[r] = Nobody
      /\ UNCHANGED <<pc, cursor, asked, closed, results, unresponsive, timings, before, shown, lock, flagged, answer, found, cause>>
      /\ tpc'[r][k] \in {"merging", "boxing"}
  BY <1>1
  DEF TypeOK, LookupBox, ThreadGoto, Free, mainVars, boxVars, threadVars
<1>4. ASSUME NEW j \in Slots \ {k}
      PROVE  tpc'[r][j] = tpc[r][j] /\ place'[r][j] = place[r][j]
  BY <1>1 DEF TypeOK, LookupBox, ThreadGoto
<1>5. Closing(r)'
  BY <1>1, <1>3, ClosingStays DEF Sound
<1> SUFFICES ASSUME NEW j \in Slots
    PROVE  (Locked(r, j) /\ Looked(r, j) /\ Progress(r, j) /\ Accounted(r, j) /\ Shown(r, j))'
  BY <1>2, <1>5 DEF Sound
<1>6. Sound(r) /\ TypeOK /\ Threaded(r, j) /\ Threaded(r, k) /\ (k = j \/ j \in Slots \ {k}) /\ j \in Nat \ {0}
  BY <1>1 DEF Slots
<1>7. Locked(r, j)'
  BY ONLY <1>3, <1>4, <1>6, k \in Slots, j \in Slots
  DEF Sound, Locked, Holding, Nobody
<1>8. Looked(r, j)'
  BY ONLY <1>3, <1>4, <1>6, k \in Slots, j \in Slots
  DEF Sound, Locked, Looked, This, Holding, Nobody
<1>9. /\ \A p : Entered(r, j, p) => Entered(r, j, p)'
      /\ \/ place'[r][k] = place[r][k]
         \/ /\ place'[r][k] = place[r][k] + 1
            /\ tpc'[r][k] = "merging"
            /\ \A p : p = place[r][k] => Entered(r, k, p)'
  <2>1. This(r, k) \in Infoboxes /\ This(r, k) \notin Items
    BY ConstantsAreSane DEF LookupBox
  <2>2. /\ Len(boxes'[r]) = Len(boxes[r])
        /\ \A b \in DOMAIN boxes[r] :
              /\ boxes'[r][b].id = boxes[r][b].id
              /\ boxes'[r][b].slots = IF boxes[r][b].id = This(r, k) THEN boxes[r][b].slots \cup {k}
                                      ELSE boxes[r][b].slots
    BY <1>1, LookupBoxBoxes DEF TypeOK
  <2>3. DOMAIN boxes'[r] = DOMAIN boxes[r]
    <3>1. boxes' \in [Requests -> Seq([id : Infoboxes, slots : SUBSET Slots])]
      BY <1>1, LookupBoxBoxes DEF TypeOK
    <3>2. DOMAIN boxes'[r] = 1 .. Len(boxes'[r]) /\ DOMAIN boxes[r] = 1 .. Len(boxes[r])
      BY <1>1, <3>1 DEF TypeOK
    <3> QED
      BY <2>2, <3>2
  <2>4. \A p : Entered(r, j, p) => Entered(r, j, p)'
    BY ONLY <1>3, <2>2, <2>3 DEF Entered
  <2> DEFINE same == {b \in DOMAIN boxes[r] : boxes[r][b].id = This(r, k)}
  <2>5. CASE same = {}
    <3>1. place' = place
      BY <2>5 DEF LookupBox
    <3> QED
      BY <2>4, <3>1
  <2>6. CASE same # {}
    <3>1. place'[r][k] = place[r][k] + 1 /\ tpc'[r][k] = "merging"
      BY <1>1, <2>6 DEF LookupBox, TypeOK, ThreadGoto
    <3>2. PICK b \in DOMAIN boxes[r] : boxes[r][b].id = This(r, k)
      BY <2>6
    <3>3. \A p : p = place[r][k] => Entered(r, k, p)'
      BY ONLY <1>3, <2>1, <2>2, <2>3, <3>2 DEF Entered, This
    <3> QED
      BY <2>4, <3>1, <3>3
  <2> QED
    BY <2>5, <2>6
<1>10. Progress(r, j)'
  <2>1. /\ Progress(r, j) /\ Progress(r, k) /\ answer[r][k] \in Seq(Items \cup Infoboxes)
        /\ place[r][k] \in Nat \ {0}
    BY <1>1, <1>6 DEF Sound, TypeOK
  <2>2. CASE j = k
    BY ONLY <1>3, <1>9, <2>1, <2>2 DEF Progress
  <2>3. CASE j # k
    BY ONLY <1>3, <1>4, <1>6, <1>9, <2>1, <2>3 DEF Progress
  <2> QED
    BY <2>2, <2>3
<1>11. Accounted(r, j)'
  BY ONLY <1>3, <1>4, <1>6, k \in Slots, j \in Slots
  DEF Sound, Accounted, Known, Blamed, Threaded, Progress
<1>12. Shown(r, j)'
  BY ONLY <1>3, <1>4, <1>6, k \in Slots, j \in Slots
  DEF Sound, Shown, Closing, Progress
<1> QED
  BY <1>7, <1>8, <1>10, <1>11, <1>12

LEMMA AppendBoxSound ==
    ASSUME IInv, NEW r \in Requests, NEW k \in Slots, AppendBox(r, k) PROVE \A q \in Requests : Sound(q)'
<1>1. TypeOK /\ Sound(r) /\ \A k1 \in Slots : Threaded(r, k1)
  BY DEF IInv, Typed
<1>2. \A q \in Requests \ {r} : Sound(q)'
  <2> SUFFICES ASSUME NEW q \in Requests \ {r} PROVE UNCHANGED Own(q)
    BY OthersStaySound DEF IInv
  <2> QED
    BY <1>1
    DEF TypeOK, AppendBox, ThreadGoto, Own, mainVars, boxVars, threadVars
<1>3. /\ tpc[r][k] = "boxing"
      /\ UNCHANGED <<pc, cursor, asked, closed, results, unresponsive, timings, before, shown, lock, flagged, answer, found, cause>>
      /\ tpc'[r][k] = "merging"
      /\ place'[r][k] = place[r][k] + 1
  BY <1>1
  DEF TypeOK, AppendBox, ThreadGoto, Free, mainVars, boxVars, threadVars
<1>4. ASSUME NEW j \in Slots \ {k}
      PROVE  tpc'[r][j] = tpc[r][j] /\ place'[r][j] = place[r][j]
  BY <1>1 DEF TypeOK, AppendBox, ThreadGoto
<1>5. Closing(r)'
  BY <1>1, <1>3, ClosingStays DEF Sound
<1> SUFFICES ASSUME NEW j \in Slots
    PROVE  (Locked(r, j) /\ Looked(r, j) /\ Progress(r, j) /\ Accounted(r, j) /\ Shown(r, j))'
  BY <1>2, <1>5 DEF Sound
<1>6. Sound(r) /\ TypeOK /\ Threaded(r, j) /\ Threaded(r, k) /\ (k = j \/ j \in Slots \ {k}) /\ j \in Nat \ {0}
  BY <1>1 DEF Slots
<1>7. Locked(r, j)'
  BY ONLY <1>3, <1>4, <1>6, k \in Slots, j \in Slots
  DEF Sound, Locked, Holding, Nobody
<1>8. Looked(r, j)'
  BY ONLY <1>3, <1>4, <1>6, k \in Slots, j \in Slots
  DEF Sound, Locked, Looked, This, Holding, Nobody
<1>9. /\ \A p : Entered(r, j, p) => Entered(r, j, p)'
      /\ \A p : p = place[r][k] => Entered(r, k, p)'
  <2>1. This(r, k) \in Infoboxes /\ This(r, k) \notin Items
    BY <1>1, <1>3, ConstantsAreSane DEF Threaded
  <2> DEFINE B == [id : Infoboxes, slots : SUBSET Slots]
             new == [id |-> This(r, k), slots |-> {k}]
  <2>2. boxes[r] \in Seq(B) /\ boxes'[r] = Append(boxes[r], new)
    BY <1>1 DEF TypeOK, AppendBox
  <2>3. new.id = This(r, k) /\ new.slots = {k}
    OBVIOUS
  <2> HIDE DEF B, new
  <2>4. /\ \A b \in DOMAIN boxes[r] : b \in DOMAIN boxes'[r] /\ boxes'[r][b] = boxes[r][b]
        /\ \E b \in DOMAIN boxes'[r] : boxes'[r][b] = new
    BY ONLY <2>2
  <2>5. \A p : Entered(r, j, p) => Entered(r, j, p)'
    BY ONLY <1>3, <2>4 DEF Entered
  <2>6. \A p : p = place[r][k] => Entered(r, k, p)'
    BY ONLY <1>3, <2>1, <2>3, <2>4 DEF Entered, This
  <2> QED
    BY <2>5, <2>6
<1>10. Progress(r, j)'
  <2>1. /\ Progress(r, j) /\ Progress(r, k) /\ answer[r][k] \in Seq(Items \cup Infoboxes)
        /\ place[r][k] \in Nat \ {0}
    BY <1>1, <1>6 DEF Sound, TypeOK
  <2>2. CASE j = k
    BY ONLY <1>3, <1>9, <2>1, <2>2 DEF Progress
  <2>3. CASE j # k
    BY ONLY <1>3, <1>4, <1>6, <1>9, <2>1, <2>3 DEF Progress
  <2> QED
    BY <2>2, <2>3
<1>11. Accounted(r, j)'
  BY ONLY <1>3, <1>4, <1>6, k \in Slots, j \in Slots
  DEF Sound, Accounted, Known, Blamed, Threaded, Progress
<1>12. Shown(r, j)'
  BY ONLY <1>3, <1>4, <1>6, k \in Slots, j \in Slots
  DEF Sound, Shown, Closing, Progress
<1> QED
  BY <1>7, <1>8, <1>10, <1>11, <1>12

LEMMA MergeRaisesSound ==
    ASSUME IInv, NEW r \in Requests, NEW k \in Slots, MergeRaises(r, k) PROVE \A q \in Requests : Sound(q)'
<1>1. TypeOK /\ Sound(r) /\ \A k1 \in Slots : Threaded(r, k1)
  BY DEF IInv, Typed
<1>2. \A q \in Requests \ {r} : Sound(q)'
  <2> SUFFICES ASSUME NEW q \in Requests \ {r} PROVE UNCHANGED Own(q)
    BY OthersStaySound DEF IInv
  <2> QED
    BY <1>1
    DEF TypeOK, MergeRaises, ThreadGoto, Own, mainVars, boxVars, threadVars
<1>3. /\ tpc[r][k] = "merging"
      /\ UNCHANGED <<pc, cursor, asked, closed, results, boxes, unresponsive, timings, before, shown, lock, flagged, answer, place, found>>
      /\ \/ tpc'[r][k] = "failing" /\ cause'[r][k] = "error"
         \/ tpc'[r][k] = "ended" /\ cause'[r][k] = "invalid" /\ asked[r][k] \in Offline
  BY <1>1
  DEF TypeOK, MergeRaises, ThreadGoto, Free, mainVars, boxVars, threadVars
<1>4. ASSUME NEW j \in Slots \ {k}
      PROVE  tpc'[r][j] = tpc[r][j] /\ cause'[r][j] = cause[r][j]
  BY <1>1 DEF TypeOK, MergeRaises, ThreadGoto
<1>5. Closing(r)'
  BY <1>1, <1>3, ClosingStays DEF Sound
<1> SUFFICES ASSUME NEW j \in Slots
    PROVE  (Locked(r, j) /\ Looked(r, j) /\ Progress(r, j) /\ Accounted(r, j) /\ Shown(r, j))'
  BY <1>2, <1>5 DEF Sound
<1>6. Sound(r) /\ TypeOK /\ Threaded(r, j) /\ Threaded(r, k) /\ (k = j \/ j \in Slots \ {k}) /\ j \in Nat \ {0}
  BY <1>1 DEF Slots
<1>7. Locked(r, j)'
  BY ONLY <1>3, <1>4, <1>6, k \in Slots, j \in Slots
  DEF Sound, Locked, Holding, Nobody
<1>8. Looked(r, j)'
  BY ONLY <1>3, <1>4, <1>6, k \in Slots, j \in Slots
  DEF Sound, Locked, Looked, This, Holding, Nobody
<1>9. \A p : Entered(r, j, p) => Entered(r, j, p)'
  BY ONLY <1>3, <1>4, <1>6, k \in Slots, j \in Slots DEF Entered
<1>10. Progress(r, j)'
  BY ONLY <1>3, <1>4, <1>6, <1>9, k \in Slots, j \in Slots
  DEF Sound, Progress, More, TypeOK
<1>11. Accounted(r, j)'
  BY ONLY <1>3, <1>4, <1>6, k \in Slots, j \in Slots
  DEF Sound, Accounted, Known, Blamed, Threaded, Progress
<1>12. Shown(r, j)'
  BY ONLY <1>3, <1>4, <1>6, k \in Slots, j \in Slots
  DEF Sound, Shown, Closing, Progress
<1> QED
  BY <1>7, <1>8, <1>10, <1>11, <1>12

LEMMA AddTimingSound ==
    ASSUME IInv, NEW r \in Requests, NEW k \in Slots, AddTiming(r, k) PROVE \A q \in Requests : Sound(q)'
<1>1. TypeOK /\ Sound(r) /\ \A k1 \in Slots : Threaded(r, k1)
  BY DEF IInv, Typed
<1>2. \A q \in Requests \ {r} : Sound(q)'
  <2> SUFFICES ASSUME NEW q \in Requests \ {r} PROVE UNCHANGED Own(q)
    BY OthersStaySound DEF IInv
  <2> QED
    BY <1>1
    DEF TypeOK, AddTiming, ThreadGoto, Own, mainVars, boxVars, threadVars,
        CheckOpen
<1>3. /\ (tpc[r][k] = "ignored" \/ (tpc[r][k] = "merging" /\ ~More(r, k))) /\ lock[r] = Nobody
      /\ UNCHANGED <<pc, cursor, asked, closed, results, boxes, unresponsive, timings, before, shown, flagged, answer, place, found, cause>>
      /\ tpc'[r][k] = IF closed[r] THEN "lifting" ELSE "recording"
      /\ lock'[r] = IF closed[r] THEN Nobody ELSE k
  BY <1>1
  DEF TypeOK, AddTiming, ThreadGoto, Free, mainVars, boxVars, threadVars,
      CheckOpen
<1>4. ASSUME NEW j \in Slots \ {k}
      PROVE  tpc'[r][j] = tpc[r][j]
  BY <1>1 DEF TypeOK, AddTiming, ThreadGoto, CheckOpen
<1>5. Closing(r)'
  BY <1>1, <1>3, ClosingStays DEF Sound
<1> SUFFICES ASSUME NEW j \in Slots
    PROVE  (Locked(r, j) /\ Looked(r, j) /\ Progress(r, j) /\ Accounted(r, j) /\ Shown(r, j))'
  BY <1>2, <1>5 DEF Sound
<1>6. Sound(r) /\ TypeOK /\ Threaded(r, j) /\ Threaded(r, k) /\ (k = j \/ j \in Slots \ {k}) /\ j \in Nat \ {0}
  BY <1>1 DEF Slots
<1>7. Locked(r, j)'
  BY ONLY <1>3, <1>4, <1>6, k \in Slots, j \in Slots
  DEF Sound, Locked, Holding, Nobody
<1>8. Looked(r, j)'
  BY ONLY <1>3, <1>4, <1>6, k \in Slots, j \in Slots
  DEF Sound, Locked, Looked, This, Holding, Nobody
<1>9. \A p : Entered(r, j, p) => Entered(r, j, p)'
  BY ONLY <1>3, <1>4, <1>6, k \in Slots, j \in Slots DEF Entered
<1>10. Progress(r, j)'
  BY ONLY <1>3, <1>4, <1>6, <1>9, k \in Slots, j \in Slots
  DEF Sound, Progress, More, TypeOK
<1>11. Accounted(r, j)'
  BY ONLY <1>3, <1>4, <1>6, k \in Slots, j \in Slots
  DEF Sound, Accounted, Known, Blamed, Threaded, Progress
<1>12. Shown(r, j)'
  BY ONLY <1>3, <1>4, <1>6, k \in Slots, j \in Slots
  DEF Sound, Shown, Closing, Progress
<1> QED
  BY <1>7, <1>8, <1>10, <1>11, <1>12

LEMMA AddUnresponsiveSound ==
    ASSUME IInv, NEW r \in Requests, NEW k \in Slots, AddUnresponsive(r, k) PROVE \A q \in Requests : Sound(q)'
<1>1. TypeOK /\ Sound(r) /\ \A k1 \in Slots : Threaded(r, k1)
  BY DEF IInv, Typed
<1>2. \A q \in Requests \ {r} : Sound(q)'
  <2> SUFFICES ASSUME NEW q \in Requests \ {r} PROVE UNCHANGED Own(q)
    BY OthersStaySound DEF IInv
  <2> QED
    BY <1>1
    DEF TypeOK, AddUnresponsive, ThreadGoto, Own, mainVars, boxVars,
        threadVars, CheckOpen
<1>3. /\ tpc[r][k] = "failing" /\ lock[r] = Nobody
      /\ UNCHANGED <<pc, cursor, asked, closed, results, boxes, unresponsive, timings, before, shown, flagged, answer, place, found, cause>>
      /\ tpc'[r][k] = IF closed[r] THEN "striking" ELSE "reporting"
      /\ lock'[r] = IF closed[r] THEN Nobody ELSE k
  BY <1>1
  DEF TypeOK, AddUnresponsive, ThreadGoto, Free, mainVars, boxVars, threadVars,
      CheckOpen
<1>4. ASSUME NEW j \in Slots \ {k}
      PROVE  tpc'[r][j] = tpc[r][j]
  BY <1>1 DEF TypeOK, AddUnresponsive, ThreadGoto, CheckOpen
<1>5. Closing(r)'
  BY <1>1, <1>3, ClosingStays DEF Sound
<1> SUFFICES ASSUME NEW j \in Slots
    PROVE  (Locked(r, j) /\ Looked(r, j) /\ Progress(r, j) /\ Accounted(r, j) /\ Shown(r, j))'
  BY <1>2, <1>5 DEF Sound
<1>6. Sound(r) /\ TypeOK /\ Threaded(r, j) /\ Threaded(r, k) /\ (k = j \/ j \in Slots \ {k}) /\ j \in Nat \ {0}
  BY <1>1 DEF Slots
<1>7. Locked(r, j)'
  BY ONLY <1>3, <1>4, <1>6, k \in Slots, j \in Slots
  DEF Sound, Locked, Holding, Nobody
<1>8. Looked(r, j)'
  BY ONLY <1>3, <1>4, <1>6, k \in Slots, j \in Slots
  DEF Sound, Locked, Looked, This, Holding, Nobody
<1>9. \A p : Entered(r, j, p) => Entered(r, j, p)'
  BY ONLY <1>3, <1>4, <1>6, k \in Slots, j \in Slots DEF Entered
<1>10. Progress(r, j)'
  BY ONLY <1>3, <1>4, <1>6, <1>9, k \in Slots, j \in Slots
  DEF Sound, Progress, More, TypeOK
<1>11. Accounted(r, j)'
  BY ONLY <1>3, <1>4, <1>6, k \in Slots, j \in Slots
  DEF Sound, Accounted, Known, Blamed, Threaded, Progress
<1>12. Shown(r, j)'
  BY ONLY <1>3, <1>4, <1>6, k \in Slots, j \in Slots
  DEF Sound, Shown, Closing, Progress
<1> QED
  BY <1>7, <1>8, <1>10, <1>11, <1>12

LEMMA RecordTimingSound ==
    ASSUME IInv, NEW r \in Requests, NEW k \in Slots, RecordTiming(r, k) PROVE \A q \in Requests : Sound(q)'
<1>1. TypeOK /\ Sound(r) /\ \A k1 \in Slots : Threaded(r, k1)
  BY DEF IInv, Typed
<1>2. \A q \in Requests \ {r} : Sound(q)'
  <2> SUFFICES ASSUME NEW q \in Requests \ {r} PROVE UNCHANGED Own(q)
    BY OthersStaySound DEF IInv
  <2> QED
    BY <1>1
    DEF TypeOK, RecordTiming, ThreadGoto, Own, mainVars, boxVars, threadVars
<1>3. /\ tpc[r][k] = "recording"
      /\ UNCHANGED <<pc, cursor, asked, closed, results, boxes, unresponsive, before, shown, flagged, answer, place, found, cause>>
      /\ tpc'[r][k] = "lifting"
      /\ lock'[r] = Nobody
      /\ timings'[r] = timings[r] \cup {k}
  BY <1>1
  DEF TypeOK, RecordTiming, ThreadGoto, Free, mainVars, boxVars, threadVars
<1>4. ASSUME NEW j \in Slots \ {k}
      PROVE  tpc'[r][j] = tpc[r][j]
  BY <1>1 DEF TypeOK, RecordTiming, ThreadGoto
<1>5. Closing(r)'
  BY <1>1, <1>3, ClosingStays DEF Sound
<1> SUFFICES ASSUME NEW j \in Slots
    PROVE  (Locked(r, j) /\ Looked(r, j) /\ Progress(r, j) /\ Accounted(r, j) /\ Shown(r, j))'
  BY <1>2, <1>5 DEF Sound
<1>6. Sound(r) /\ TypeOK /\ Threaded(r, j) /\ Threaded(r, k) /\ (k = j \/ j \in Slots \ {k}) /\ j \in Nat \ {0}
  BY <1>1 DEF Slots
<1>7. Locked(r, j)'
  BY ONLY <1>3, <1>4, <1>6, k \in Slots, j \in Slots
  DEF Sound, Locked, Holding, Nobody
<1>8. Looked(r, j)'
  BY ONLY <1>3, <1>4, <1>6, k \in Slots, j \in Slots
  DEF Sound, Locked, Looked, This, Holding, Nobody
<1>9. \A p : Entered(r, j, p) => Entered(r, j, p)'
  BY ONLY <1>3, <1>4, <1>6, k \in Slots, j \in Slots DEF Entered
<1>10. Progress(r, j)'
  BY ONLY <1>3, <1>4, <1>6, <1>9, k \in Slots, j \in Slots
  DEF Sound, Progress, More, TypeOK
<1>11. Accounted(r, j)'
  BY ONLY <1>3, <1>4, <1>6, k \in Slots, j \in Slots
  DEF Sound, Accounted, Known, Blamed, Threaded, Progress
<1>12. Shown(r, j)'
  BY ONLY <1>3, <1>4, <1>6, k \in Slots, j \in Slots
  DEF Sound, Shown, Closing, Progress
<1> QED
  BY <1>7, <1>8, <1>10, <1>11, <1>12

LEMMA ReportFailureSound ==
    ASSUME IInv, NEW r \in Requests, NEW k \in Slots, ReportFailure(r, k) PROVE \A q \in Requests : Sound(q)'
<1>1. TypeOK /\ Sound(r) /\ \A k1 \in Slots : Threaded(r, k1)
  BY DEF IInv, Typed
<1>2. \A q \in Requests \ {r} : Sound(q)'
  <2> SUFFICES ASSUME NEW q \in Requests \ {r} PROVE UNCHANGED Own(q)
    BY OthersStaySound DEF IInv
  <2> QED
    BY <1>1
    DEF TypeOK, ReportFailure, ThreadGoto, Own, mainVars, boxVars, threadVars,
        Blame
<1>3. /\ tpc[r][k] = "reporting"
      /\ UNCHANGED <<pc, cursor, asked, closed, results, boxes, timings, before, shown, flagged, answer, place, found, cause>>
      /\ tpc'[r][k] = "striking"
      /\ lock'[r] = Nobody
      /\ \E x : unresponsive'[r] = IF asked[r][k] \in Quiet THEN unresponsive[r] ELSE unresponsive[r] \cup {[engine |-> asked[r][k], error |-> x]}
  BY <1>1
  DEF TypeOK, ReportFailure, ThreadGoto, Free, mainVars, boxVars, threadVars,
      Blame
<1>4. ASSUME NEW j \in Slots \ {k}
      PROVE  tpc'[r][j] = tpc[r][j]
  BY <1>1 DEF TypeOK, ReportFailure, ThreadGoto, Blame
<1>5. Closing(r)'
  BY <1>1, <1>3, ClosingStays DEF Sound
<1> SUFFICES ASSUME NEW j \in Slots
    PROVE  (Locked(r, j) /\ Looked(r, j) /\ Progress(r, j) /\ Accounted(r, j) /\ Shown(r, j))'
  BY <1>2, <1>5 DEF Sound
<1>6. Sound(r) /\ TypeOK /\ Threaded(r, j) /\ Threaded(r, k) /\ (k = j \/ j \in Slots \ {k}) /\ j \in Nat \ {0}
  BY <1>1 DEF Slots
<1>7. Locked(r, j)'
  BY ONLY <1>3, <1>4, <1>6, k \in Slots, j \in Slots
  DEF Sound, Locked, Holding, Nobody
<1>8. Looked(r, j)'
  BY ONLY <1>3, <1>4, <1>6, k \in Slots, j \in Slots
  DEF Sound, Locked, Looked, This, Holding, Nobody
<1>9. \A p : Entered(r, j, p) => Entered(r, j, p)'
  BY ONLY <1>3, <1>4, <1>6, k \in Slots, j \in Slots DEF Entered
<1>10. Progress(r, j)'
  BY ONLY <1>3, <1>4, <1>6, <1>9, k \in Slots, j \in Slots
  DEF Sound, Progress, More, TypeOK
<1>11. Accounted(r, j)'
  <2>1. Known(r, j) => Known(r, j)'
    BY ONLY <1>3, <1>6 DEF Known, Blamed
  <2>2. Known(r, k)'
    <3>1. PICK x : unresponsive'[r] = IF asked[r][k] \in Quiet THEN unresponsive[r]
                         ELSE unresponsive[r] \cup {[engine |-> asked[r][k], error |-> x]}
      BY <1>3
    <3>2. [engine |-> asked[r][k], error |-> x].engine = asked[r][k]
      OBVIOUS
    <3> QED
      BY ONLY <1>3, <3>1, <3>2 DEF Known, Blamed
  <2>3. Accounted(r, j)
    BY <1>6 DEF Sound
  <2> QED
    BY ONLY <1>3, <1>4, <1>6, <2>1, <2>2, <2>3 DEF Accounted
<1>12. Shown(r, j)'
  BY ONLY <1>3, <1>4, <1>6, k \in Slots, j \in Slots
  DEF Sound, Shown, Closing, Progress
<1> QED
  BY <1>7, <1>8, <1>10, <1>11, <1>12

LEMMA SuspendSound ==
    ASSUME IInv, NEW r \in Requests, NEW k \in Slots, Suspend(r, k) PROVE \A q \in Requests : Sound(q)'
<1>1. TypeOK /\ Sound(r) /\ \A k1 \in Slots : Threaded(r, k1)
  BY DEF IInv, Typed
<1>2. \A q \in Requests \ {r} : Sound(q)'
  <2> SUFFICES ASSUME NEW q \in Requests \ {r} PROVE UNCHANGED Own(q)
    BY OthersStaySound DEF IInv
  <2> QED
    BY <1>1 DEF TypeOK, Suspend, ThreadGoto, Own, mainVars, boxVars, threadVars
<1>3. /\ tpc[r][k] = "striking"
      /\ UNCHANGED <<pc, cursor, asked, closed, results, boxes, unresponsive, timings, before, shown, lock, flagged, answer, place, found, cause>>
      /\ tpc'[r][k] = "ended"
  BY <1>1 DEF TypeOK, Suspend, ThreadGoto, Free, mainVars, boxVars, threadVars
<1>4. ASSUME NEW j \in Slots \ {k}
      PROVE  tpc'[r][j] = tpc[r][j]
  BY <1>1 DEF TypeOK, Suspend, ThreadGoto
<1>5. Closing(r)'
  BY <1>1, <1>3, ClosingStays DEF Sound
<1> SUFFICES ASSUME NEW j \in Slots
    PROVE  (Locked(r, j) /\ Looked(r, j) /\ Progress(r, j) /\ Accounted(r, j) /\ Shown(r, j))'
  BY <1>2, <1>5 DEF Sound
<1>6. Sound(r) /\ TypeOK /\ Threaded(r, j) /\ Threaded(r, k) /\ (k = j \/ j \in Slots \ {k}) /\ j \in Nat \ {0}
  BY <1>1 DEF Slots
<1>7. Locked(r, j)'
  BY ONLY <1>3, <1>4, <1>6, k \in Slots, j \in Slots
  DEF Sound, Locked, Holding, Nobody
<1>8. Looked(r, j)'
  BY ONLY <1>3, <1>4, <1>6, k \in Slots, j \in Slots
  DEF Sound, Locked, Looked, This, Holding, Nobody
<1>9. \A p : Entered(r, j, p) => Entered(r, j, p)'
  BY ONLY <1>3, <1>4, <1>6, k \in Slots, j \in Slots DEF Entered
<1>10. Progress(r, j)'
  BY ONLY <1>3, <1>4, <1>6, <1>9, k \in Slots, j \in Slots
  DEF Sound, Progress, More, TypeOK
<1>11. Accounted(r, j)'
  BY ONLY <1>3, <1>4, <1>6, k \in Slots, j \in Slots
  DEF Sound, Accounted, Known, Blamed, Threaded, Progress
<1>12. Shown(r, j)'
  BY ONLY <1>3, <1>4, <1>6, k \in Slots, j \in Slots
  DEF Sound, Shown, Closing, Progress
<1> QED
  BY <1>7, <1>8, <1>10, <1>11, <1>12

LEMMA ResumeSound ==
    ASSUME IInv, NEW r \in Requests, NEW k \in Slots, Resume(r, k) PROVE \A q \in Requests : Sound(q)'
<1>1. TypeOK /\ Sound(r) /\ \A k1 \in Slots : Threaded(r, k1)
  BY DEF IInv, Typed
<1>2. \A q \in Requests \ {r} : Sound(q)'
  <2> SUFFICES ASSUME NEW q \in Requests \ {r} PROVE UNCHANGED Own(q)
    BY OthersStaySound DEF IInv
  <2> QED
    BY <1>1 DEF TypeOK, Resume, ThreadGoto, Own, mainVars, boxVars, threadVars
<1>3. /\ tpc[r][k] = "lifting"
      /\ UNCHANGED <<pc, cursor, asked, closed, results, boxes, unresponsive, timings, before, shown, lock, flagged, answer, place, found, cause>>
      /\ tpc'[r][k] = "ended"
  BY <1>1 DEF TypeOK, Resume, ThreadGoto, Free, mainVars, boxVars, threadVars
<1>4. ASSUME NEW j \in Slots \ {k}
      PROVE  tpc'[r][j] = tpc[r][j]
  BY <1>1 DEF TypeOK, Resume, ThreadGoto
<1>5. Closing(r)'
  BY <1>1, <1>3, ClosingStays DEF Sound
<1> SUFFICES ASSUME NEW j \in Slots
    PROVE  (Locked(r, j) /\ Looked(r, j) /\ Progress(r, j) /\ Accounted(r, j) /\ Shown(r, j))'
  BY <1>2, <1>5 DEF Sound
<1>6. Sound(r) /\ TypeOK /\ Threaded(r, j) /\ Threaded(r, k) /\ (k = j \/ j \in Slots \ {k}) /\ j \in Nat \ {0}
  BY <1>1 DEF Slots
<1>7. Locked(r, j)'
  BY ONLY <1>3, <1>4, <1>6, k \in Slots, j \in Slots
  DEF Sound, Locked, Holding, Nobody
<1>8. Looked(r, j)'
  BY ONLY <1>3, <1>4, <1>6, k \in Slots, j \in Slots
  DEF Sound, Locked, Looked, This, Holding, Nobody
<1>9. \A p : Entered(r, j, p) => Entered(r, j, p)'
  BY ONLY <1>3, <1>4, <1>6, k \in Slots, j \in Slots DEF Entered
<1>10. Progress(r, j)'
  BY ONLY <1>3, <1>4, <1>6, <1>9, k \in Slots, j \in Slots
  DEF Sound, Progress, More, TypeOK
<1>11. Accounted(r, j)'
  BY ONLY <1>3, <1>4, <1>6, k \in Slots, j \in Slots
  DEF Sound, Accounted, Known, Blamed, Threaded, Progress
<1>12. Shown(r, j)'
  BY ONLY <1>3, <1>4, <1>6, k \in Slots, j \in Slots
  DEF Sound, Shown, Closing, Progress
<1> QED
  BY <1>7, <1>8, <1>10, <1>11, <1>12

LEMMA BeginSound ==
    ASSUME IInv, NEW r \in Requests, Begin(r) PROVE \A q \in Requests : Sound(q)'
<1>1. TypeOK /\ Sound(r) /\ \A k1 \in Slots : Threaded(r, k1)
  BY DEF IInv, Typed
<1>2. \A q \in Requests \ {r} : Sound(q)'
  <2> SUFFICES ASSUME NEW q \in Requests \ {r} PROVE UNCHANGED Own(q)
    BY OthersStaySound DEF IInv
  <2> QED
    BY <1>1 DEF TypeOK, Begin, Goto, Own, mainVars, boxVars, threadVars
<1>5. Closing(r)'
  BY <1>1
  DEF TypeOK, Begin, Goto, Free, Sound, Closing, Late, mainVars,
      boxVars, threadVars
<1> SUFFICES ASSUME NEW j \in Slots
    PROVE  (Locked(r, j) /\ Looked(r, j) /\ Progress(r, j) /\ Accounted(r, j) /\ Shown(r, j))'
  BY <1>2, <1>5 DEF Sound
<1>6. Sound(r) /\ TypeOK /\ Threaded(r, j) /\ Slotted(r) /\ j \in Nat \ {0}
  BY <1>1 DEF Slots, IInv, Typed
<1>7. Locked(r, j)'
  BY <1>6
  DEF TypeOK, Begin, Goto, Sound, Locked, Holding, Nobody, Progress, mainVars,
      boxVars, threadVars
<1>8. Looked(r, j)'
  BY <1>6
  DEF TypeOK, Begin, Goto, Sound, Looked, This, mainVars, boxVars, threadVars
<1>9. \A p : Entered(r, j, p) => Entered(r, j, p)'
  BY DEF Entered, Begin, mainVars, boxVars, threadVars
<1>10. Progress(r, j)'
  BY <1>6, <1>9
  DEF TypeOK, Begin, Goto, Sound, Progress, mainVars, boxVars, threadVars
<1>11. Accounted(r, j)'
  BY <1>6
  DEF TypeOK, Begin, Goto, Sound, Accounted, Known, Blamed, Closing, Progress,
      Slotted, mainVars, boxVars, threadVars
<1>12. Shown(r, j)'
  BY <1>6
  DEF TypeOK, Begin, Goto, Sound, Shown, Closing, Progress, mainVars, boxVars,
      threadVars
<1> QED
  BY <1>7, <1>8, <1>10, <1>11, <1>12

LEMMA BeginElsewhereSound ==
    ASSUME IInv, NEW r \in Requests, BeginElsewhere(r) PROVE \A q \in Requests : Sound(q)'
<1>1. TypeOK /\ Sound(r) /\ \A k1 \in Slots : Threaded(r, k1)
  BY DEF IInv, Typed
<1>2. \A q \in Requests \ {r} : Sound(q)'
  <2> SUFFICES ASSUME NEW q \in Requests \ {r} PROVE UNCHANGED Own(q)
    BY OthersStaySound DEF IInv
  <2> QED
    BY <1>1
    DEF TypeOK, BeginElsewhere, Goto, Own, mainVars, boxVars, threadVars
<1>5. Closing(r)'
  BY <1>1
  DEF TypeOK, BeginElsewhere, Goto, Free, Sound, Closing, Late,
      mainVars, boxVars, threadVars
<1> SUFFICES ASSUME NEW j \in Slots
    PROVE  (Locked(r, j) /\ Looked(r, j) /\ Progress(r, j) /\ Accounted(r, j) /\ Shown(r, j))'
  BY <1>2, <1>5 DEF Sound
<1>6. Sound(r) /\ TypeOK /\ Threaded(r, j) /\ Slotted(r) /\ j \in Nat \ {0}
  BY <1>1 DEF Slots, IInv, Typed
<1>7. Locked(r, j)'
  BY <1>6
  DEF TypeOK, BeginElsewhere, Goto, Sound, Locked, Holding, Nobody, Progress,
      mainVars, boxVars, threadVars
<1>8. Looked(r, j)'
  BY <1>6
  DEF TypeOK, BeginElsewhere, Goto, Sound, Looked, This, mainVars, boxVars,
      threadVars
<1>9. \A p : Entered(r, j, p) => Entered(r, j, p)'
  BY DEF Entered, BeginElsewhere, mainVars, boxVars, threadVars
<1>10. Progress(r, j)'
  BY <1>6, <1>9
  DEF TypeOK, BeginElsewhere, Goto, Sound, Progress, mainVars, boxVars,
      threadVars
<1>11. Accounted(r, j)'
  BY <1>6
  DEF TypeOK, BeginElsewhere, Goto, Sound, Accounted, Known, Blamed, Closing,
      Progress, Slotted, mainVars, boxVars, threadVars
<1>12. Shown(r, j)'
  BY <1>6
  DEF TypeOK, BeginElsewhere, Goto, Sound, Shown, Closing, Progress, mainVars,
      boxVars, threadVars
<1> QED
  BY <1>7, <1>8, <1>10, <1>11, <1>12

LEMMA CollectSound ==
    ASSUME IInv, NEW r \in Requests, Collect(r) PROVE \A q \in Requests : Sound(q)'
<1>1. TypeOK /\ Sound(r) /\ \A k1 \in Slots : Threaded(r, k1)
  BY DEF IInv, Typed
<1>2. \A q \in Requests \ {r} : Sound(q)'
  <2> SUFFICES ASSUME NEW q \in Requests \ {r} PROVE UNCHANGED Own(q)
    BY OthersStaySound DEF IInv
  <2> QED
    BY <1>1
    DEF TypeOK, Collect, Goto, Own, mainVars, boxVars, threadVars, Blame
<1>5. Closing(r)'
  BY <1>1
  DEF TypeOK, Collect, Goto, Free, Sound, Closing, Late, mainVars,
      boxVars, threadVars, Blame
<1> SUFFICES ASSUME NEW j \in Slots
    PROVE  (Locked(r, j) /\ Looked(r, j) /\ Progress(r, j) /\ Accounted(r, j) /\ Shown(r, j))'
  BY <1>2, <1>5 DEF Sound
<1>6. Sound(r) /\ TypeOK /\ Threaded(r, j) /\ Slotted(r) /\ j \in Nat \ {0}
  BY <1>1 DEF Slots, IInv, Typed
<1>7. Locked(r, j)'
  BY <1>6
  DEF TypeOK, Collect, Goto, Sound, Locked, Holding, Nobody, Progress,
      mainVars, boxVars, threadVars, Blame
<1>8. Looked(r, j)'
  BY <1>6
  DEF TypeOK, Collect, Goto, Sound, Looked, This, mainVars, boxVars,
      threadVars, Blame
<1>9. \A p : Entered(r, j, p) => Entered(r, j, p)'
  BY DEF Entered, Collect, mainVars, boxVars, threadVars
<1>10. Progress(r, j)'
  BY <1>6, <1>9
  DEF TypeOK, Collect, Goto, Sound, Progress, mainVars, boxVars, threadVars,
      Blame
<1>11. Accounted(r, j)'
  <2>1. /\ pc[r] = "collect" /\ UNCHANGED <<pc, tpc, flagged, closed>>
        /\ ~closed[r] /\ tpc[r][j] = "none" /\ ~flagged[r][j]
    BY <1>6 DEF Collect, boxVars, threadVars, Sound, Progress, Closing, TypeOK
  <2> QED
    BY ONLY <2>1 DEF Accounted
<1>12. Shown(r, j)'
  BY <1>6
  DEF TypeOK, Collect, Goto, Sound, Shown, Closing, Progress, mainVars,
      boxVars, threadVars, Blame
<1> QED
  BY <1>7, <1>8, <1>10, <1>11, <1>12

LEMMA CollectedSound ==
    ASSUME IInv, NEW r \in Requests, Collected(r) PROVE \A q \in Requests : Sound(q)'
<1>1. TypeOK /\ Sound(r) /\ \A k1 \in Slots : Threaded(r, k1)
  BY DEF IInv, Typed
<1>2. \A q \in Requests \ {r} : Sound(q)'
  <2> SUFFICES ASSUME NEW q \in Requests \ {r} PROVE UNCHANGED Own(q)
    BY OthersStaySound DEF IInv
  <2> QED
    BY <1>1 DEF TypeOK, Collected, Goto, Own, mainVars, boxVars, threadVars
<1>5. Closing(r)'
  BY <1>1
  DEF TypeOK, Collected, Goto, Free, Sound, Closing, Late, mainVars,
      boxVars, threadVars
<1> SUFFICES ASSUME NEW j \in Slots
    PROVE  (Locked(r, j) /\ Looked(r, j) /\ Progress(r, j) /\ Accounted(r, j) /\ Shown(r, j))'
  BY <1>2, <1>5 DEF Sound
<1>6. Sound(r) /\ TypeOK /\ Threaded(r, j) /\ Slotted(r) /\ j \in Nat \ {0}
  BY <1>1 DEF Slots, IInv, Typed
<1>7. Locked(r, j)'
  BY <1>6
  DEF TypeOK, Collected, Goto, Sound, Locked, Holding, Nobody, Progress,
      mainVars, boxVars, threadVars
<1>8. Looked(r, j)'
  BY <1>6
  DEF TypeOK, Collected, Goto, Sound, Looked, This, mainVars, boxVars,
      threadVars
<1>9. \A p : Entered(r, j, p) => Entered(r, j, p)'
  BY DEF Entered, Collected, mainVars, boxVars, threadVars
<1>10. Progress(r, j)'
  BY <1>6, <1>9
  DEF TypeOK, Collected, Goto, Sound, Progress, mainVars, boxVars, threadVars
<1>11. Accounted(r, j)'
  BY <1>6
  DEF TypeOK, Collected, Goto, Sound, Accounted, Known, Blamed, Closing,
      Progress, Slotted, mainVars, boxVars, threadVars
<1>12. Shown(r, j)'
  BY <1>6
  DEF TypeOK, Collected, Goto, Sound, Shown, Closing, Progress, mainVars,
      boxVars, threadVars
<1> QED
  BY <1>7, <1>8, <1>10, <1>11, <1>12

LEMMA JoinEndedSound ==
    ASSUME IInv, NEW r \in Requests, JoinEnded(r) PROVE \A q \in Requests : Sound(q)'
<1>1. TypeOK /\ Sound(r) /\ \A k1 \in Slots : Threaded(r, k1)
  BY DEF IInv, Typed
<1>2. \A q \in Requests \ {r} : Sound(q)'
  <2> SUFFICES ASSUME NEW q \in Requests \ {r} PROVE UNCHANGED Own(q)
    BY OthersStaySound DEF IInv
  <2> QED
    BY <1>1 DEF TypeOK, JoinEnded, Goto, Own, mainVars, boxVars, threadVars
<1>5. Closing(r)'
  BY <1>1
  DEF TypeOK, JoinEnded, Goto, Free, Sound, Closing, Late, mainVars,
      boxVars, threadVars
<1> SUFFICES ASSUME NEW j \in Slots
    PROVE  (Locked(r, j) /\ Looked(r, j) /\ Progress(r, j) /\ Accounted(r, j) /\ Shown(r, j))'
  BY <1>2, <1>5 DEF Sound
<1>6. Sound(r) /\ TypeOK /\ Threaded(r, j) /\ Slotted(r) /\ j \in Nat \ {0}
  BY <1>1 DEF Slots, IInv, Typed
<1>7. Locked(r, j)'
  BY <1>6
  DEF TypeOK, JoinEnded, Goto, Sound, Locked, Holding, Nobody, Progress,
      mainVars, boxVars, threadVars
<1>8. Looked(r, j)'
  BY <1>6
  DEF TypeOK, JoinEnded, Goto, Sound, Looked, This, mainVars, boxVars,
      threadVars
<1>9. \A p : Entered(r, j, p) => Entered(r, j, p)'
  BY DEF Entered, JoinEnded, mainVars, boxVars, threadVars
<1>10. Progress(r, j)'
  BY <1>6, <1>9
  DEF TypeOK, JoinEnded, Goto, Sound, Progress, mainVars, boxVars, threadVars
<1>11. Accounted(r, j)'
  BY <1>6
  DEF TypeOK, JoinEnded, Goto, Sound, Accounted, Known, Blamed, Closing,
      Progress, Slotted, mainVars, boxVars, threadVars
<1>12. Shown(r, j)'
  BY <1>6
  DEF TypeOK, JoinEnded, Goto, Sound, Shown, Closing, Progress, mainVars,
      boxVars, threadVars
<1> QED
  BY <1>7, <1>8, <1>10, <1>11, <1>12

LEMMA JoinGivesUpSound ==
    ASSUME IInv, NEW r \in Requests, JoinGivesUp(r) PROVE \A q \in Requests : Sound(q)'
<1>1. TypeOK /\ Sound(r) /\ \A k1 \in Slots : Threaded(r, k1)
  BY DEF IInv, Typed
<1>2. \A q \in Requests \ {r} : Sound(q)'
  <2> SUFFICES ASSUME NEW q \in Requests \ {r} PROVE UNCHANGED Own(q)
    BY OthersStaySound DEF IInv
  <2> QED
    BY <1>1
    DEF TypeOK, JoinGivesUp, Goto, Own, mainVars, boxVars, threadVars, Blame
<1>5. Closing(r)'
  BY <1>1
  DEF TypeOK, JoinGivesUp, Goto, Free, Sound, Closing, Late, mainVars,
      boxVars, threadVars, Blame
<1> SUFFICES ASSUME NEW j \in Slots
    PROVE  (Locked(r, j) /\ Looked(r, j) /\ Progress(r, j) /\ Accounted(r, j) /\ Shown(r, j))'
  BY <1>2, <1>5 DEF Sound
<1>6. Sound(r) /\ TypeOK /\ Threaded(r, j) /\ Slotted(r) /\ j \in Nat \ {0}
  BY <1>1 DEF Slots, IInv, Typed
<1>7. Locked(r, j)'
  BY <1>6
  DEF TypeOK, JoinGivesUp, Goto, Sound, Locked, Holding, Nobody, Progress,
      mainVars, boxVars, threadVars, Blame
<1>8. Looked(r, j)'
  BY <1>6
  DEF TypeOK, JoinGivesUp, Goto, Sound, Looked, This, mainVars, boxVars,
      threadVars, Blame
<1>9. \A p : Entered(r, j, p) => Entered(r, j, p)'
  BY DEF Entered, JoinGivesUp, mainVars, boxVars, threadVars
<1>10. Progress(r, j)'
  BY <1>6, <1>9
  DEF TypeOK, JoinGivesUp, Goto, Sound, Progress, mainVars, boxVars,
      threadVars, Blame
<1>11. Accounted(r, j)'
  <2>1. /\ pc[r] = "join" /\ UNCHANGED <<pc, tpc, closed, asked, timings, cause>>
        /\ cursor[r] \in Nat \ {0} /\ cursor'[r] = cursor[r] + 1
        /\ flagged'[r][j] <=> flagged[r][j] \/ j = cursor[r]
    BY <1>1, <1>6 DEF JoinGivesUp, TypeOK, Slots
  <2>2. unresponsive'[r] = IF asked[r][cursor[r]] \in Quiet THEN unresponsive[r]
            ELSE unresponsive[r] \cup {[engine |-> asked[r][cursor[r]], error |-> "timeout"]}
    BY <1>1 DEF JoinGivesUp, TypeOK, Blame
  <2>3. Known(r, j) => Known(r, j)'
    BY ONLY <2>1, <2>2 DEF Known, Blamed
  <2>4. [engine |-> asked[r][cursor[r]], error |-> "timeout"].engine = asked[r][cursor[r]]
    OBVIOUS
  <2>5. j = cursor[r] => Known(r, j)'
    BY ONLY <2>1, <2>2, <2>4 DEF Known, Blamed
  <2>6. Accounted(r, j)
    BY <1>6 DEF Sound
  <2> QED
    BY ONLY <1>6, <2>1, <2>3, <2>5, <2>6 DEF Accounted
<1>12. Shown(r, j)'
  BY <1>6
  DEF TypeOK, JoinGivesUp, Goto, Sound, Shown, Closing, Progress, mainVars,
      boxVars, threadVars, Blame
<1> QED
  BY <1>7, <1>8, <1>10, <1>11, <1>12

LEMMA CloseSound ==
    ASSUME IInv, NEW r \in Requests, Close(r) PROVE \A q \in Requests : Sound(q)'
<1>1. TypeOK /\ Sound(r) /\ \A k1 \in Slots : Threaded(r, k1)
  BY DEF IInv, Typed
<1>2. \A q \in Requests \ {r} : Sound(q)'
  <2> SUFFICES ASSUME NEW q \in Requests \ {r} PROVE UNCHANGED Own(q)
    BY OthersStaySound DEF IInv
  <2> QED
    BY <1>1 DEF TypeOK, Close, Goto, Own, mainVars, boxVars, threadVars
<1>5. Closing(r)'
  BY <1>1
  DEF TypeOK, Close, Goto, Free, Sound, Closing, Late, mainVars,
      boxVars, threadVars
<1> SUFFICES ASSUME NEW j \in Slots
    PROVE  (Locked(r, j) /\ Looked(r, j) /\ Progress(r, j) /\ Accounted(r, j) /\ Shown(r, j))'
  BY <1>2, <1>5 DEF Sound
<1>6. Sound(r) /\ TypeOK /\ Threaded(r, j) /\ Slotted(r) /\ j \in Nat \ {0}
  BY <1>1 DEF Slots, IInv, Typed
<1>7. Locked(r, j)'
  BY <1>6
  DEF TypeOK, Close, Goto, Sound, Locked, Holding, Nobody, Progress, mainVars,
      boxVars, threadVars
<1>8. Looked(r, j)'
  BY <1>6
  DEF TypeOK, Close, Goto, Sound, Looked, This, mainVars, boxVars, threadVars
<1>9. \A p : Entered(r, j, p) => Entered(r, j, p)'
  BY DEF Entered, Close, mainVars, boxVars, threadVars
<1>10. Progress(r, j)'
  BY <1>6, <1>9
  DEF TypeOK, Close, Goto, Sound, Progress, mainVars, boxVars, threadVars
<1>11. Accounted(r, j)'
  BY <1>6
  DEF TypeOK, Close, Goto, Sound, Accounted, Known, Blamed, Closing, Progress,
      Slotted, mainVars, boxVars, threadVars
<1>12. Shown(r, j)'
  BY <1>6
  DEF TypeOK, Close, Goto, Sound, Shown, Closing, Progress, mainVars, boxVars,
      threadVars
<1> QED
  BY <1>7, <1>8, <1>10, <1>11, <1>12

LEMMA ScoreSound ==
    ASSUME IInv, NEW r \in Requests, Score(r) PROVE \A q \in Requests : Sound(q)'
<1>1. TypeOK /\ Sound(r) /\ \A k1 \in Slots : Threaded(r, k1)
  BY DEF IInv, Typed
<1>2. \A q \in Requests \ {r} : Sound(q)'
  <2> SUFFICES ASSUME NEW q \in Requests \ {r} PROVE UNCHANGED Own(q)
    BY OthersStaySound DEF IInv
  <2> QED
    BY <1>1 DEF TypeOK, Score, Goto, Own, mainVars, boxVars, threadVars
<1>5. Closing(r)'
  BY <1>1
  DEF TypeOK, Score, Goto, Free, Sound, Closing, Late, Names, mainVars,
      boxVars, threadVars
<1> SUFFICES ASSUME NEW j \in Slots
    PROVE  (Locked(r, j) /\ Looked(r, j) /\ Progress(r, j) /\ Accounted(r, j) /\ Shown(r, j))'
  BY <1>2, <1>5 DEF Sound
<1>6. Sound(r) /\ TypeOK /\ Threaded(r, j) /\ Slotted(r) /\ j \in Nat \ {0}
  BY <1>1 DEF Slots, IInv, Typed
<1>7. Locked(r, j)'
  BY <1>6
  DEF TypeOK, Score, Goto, Sound, Locked, Holding, Nobody, Progress, mainVars,
      boxVars, threadVars
<1>8. Looked(r, j)'
  BY <1>6
  DEF TypeOK, Score, Goto, Sound, Looked, This, mainVars, boxVars, threadVars
<1>9. \A p : Entered(r, j, p) => Entered(r, j, p)'
  BY DEF Entered, Score, mainVars, boxVars, threadVars
<1>10. Progress(r, j)'
  BY <1>6, <1>9
  DEF TypeOK, Score, Goto, Sound, Progress, mainVars, boxVars, threadVars
<1>11. Accounted(r, j)'
  BY <1>6
  DEF TypeOK, Score, Goto, Sound, Accounted, Known, Blamed, Closing, Progress,
      Slotted, mainVars, boxVars, threadVars
<1>12. Shown(r, j)'
  BY <1>6
  DEF TypeOK, Score, Goto, Sound, Shown, Closing, Progress, mainVars, boxVars,
      threadVars
<1> QED
  BY <1>7, <1>8, <1>10, <1>11, <1>12

LEMMA ShowSound ==
    ASSUME IInv, NEW r \in Requests, Show(r) PROVE \A q \in Requests : Sound(q)'
<1>1. TypeOK /\ Sound(r) /\ \A k1 \in Slots : Threaded(r, k1)
  BY DEF IInv, Typed
<1>2. \A q \in Requests \ {r} : Sound(q)'
  <2> SUFFICES ASSUME NEW q \in Requests \ {r} PROVE UNCHANGED Own(q)
    BY OthersStaySound DEF IInv
  <2> QED
    BY <1>1 DEF TypeOK, Show, Goto, Own, mainVars, boxVars, threadVars
<1>5. Closing(r)'
  BY <1>1
  DEF TypeOK, Show, Goto, Free, Sound, Closing, Late, mainVars,
      boxVars, threadVars
<1> SUFFICES ASSUME NEW j \in Slots
    PROVE  (Locked(r, j) /\ Looked(r, j) /\ Progress(r, j) /\ Accounted(r, j) /\ Shown(r, j))'
  BY <1>2, <1>5 DEF Sound
<1>6. Sound(r) /\ TypeOK /\ Threaded(r, j) /\ Slotted(r) /\ j \in Nat \ {0}
  BY <1>1 DEF Slots, IInv, Typed
<1>7. Locked(r, j)'
  BY <1>6
  DEF TypeOK, Show, Goto, Sound, Locked, Holding, Nobody, Progress, mainVars,
      boxVars, threadVars
<1>8. Looked(r, j)'
  BY <1>6
  DEF TypeOK, Show, Goto, Sound, Looked, This, mainVars, boxVars, threadVars
<1>9. \A p : Entered(r, j, p) => Entered(r, j, p)'
  BY DEF Entered, Show, mainVars, boxVars, threadVars
<1>10. Progress(r, j)'
  BY <1>6, <1>9
  DEF TypeOK, Show, Goto, Sound, Progress, mainVars, boxVars, threadVars
<1>11. Accounted(r, j)'
  BY <1>6
  DEF TypeOK, Show, Goto, Sound, Accounted, Known, Blamed, Closing, Progress,
      Slotted, mainVars, boxVars, threadVars
<1>12. Shown(r, j)'
  <2>1. /\ lock[r] = Nobody /\ shown'[r] = Present(r) /\ UNCHANGED <<tpc, timings, answer>>
    BY <1>1 DEF Show, Free, TypeOK, threadVars
  <2>2. Locked(r, j) /\ Progress(r, j)
    BY <1>6 DEF Sound
  <2>3. tpc[r][j] \notin Holding
    BY ONLY <1>6, <2>1, <2>2 DEF Locked, Nobody
  <2>4. ASSUME j \in timings[r], NEW p \in DOMAIN answer[r][j], answer[r][j][p] \in Items
        PROVE  answer[r][j][p] \in Present(r)
    <3>1. Entered(r, j, p)
      BY <2>2, <2>4 DEF Progress
    <3> QED
      BY <2>4, <3>1 DEF Entered, Present
  <2> QED
    BY ONLY <2>1, <2>3, <2>4 DEF Shown, Holding
<1> QED
  BY <1>7, <1>8, <1>10, <1>11, <1>12

LEMMA IInvStep == IInv /\ [Next]_vars => IInv'
<1> SUFFICES ASSUME IInv, [Next]_vars PROVE IInv'
  OBVIOUS
<1>1. Typed'
  BY TypedStep DEF IInv
<1>2. CASE \E r \in Requests : Flask(r)
  BY <1>1, <1>2, BeginSound, BeginElsewhereSound, CollectSound, CollectedSound,
     JoinEndedSound, JoinGivesUpSound, CloseSound, ScoreSound, ShowSound
  DEF Flask, IInv
<1>3. CASE \E r \in Requests, k \in Slots : Thread(r, k)
  BY <1>1, <1>3, AnswerListSound, AnswerNoneSound, AnswerFailsSound,
     AnswerInvalidSound, ReadClosedSound, LookupSound, LookupBoxSound,
     AppendBoxSound, MergeRaisesSound, AddTimingSound, AddUnresponsiveSound,
     StoreSound, RecordTimingSound, ReportFailureSound, SuspendSound,
     ResumeSound
  DEF Thread, UnderLock, IInv
<1>4. CASE Tick \/ Finished \/ UNCHANGED vars
  <2> SUFFICES ASSUME NEW q \in Requests PROVE UNCHANGED Own(q)
    BY <1>1, OthersStaySound DEF IInv
  <2> QED
    BY <1>4 DEF Tick, Finished, vars, Own, mainVars, boxVars, threadVars
<1> QED
  BY <1>2, <1>3, <1>4 DEF Next

\* The inductive invariant: types, who holds the lock, how far each thread has merged,
\* what the report knows of each engine, what is shown.
THEOREM Soundness == Spec => []IInv
<1>1. Init => IInv
  BY InitTyped, InitSound DEF IInv
<1> QED
  BY <1>1, IInvStep, PTL DEF Spec

\* Every variable keeps its type, the threads their slots.
THEOREM TypeCorrect == Spec => []TypeOK
<1>1. IInv => TypeOK
  BY DEF IInv, Typed
<1> QED
  BY <1>1, Soundness, PTL

\* When `close' has been called every asked engine has delivered, is reported, or was not
\* asked over the network, whichever of the two threads came first: only the ValueError
\* of an offline engine leaves no trace.
THEOREM Accounting == Spec => []EveryEngineIsAccountedFor
<1>1. IInv => EveryEngineIsAccountedFor
  <2> SUFFICES ASSUME IInv, NEW r \in Requests, pc[r] \in {"score", "timings", "served"},
                      NEW k \in DOMAIN asked[r]
      PROVE  \/ k \in timings[r]
             \/ asked[r][k] \in Quiet \/ Blamed(r, asked[r][k])
             \/ cause[r][k] = "none" /\ answer[r][k] = <<>>
             \/ cause[r][k] = "invalid" /\ asked[r][k] \in Offline
    BY DEF EveryEngineIsAccountedFor
  <2>1. k \in Slots
    <3>1. asked[r] \in Seq(Engines) /\ Len(asked[r]) <= MaxEngines /\ MaxEngines \in Nat
      BY ConstantsAreSane DEF IInv, Typed, TypeOK, Slotted
    <3> QED
      BY ONLY <3>1, k \in DOMAIN asked[r] DEF Slots
  <2>2. Accounted(r, k) /\ Progress(r, k) /\ Closing(r)
    BY <2>1 DEF IInv, Sound
  <2> QED
    BY <2>2 DEF Accounted, Progress, Closing, Known
<1> QED
  BY <1>1, Soundness, PTL

\* What an engine delivered is in the container, at the positions it gave, and its
\* items are on the page.
THEOREM Keeping == Spec => []DeliveredIsKept
<1>1. IInv => DeliveredIsKept
  <2> SUFFICES ASSUME IInv, NEW r \in Requests, NEW k \in timings[r], NEW p \in DOMAIN answer[r][k]
      PROVE  LET i == answer[r][k][p] IN
             IF i \in Items
             THEN <<k, p>> \in results[r][i] /\ (pc[r] = "served" => i \in shown[r])
             ELSE \E b \in DOMAIN boxes[r] : boxes[r][b].id = i /\ k \in boxes[r][b].slots
    BY DEF DeliveredIsKept
  <2>1. k \in Slots
    BY DEF IInv, Typed, TypeOK
  <2>2. Entered(r, k, p)
    BY <2>1 DEF IInv, Sound, Progress
  <2>3. answer[r][k][p] \in Items /\ pc[r] = "served" => answer[r][k][p] \in shown[r]
    BY <2>1 DEF IInv, Sound, Shown
  <2> QED
    BY <2>2, <2>3 DEF Entered
<1> QED
  BY <1>1, Soundness, PTL

\* A search that ends in an error met an entry, into a new item or a known one, of an
\* engine it had given up.
THEOREM Breaking == Spec => []OnlyALateResultBreaksTheSearch
<1>1. IInv => OnlyALateResultBreaksTheSearch
  <2> SUFFICES ASSUME IInv, NEW r \in Requests, pc[r] = "failed"
               PROVE  \E i \in Items : \E entry \in results[r][i] \ before[r][i] :
                          flagged[r][entry[1]]
    BY DEF OnlyALateResultBreaksTheSearch
  <2>1. Closing(r)
    BY DEF IInv, Sound
  <2>2. PICK i \in Items : results[r][i] # before[r][i]
    BY <2>1 DEF Closing
  <2>3. /\ before[r][i] \subseteq results[r][i]
        /\ \A entry \in results[r][i] \ before[r][i] : flagged[r][entry[1]]
    BY <2>1 DEF Closing, Late
  <2> QED
    BY <2>2, <2>3
<1> QED
  BY <1>1, Soundness, PTL

\* The report does not change under the page: the page waited for the lock, and who
\* did not hold it then finds the container closed.
THEOREM Freezing == Spec => ReportIsFrozen
<1>1. ASSUME IInv, [Next]_vars, NEW r \in Requests, pc[r] = "served"
      PROVE  UNCHANGED <<unresponsive[r], timings[r]>>
  <2>1. \A k \in Slots : tpc[r][k] \notin {"recording", "reporting"}
    BY <1>1 DEF IInv, Sound, Shown
  <2>2. TypeOK
    BY <1>1 DEF IInv, Typed
  <2>3. ASSUME NEW q \in Requests, Flask(q) PROVE UNCHANGED <<unresponsive[r], timings[r]>>
    BY <1>1, <2>2, <2>3
    DEF Flask, TypeOK, Begin, BeginElsewhere, Collect, Collected, JoinEnded,
       JoinGivesUp, Close, Score, Show, Blame, boxVars
  <2>4. ASSUME NEW q \in Requests, NEW k \in Slots, Thread(q, k)
        PROVE  UNCHANGED <<unresponsive[r], timings[r]>>
    <3>1. CASE RecordTiming(q, k)
      BY <2>1, <2>2, <3>1 DEF RecordTiming, TypeOK
    <3>2. CASE ReportFailure(q, k)
      BY <2>1, <2>2, <3>2 DEF ReportFailure, TypeOK, Blame
    <3>3. CASE ~RecordTiming(q, k) /\ ~ReportFailure(q, k)
      <4>1. UNCHANGED <<unresponsive, timings>>
        BY <2>4, <3>3
        DEF Thread, UnderLock, AnswerList, AnswerNone, AnswerFails,
            AnswerInvalid,
           ReadClosed, Lookup, LookupBox, AppendBox, MergeRaises, AddTiming, AddUnresponsive,
           CheckOpen, ReadFlag, Store, Suspend, Resume, boxVars
      <4> QED
        BY <4>1
    <3> QED
      BY <3>1, <3>2, <3>3
  <2> QED
    BY <1>1, <2>3, <2>4 DEF Next, Tick, Finished, vars, boxVars
<1>2. IInv /\ [Next]_vars =>
        [\A r \in Requests : pc[r] = "served" => UNCHANGED <<unresponsive[r], timings[r]>>]_vars
  BY <1>1
<1> QED
  BY <1>2, Soundness, PTL DEF Spec, ReportIsFrozen

-----------------------------------------------------------------------------
(* What an engine thread and the Flask thread of a request may touch. *)

\* A thread changes its own slot and what the slots of its request share.
LEMMA ThreadIsOwn ==
    ASSUME TypeOK, NEW r \in Requests, NEW k \in Slots, Thread(r, k)
    PROVE  /\ UNCHANGED <<mainVars, closed, before, shown, flagged>>
           /\ \A j \in Slots \ {k} :
                 /\ tpc'[r][j] = tpc[r][j] /\ cause'[r][j] = cause[r][j]
                 /\ answer'[r][j] = answer[r][j]
           /\ \A q \in Requests \ {r} : UNCHANGED Own(q)
<1> USE DEF TypeOK, ThreadGoto, Own, mainVars, boxVars, threadVars
<1>1. CASE AnswerList(r, k)
  BY <1>1 DEF AnswerList, Comes, ReadFlag
<1>2. CASE AnswerNone(r, k)
  BY <1>2 DEF AnswerNone, Comes, ReadFlag
<1>3. CASE AnswerFails(r, k)
  BY <1>3 DEF AnswerFails, Comes
<1>4. CASE AnswerInvalid(r, k)
  BY <1>4 DEF AnswerInvalid, Comes
<1>5. CASE ReadClosed(r, k)
  BY <1>5 DEF ReadClosed
<1>6. CASE Lookup(r, k)
  BY <1>6 DEF Lookup
<1>7. CASE Store(r, k)
  BY <1>7 DEF Store
<1>8. CASE LookupBox(r, k)
  BY <1>8 DEF LookupBox
<1>9. CASE AppendBox(r, k)
  BY <1>9 DEF AppendBox
<1>10. CASE MergeRaises(r, k)
  BY <1>10 DEF MergeRaises
<1>11. CASE AddTiming(r, k)
  BY <1>11 DEF AddTiming, CheckOpen
<1>12. CASE AddUnresponsive(r, k)
  BY <1>12 DEF AddUnresponsive, CheckOpen
<1>13. CASE RecordTiming(r, k)
  BY <1>13 DEF RecordTiming
<1>14. CASE ReportFailure(r, k)
  BY <1>14 DEF ReportFailure, Blame
<1>15. CASE Suspend(r, k)
  BY <1>15 DEF Suspend
<1>16. CASE Resume(r, k)
  BY <1>16 DEF Resume
<1> QED
  BY <1>1, <1>2, <1>3, <1>4, <1>5, <1>6, <1>7, <1>8, <1>9, <1>10, <1>11, <1>12,
     <1>13, <1>14, <1>15, <1>16
  DEF Thread, UnderLock

LEMMA FlaskIsOwn ==
    ASSUME TypeOK, NEW r \in Requests, Flask(r)
    PROVE  /\ UNCHANGED <<results, timings, answer, cause>>
           /\ \A q \in Requests \ {r} : UNCHANGED Own(q)
<1> USE DEF TypeOK, Goto, Own, mainVars, boxVars, threadVars
<1>1. CASE Begin(r)
  BY <1>1 DEF Begin
<1>2. CASE BeginElsewhere(r)
  BY <1>2 DEF BeginElsewhere
<1>3. CASE Collect(r)
  BY <1>3 DEF Collect, Blame
<1>4. CASE Collected(r)
  BY <1>4 DEF Collected
<1>5. CASE JoinEnded(r)
  BY <1>5 DEF JoinEnded
<1>6. CASE JoinGivesUp(r)
  BY <1>6 DEF JoinGivesUp, Blame
<1>7. CASE Close(r)
  BY <1>7 DEF Close
<1>8. CASE Score(r)
  BY <1>8 DEF Score
<1>9. CASE Show(r)
  BY <1>9 DEF Show
<1> QED
  BY <1>1, <1>2, <1>3, <1>4, <1>5, <1>6, <1>7, <1>8, <1>9 DEF Flask

-----------------------------------------------------------------------------
(* Where a thread is tells how the search of its engine went, and what it *)
(* merges is a list its engine may answer with. *)

Lists == UNION {Answers[e] : e \in Engines}

Traced(r, k) ==
    /\ tpc[r][k] \in {"none", "asking", "extending", "ignored", "merging", "storing", "boxing",
                      "recording"} => cause[r][k] = "list"
    /\ tpc[r][k] \in {"failing", "reporting", "striking"} =>
          cause[r][k] \notin {"none", "invalid"}
    /\ answer[r][k] = <<>> \/ answer[r][k] \in Lists

Traces(r) == \A k \in Slots : Traced(r, k)

LEMMA ThreadTraces ==
    ASSUME IInv, NEW r \in Requests, NEW k \in Slots, Traced(r, k), Thread(r, k)
    PROVE  Traced(r, k)'
<1>0. TypeOK /\ Threaded(r, k)
  BY DEF IInv, Typed
<1> USE <1>0 DEF TypeOK, ThreadGoto, Traced, boxVars, threadVars
<1>1. CASE AnswerList(r, k)
  <2>1. k \in DOMAIN asked[r] /\ asked[r][k] \in Engines
    BY <1>1 DEF Threaded, AnswerList, Comes
  <2>2. PICK list \in Answers[asked[r][k]] : answer' = [answer EXCEPT ![r][k] = list]
    BY <1>1 DEF AnswerList
  <2>3. answer'[r][k] \in Lists
    BY <2>1, <2>2 DEF Lists
  <2>4. \/ tpc'[r][k] = "failing" /\ cause'[r][k] = "timeout"
        \/ tpc'[r][k] = "extending" /\ cause'[r][k] = "list"
    BY <1>1 DEF AnswerList, ReadFlag
  <2> QED
    BY <2>3, <2>4
<1>2. CASE AnswerNone(r, k)
  BY <1>2 DEF AnswerNone, Comes, ReadFlag
<1>3. CASE AnswerFails(r, k)
  BY <1>3 DEF AnswerFails, Comes
<1>4. CASE AnswerInvalid(r, k)
  BY <1>4 DEF AnswerInvalid, Comes
<1>5. CASE ReadClosed(r, k)
  BY <1>5 DEF ReadClosed
<1>6. CASE Lookup(r, k)
  BY <1>6 DEF Lookup
<1>7. CASE Store(r, k)
  BY <1>7 DEF Store
<1>8. CASE LookupBox(r, k)
  BY <1>8 DEF LookupBox
<1>9. CASE AppendBox(r, k)
  BY <1>9 DEF AppendBox
<1>10. CASE MergeRaises(r, k)
  BY <1>10 DEF MergeRaises
<1>11. CASE AddTiming(r, k)
  BY <1>11 DEF AddTiming, CheckOpen
<1>12. CASE AddUnresponsive(r, k)
  BY <1>12 DEF AddUnresponsive, CheckOpen
<1>13. CASE RecordTiming(r, k)
  BY <1>13 DEF RecordTiming
<1>14. CASE ReportFailure(r, k)
  BY <1>14 DEF ReportFailure, Blame
<1>15. CASE Suspend(r, k)
  BY <1>15 DEF Suspend
<1>16. CASE Resume(r, k)
  BY <1>16 DEF Resume
<1> QED
  BY <1>1, <1>2, <1>3, <1>4, <1>5, <1>6, <1>7, <1>8, <1>9, <1>10, <1>11, <1>12,
     <1>13, <1>14, <1>15, <1>16
  DEF Thread, UnderLock

LEMMA FlaskTraces ==
    ASSUME IInv, NEW r \in Requests, NEW k \in Slots, Traced(r, k), Flask(r)
    PROVE  Traced(r, k)'
<1>1. TypeOK /\ Progress(r, k)
  BY DEF IInv, Typed, Sound
<1>2. cause'[r][k] = cause[r][k] /\ answer'[r][k] = answer[r][k]
  BY <1>1, FlaskIsOwn
<1>3. CASE Collected(r)
  <2>1. tpc[r][k] = "none" /\ tpc'[r][k] \in {"none", "asking"}
    BY <1>1, <1>3 DEF Collected, Progress, TypeOK
  <2> QED
    BY <1>2, <2>1 DEF Traced
<1>4. CASE ~Collected(r)
  <2>1. tpc'[r][k] = tpc[r][k]
    BY <1>4
       DEF Flask, Begin, BeginElsewhere, Collect, JoinEnded, JoinGivesUp, Close, Score, Show,
           threadVars
  <2> QED
    BY <1>2, <2>1 DEF Traced
<1> QED
  BY <1>3, <1>4

LEMMA TracesStep == IInv /\ (\A r \in Requests : Traces(r)) /\ [Next]_vars => \A r \in Requests : Traces(r)'
<1> SUFFICES ASSUME IInv, \A r \in Requests : Traces(r), [Next]_vars,
                    NEW q \in Requests, NEW j \in Slots
             PROVE  Traced(q, j)'
  BY DEF Traces
<1>0. TypeOK /\ Traced(q, j)
  BY DEF IInv, Typed, Traces
<1>1. UNCHANGED Own(q) => Traced(q, j)'
  BY <1>0 DEF Own, Traced
<1>2. CASE \E r \in Requests : Flask(r)
  BY <1>0, <1>1, <1>2, FlaskIsOwn, FlaskTraces
<1>3. CASE \E r \in Requests, k \in Slots : Thread(r, k)
  <2>1. PICK r \in Requests, k \in Slots : Thread(r, k)
    BY <1>3
  <2>2. CASE r = q /\ k # j
    <3>1. /\ tpc'[q][j] = tpc[q][j] /\ cause'[q][j] = cause[q][j]
          /\ answer'[q][j] = answer[q][j]
      BY <1>0, <2>1, <2>2, ThreadIsOwn
    <3> QED
      BY <1>0, <3>1 DEF Traced
  <2>3. CASE r = q /\ k = j
    BY <1>0, <2>1, <2>3, ThreadTraces
  <2>4. CASE r # q
    BY <1>0, <1>1, <2>1, <2>4, ThreadIsOwn
  <2> QED
    BY <2>2, <2>3, <2>4
<1>4. CASE Tick \/ Finished \/ UNCHANGED vars
  <2>1. UNCHANGED Own(q)
    BY <1>4 DEF Tick, Finished, vars, Own, mainVars, boxVars, threadVars
  <2> QED
    BY <1>1, <2>1
<1> QED
  BY <1>2, <1>3, <1>4 DEF Next

LEMMA Tracing == Spec => [](\A r \in Requests : Traces(r))
<1> DEFINE T == \A r \in Requests : Traces(r)
<1>1. Init => T
  BY DEF Init, PerThread, Traces, Traced
<1>2. IInv /\ T /\ [Next]_vars => T'
  BY TracesStep
<1> QED
  BY <1>1, <1>2, Soundness, PTL DEF Spec

-----------------------------------------------------------------------------
(* A search keeps the promise of EngineSurvey. *)

Silent(r, k) == cause[r][k] \in {"none", "invalid"} /\ tpc[r][k] \in {"lifting", "ended"}

\* The part of the survey that is seen when a thread goes on.
SurveyVars(r) == <<pc[r], asked[r], flagged[r], timings[r], unresponsive[r], results[r], before[r],
                   shown[r]>>

LEMMA SurveyStays ==
    ASSUME NEW r \in Requests, UNCHANGED SurveyVars(r),
           \A j \in Slots : Silent(r, j)' <=> Silent(r, j)
    PROVE  UNCHANGED Survey(r)!vars
<1>1. SaidNothing(r)' = SaidNothing(r)
  BY DEF SaidNothing, Silent
<1>2. /\ Stage(r)' = Stage(r) /\ GivenUp(r)' = GivenUp(r) /\ Named(r)' = Named(r)
  BY DEF SurveyVars, Stage, GivenUp, Named
<1> QED
  BY <1>1, <1>2 DEF SurveyVars, Survey!vars

\* A thread is seen to act only while its engine is waited for or was given up.
LEMMA ThreadIsAt ==
    ASSUME IInv, NEW r \in Requests, NEW k \in Slots, tpc[r][k] \notin {"none", "ended"}
    PROVE  /\ k \in DOMAIN asked[r] /\ asked[r][k] \in Engines
           /\ Survey(r)!At(k)
<1>1. /\ TypeOK /\ Threaded(r, k) /\ Progress(r, k) /\ Accounted(r, k) /\ Closing(r)
  BY DEF IInv, Typed, Sound
<1>2. k \in DOMAIN asked[r] /\ asked[r][k] \in Engines
  BY <1>1 DEF Threaded, TypeOK
<1>3. pc[r] \in {"join", "score", "timings", "served", "failed"}
  BY <1>1 DEF TypeOK, Progress
<1>4. pc[r] # "join" => k \in GivenUp(r)
  BY <1>1, <1>2, <1>3 DEF Closing, Accounted, GivenUp
<1> QED
  BY <1>2, <1>3, <1>4 DEF Survey!At, Stage

LEMMA BlameNames ==
    ASSUME TypeOK, NEW r \in Requests, NEW e \in Engines, NEW x \in Errors, Blame(r, e, x)
    PROVE  Named(r)' = Named(r) \cup ({e} \ Quiet)
<1>1. unresponsive'[r] = IF e \in Quiet THEN unresponsive[r]
                         ELSE unresponsive[r] \cup {[engine |-> e, error |-> x]}
  BY DEF Blame, TypeOK
<1>2. CASE e \in Quiet
  BY <1>1, <1>2 DEF Named
<1>3. CASE e \notin Quiet
  <2>1. unresponsive'[r] = unresponsive[r] \cup {[engine |-> e, error |-> x]}
    BY <1>1, <1>3
  <2>2. [engine |-> e, error |-> x].engine = e
    OBVIOUS
  <2> QED
    BY <1>3, <2>1, <2>2 DEF Named
<1> QED
  BY <1>2, <1>3

LEMMA EntersSurvey ==
    ASSUME IInv, NEW r \in Requests, NEW k \in Slots, Traced(r, k), Store(r, k)
    PROVE  Survey(r)!Next
<1>1. /\ TypeOK /\ Threaded(r, k) /\ Looked(r, k) /\ Progress(r, k) /\ tpc[r][k] = "storing"
  BY DEF IInv, Typed, Sound, Store
<1>2. /\ k \in DOMAIN asked[r] /\ Survey(r)!At(k)
  BY <1>1, ThreadIsAt
<1> DEFINE i == This(r, k)
           p == place[r][k]
<1>3. i \in Items /\ p \in Places
  <2>1. i \in Items /\ More(r, k) /\ answer[r][k] \in Seq(Items \cup Infoboxes) /\ p \in Nat \ {0}
    BY <1>1 DEF Threaded, TypeOK
  <2>2. p \in DOMAIN answer[r][k]
    BY <2>1 DEF More
  <2>3. answer[r][k] \in Lists
    BY <2>1, <2>2 DEF Traced
  <2>4. Places = UNION {DOMAIN list : list \in Lists}
    BY DEF Places, Lists
  <2> QED
    BY <2>1, <2>2, <2>3, <2>4
<1>4. results'[r] = [results[r] EXCEPT ![i] = @ \cup {<<k, p>>}]
  <2>1. results[r] \in [Items -> SUBSET (Slots \X (Nat \ {0}))]
    BY <1>1 DEF TypeOK
  <2>2. results' = [results EXCEPT ![r][i] =
                       IF found[r][k] THEN @ \cup {<<k, p>>} ELSE {<<k, p>>}]
    BY DEF Store
  <2>3. results'[r] = [results[r] EXCEPT ![i] =
                       IF found[r][k] THEN @ \cup {<<k, p>>} ELSE {<<k, p>>}]
    BY <1>1, <2>2 DEF TypeOK
  <2>4. ~found[r][k] => results[r][i] = {}
    BY <1>1 DEF Looked
  <2> HIDE DEF i, p
  <2> QED
    BY ONLY <1>3, <2>1, <2>3, <2>4
<1>5. k \notin timings[r]
  BY <1>1 DEF Progress
<1>6. /\ UNCHANGED <<pc, asked, flagged, timings, unresponsive, before, shown>>
  BY DEF Store, mainVars
<1>7. SaidNothing(r)' = SaidNothing(r)
  <2>1. tpc'[r][k] = "merging" /\ cause' = cause
        /\ \A j \in Slots \ {k} : tpc'[r][j] = tpc[r][j]
    BY <1>1 DEF Store, ThreadGoto, TypeOK
  <2> QED
    BY <1>1, <2>1 DEF SaidNothing
<1>8. Survey(r)!Enter(k, i, p)
  <2>1. /\ Stage(r)' = Stage(r) /\ GivenUp(r)' = GivenUp(r) /\ Named(r)' = Named(r)
    BY <1>6 DEF Stage, GivenUp, Named
  <2> HIDE DEF i, p
  <2> QED
    BY <1>2, <1>4, <1>5, <1>6, <1>7, <2>1 DEF Survey!Enter
<1> HIDE DEF i, p
<1> QED
  BY <1>2, <1>3, <1>8 DEF Survey!Next

LEMMA DeliversSurvey ==
    ASSUME IInv, NEW r \in Requests, NEW k \in Slots, Traced(r, k), RecordTiming(r, k)
    PROVE  Survey(r)!Next
<1>1. TypeOK /\ Shown(r, k) /\ tpc[r][k] = "recording"
  BY DEF IInv, Typed, Sound, RecordTiming
<1>2. k \in DOMAIN asked[r] /\ Survey(r)!At(k)
  BY <1>1, ThreadIsAt
<1>3. timings'[r] = timings[r] \cup {k}
      /\ UNCHANGED <<pc, asked, flagged, unresponsive, results, before, shown, cause>>
      /\ tpc'[r][k] = "lifting" /\ \A j \in Slots \ {k} : tpc'[r][j] = tpc[r][j]
  BY <1>1 DEF RecordTiming, ThreadGoto, TypeOK, mainVars
<1>4. cause[r][k] = "list"
  BY <1>1 DEF Traced
<1>5. SaidNothing(r)' = SaidNothing(r) /\ k \notin SaidNothing(r)
  BY <1>1, <1>3, <1>4 DEF SaidNothing
<1>6. Stage(r) # "shown"
  BY <1>1 DEF Shown, Stage, TypeOK
<1>7. Stage(r)' = Stage(r) /\ GivenUp(r)' = GivenUp(r) /\ Named(r)' = Named(r)
  BY <1>3 DEF Stage, GivenUp, Named
<1>8. Survey(r)!Deliver(k)
  BY <1>2, <1>3, <1>5, <1>6, <1>7 DEF Survey!Deliver
<1> QED
  BY <1>2, <1>8 DEF Survey!Next

LEMMA TellsSurvey ==
    ASSUME IInv, NEW r \in Requests, NEW k \in Slots, Traced(r, k), ReportFailure(r, k)
    PROVE  Survey(r)!Next
<1>1. TypeOK /\ Shown(r, k) /\ tpc[r][k] = "reporting"
  BY DEF IInv, Typed, Sound, ReportFailure
<1>2. k \in DOMAIN asked[r] /\ asked[r][k] \in Engines /\ Survey(r)!At(k)
  BY <1>1, ThreadIsAt
<1>3. UNCHANGED <<pc, asked, flagged, timings, results, before, shown, cause>>
      /\ tpc'[r][k] = "striking" /\ \A j \in Slots \ {k} : tpc'[r][j] = tpc[r][j]
  BY <1>1 DEF ReportFailure, ThreadGoto, TypeOK, mainVars
<1>4. Named(r)' = Named(r) \cup ({asked[r][k]} \ Quiet)
  <2>1. PICK x \in Errors : Blame(r, asked[r][k], x)
    BY DEF ReportFailure, Errors
  <2> QED
    BY <1>1, <1>2, <2>1, BlameNames
<1>5. SaidNothing(r)' = SaidNothing(r)
  BY <1>1, <1>3 DEF SaidNothing
<1>6. Stage(r) # "shown"
  BY <1>1 DEF Shown, Stage, TypeOK
<1>7. Stage(r)' = Stage(r) /\ GivenUp(r)' = GivenUp(r)
  BY <1>3 DEF Stage, GivenUp
<1>8. Survey(r)!Tell(k)
  BY <1>2, <1>3, <1>4, <1>5, <1>6, <1>7 DEF Survey!Tell
<1> QED
  BY <1>2, <1>8 DEF Survey!Next

\* An engine that ends without a word.
LEMMA SaysNothing ==
    ASSUME IInv, NEW r \in Requests, NEW k \in Slots, tpc[r][k] \in {"asking", "merging"},
           UNCHANGED SurveyVars(r), Silent(r, k)',
           \A j \in Slots \ {k} : Silent(r, j)' <=> Silent(r, j)
    PROVE  Survey(r)!Next
<1>1. Progress(r, k)
  BY DEF IInv, Sound
<1>2. k \in DOMAIN asked[r] /\ Survey(r)!At(k)
  BY ThreadIsAt
<1>3. k \notin timings[r]
  BY <1>1 DEF Progress
<1>4. SaidNothing(r)' = SaidNothing(r) \cup {k}
  BY DEF SaidNothing, Silent
<1>5. Stage(r)' = Stage(r) /\ GivenUp(r)' = GivenUp(r) /\ Named(r)' = Named(r)
  BY DEF SurveyVars, Stage, GivenUp, Named
<1>6. Survey(r)!SayNothing(k)
  BY <1>2, <1>3, <1>4, <1>5 DEF Survey!SayNothing, SurveyVars
<1> QED
  BY <1>2, <1>6 DEF Survey!Next

LEMMA ThreadSurveys ==
    ASSUME IInv, NEW r \in Requests, NEW k \in Slots, Traced(r, k), Thread(r, k)
    PROVE  Survey(r)!Next \/ UNCHANGED Survey(r)!vars
<1>0. /\ TypeOK /\ \A j \in Slots \ {k} : Silent(r, j)' <=> Silent(r, j)
  <2>1. TypeOK
    BY DEF IInv, Typed
  <2> QED
    BY <2>1, ThreadIsOwn DEF Silent
<1>1. UNCHANGED SurveyVars(r) /\ (Silent(r, k)' <=> Silent(r, k)) => UNCHANGED Survey(r)!vars
  BY <1>0, SurveyStays
<1>2. UNCHANGED SurveyVars(r) /\ tpc[r][k] \in {"asking", "merging"} /\ Silent(r, k)'
          => Survey(r)!Next
  BY <1>0, SaysNothing
<1> USE <1>0, <1>1, <1>2 DEF TypeOK, ThreadGoto, Traced, SurveyVars, Silent, mainVars, boxVars, threadVars
<1>3. CASE AnswerList(r, k)
  <2>1. UNCHANGED SurveyVars(r)
    BY <1>3 DEF AnswerList, Comes, ReadFlag
  <2>2. Silent(r, k)' <=> Silent(r, k)
    BY <1>3 DEF AnswerList, Comes, ReadFlag
  <2> QED
    BY ONLY <1>1, <2>1, <2>2
<1>4. CASE AnswerNone(r, k)
  <2>1. UNCHANGED SurveyVars(r) /\ tpc[r][k] = "asking"
    BY <1>4 DEF AnswerNone, Comes, ReadFlag
  <2>2. Silent(r, k)' \/ ((Silent(r, k)' <=> Silent(r, k)))
    BY <1>4 DEF AnswerNone, Comes, ReadFlag
  <2> QED
    BY ONLY <1>1, <1>2, <2>1, <2>2
<1>5. CASE AnswerFails(r, k)
  <2>1. UNCHANGED SurveyVars(r)
    BY <1>5 DEF AnswerFails, Comes
  <2>2. Silent(r, k)' <=> Silent(r, k)
    BY <1>5 DEF AnswerFails, Comes
  <2> QED
    BY ONLY <1>1, <2>1, <2>2
<1>6. CASE AnswerInvalid(r, k)
  <2>1. UNCHANGED SurveyVars(r) /\ tpc[r][k] = "asking"
    BY <1>6 DEF AnswerInvalid, Comes
  <2>2. Silent(r, k)' \/ ((Silent(r, k)' <=> Silent(r, k)))
    BY <1>6 DEF AnswerInvalid, Comes
  <2> QED
    BY ONLY <1>1, <1>2, <2>1, <2>2
<1>7. CASE ReadClosed(r, k)
  <2>1. UNCHANGED SurveyVars(r)
    BY <1>7 DEF ReadClosed
  <2>2. Silent(r, k)' <=> Silent(r, k)
    BY <1>7 DEF ReadClosed
  <2> QED
    BY ONLY <1>1, <2>1, <2>2
<1>8. CASE Lookup(r, k)
  <2>1. UNCHANGED SurveyVars(r)
    BY <1>8 DEF Lookup
  <2>2. Silent(r, k)' <=> Silent(r, k)
    BY <1>8 DEF Lookup
  <2> QED
    BY ONLY <1>1, <2>1, <2>2
<1>9. CASE Store(r, k)
  BY ONLY <1>9, IInv, Traced(r, k), r \in Requests, k \in Slots, EntersSurvey
<1>10. CASE LookupBox(r, k)
  <2>1. UNCHANGED SurveyVars(r)
    BY <1>10 DEF LookupBox
  <2>2. Silent(r, k)' <=> Silent(r, k)
    BY <1>10 DEF LookupBox
  <2> QED
    BY ONLY <1>1, <2>1, <2>2
<1>11. CASE AppendBox(r, k)
  <2>1. UNCHANGED SurveyVars(r)
    BY <1>11 DEF AppendBox
  <2>2. Silent(r, k)' <=> Silent(r, k)
    BY <1>11 DEF AppendBox
  <2> QED
    BY ONLY <1>1, <2>1, <2>2
<1>12. CASE MergeRaises(r, k)
  <2>1. UNCHANGED SurveyVars(r) /\ tpc[r][k] = "merging"
    BY <1>12 DEF MergeRaises
  <2>2. Silent(r, k)' \/ ((Silent(r, k)' <=> Silent(r, k)))
    BY <1>12 DEF MergeRaises
  <2> QED
    BY ONLY <1>1, <1>2, <2>1, <2>2
<1>13. CASE AddTiming(r, k)
  <2>1. UNCHANGED SurveyVars(r)
    BY <1>13 DEF AddTiming, CheckOpen
  <2>2. Silent(r, k)' <=> Silent(r, k)
    BY <1>13 DEF AddTiming, CheckOpen
  <2> QED
    BY ONLY <1>1, <2>1, <2>2
<1>14. CASE AddUnresponsive(r, k)
  <2>1. UNCHANGED SurveyVars(r)
    BY <1>14 DEF AddUnresponsive, CheckOpen
  <2>2. Silent(r, k)' <=> Silent(r, k)
    BY <1>14 DEF AddUnresponsive, CheckOpen
  <2> QED
    BY ONLY <1>1, <2>1, <2>2
<1>15. CASE RecordTiming(r, k)
  BY ONLY <1>15, IInv, Traced(r, k), r \in Requests, k \in Slots,
     DeliversSurvey
<1>16. CASE ReportFailure(r, k)
  BY ONLY <1>16, IInv, Traced(r, k), r \in Requests, k \in Slots, TellsSurvey
<1>17. CASE Suspend(r, k)
  <2>1. UNCHANGED SurveyVars(r)
    BY <1>17 DEF Suspend
  <2>2. Silent(r, k)' <=> Silent(r, k)
    BY <1>17 DEF Suspend
  <2> QED
    BY ONLY <1>1, <2>1, <2>2
<1>18. CASE Resume(r, k)
  <2>1. UNCHANGED SurveyVars(r)
    BY <1>18 DEF Resume
  <2>2. Silent(r, k)' <=> Silent(r, k)
    BY <1>18 DEF Resume
  <2> QED
    BY ONLY <1>1, <2>1, <2>2
<1> QED
  BY ONLY Thread(r, k), <1>3, <1>4, <1>5, <1>6, <1>7, <1>8, <1>9, <1>10, <1>11,
     <1>12, <1>13, <1>14, <1>15, <1>16, <1>17, <1>18
  DEF Thread, UnderLock

LEMMA BlamesSurvey ==
    ASSUME IInv, NEW r \in Requests, Collect(r)
    PROVE  Survey(r)!Next \/ UNCHANGED Survey(r)!vars
<1> DEFINE e == query[r].engines[cursor[r]]
<1>1. TypeOK /\ pc[r] = "collect"
  BY DEF IInv, Typed, Collect
<1>2. e \in Engines
  <2>1. query[r].engines \in Seq(Engines) /\ cursor[r] \in 1 .. Len(query[r].engines)
    BY <1>1 DEF Collect, TypeOK, QueryType
  <2> QED
    BY <2>1
<1>3. \/ asked'[r] = Append(asked[r], e) /\ UNCHANGED unresponsive
      \/ asked'[r] = asked[r] /\ Blame(r, e, "suspended")
      \/ asked'[r] = asked[r] /\ UNCHANGED unresponsive
  BY <1>1 DEF Collect, TypeOK
<1>4. UNCHANGED <<pc, flagged, tpc, cause, timings, results, before, shown>>
  BY DEF Collect, threadVars
<1>5. /\ Stage(r)' = Stage(r) /\ GivenUp(r)' = GivenUp(r) /\ SaidNothing(r)' = SaidNothing(r)
      /\ Stage(r) = "choosing"
  BY <1>1, <1>4 DEF Stage, GivenUp, SaidNothing
<1>6. CASE asked'[r] = Append(asked[r], e) /\ UNCHANGED unresponsive
  <2>1. Named(r)' = Named(r)
    BY <1>6 DEF Named
  <2>2. Survey(r)!Choose(e)
    BY <1>4, <1>5, <1>6, <2>1 DEF Survey!Choose
  <2> QED
    BY <1>2, <2>2 DEF Survey!Next
<1>7. CASE asked'[r] = asked[r] /\ Blame(r, e, "suspended")
  <2>1. Named(r)' = Named(r) \cup ({e} \ Quiet)
    BY <1>1, <1>2, <1>7, BlameNames DEF Errors
  <2>2. CASE e \in Quiet
    <3>1. Named(r)' = Named(r)
      BY <2>1, <2>2
    <3> QED
      BY <1>4, <1>5, <1>7, <3>1 DEF Survey!vars
  <2>3. CASE e \notin Quiet
    <3>1. Named(r)' = Named(r) \cup {e}
      BY <2>1, <2>3
    <3>2. Survey(r)!Choose(e)
      BY <1>4, <1>5, <1>7, <3>1 DEF Survey!Choose
    <3> QED
      BY <1>2, <3>2 DEF Survey!Next
  <2> QED
    BY <2>2, <2>3
<1>8. CASE asked'[r] = asked[r] /\ UNCHANGED unresponsive
  BY <1>4, <1>5, <1>8 DEF Named, Survey!vars
<1> QED
  BY <1>3, <1>6, <1>7, <1>8

LEMMA SendsSurvey ==
    ASSUME IInv, NEW r \in Requests, Collected(r)
    PROVE  Survey(r)!Next
<1>1. TypeOK /\ pc[r] = "collect" /\ \A k \in Slots : Progress(r, k)
  BY DEF IInv, Typed, Sound, Collected
<1>2. UNCHANGED <<asked, flagged, timings, unresponsive, results, before, shown, cause>>
  BY DEF Collected, boxVars
<1>3. pc'[r] = "join" /\ \A k \in Slots : tpc'[r][k] \in {"none", "asking"}
  BY <1>1 DEF Collected, Goto, TypeOK
<1>4. SaidNothing(r)' = SaidNothing(r)
  BY <1>1, <1>3 DEF Progress, SaidNothing
<1>5. /\ Stage(r) = "choosing" /\ Stage(r)' = "waiting"
      /\ GivenUp(r)' = GivenUp(r) /\ Named(r)' = Named(r)
  BY <1>1, <1>2, <1>3 DEF Stage, GivenUp, Named
<1>6. Survey(r)!Send
  BY <1>2, <1>4, <1>5 DEF Survey!Send
<1> QED
  BY <1>6 DEF Survey!Next

LEMMA GivesUpSurvey ==
    ASSUME IInv, NEW r \in Requests, JoinGivesUp(r)
    PROVE  Survey(r)!Next
<1> DEFINE k == cursor[r]
<1>1. TypeOK /\ pc[r] = "join"
  BY DEF IInv, Typed, JoinGivesUp
<1>2. k \in DOMAIN asked[r] /\ k \in Slots /\ asked[r][k] \in Engines
  BY ConstantsAreSane DEF IInv, Typed, TypeOK, Slotted, Slots, JoinGivesUp
<1>3. UNCHANGED <<pc, asked, tpc, cause, timings, results, before, shown>>
  BY DEF JoinGivesUp
<1>4. flagged'[r][k] /\ \A j \in Slots \ {k} : flagged'[r][j] = flagged[r][j]
  BY <1>1, <1>2 DEF JoinGivesUp, TypeOK
<1>5. Named(r)' = Named(r) \cup ({asked[r][k]} \ Quiet)
  BY <1>1, <1>2, BlameNames DEF JoinGivesUp, Errors
<1>6. GivenUp(r)' = GivenUp(r) \cup {k}
  BY <1>2, <1>4 DEF GivenUp
<1>7. Stage(r) = "waiting" /\ Stage(r)' = Stage(r) /\ SaidNothing(r)' = SaidNothing(r)
  BY <1>1, <1>3 DEF Stage, SaidNothing
<1> HIDE DEF k
<1>8. Survey(r)!GiveUp(k)
  BY <1>2, <1>3, <1>5, <1>6, <1>7 DEF Survey!GiveUp
<1> QED
  BY <1>2, <1>8 DEF Survey!Next

LEMMA PresentIsCollected == \A r \in Requests : Present(r) = Survey(r)!Collected
BY DEF Present, Survey!Collected

LEMMA EndsSurvey ==
    ASSUME IInv, NEW r \in Requests, Close(r)
    PROVE  Survey(r)!Next
<1>1. TypeOK /\ pc[r] = "join" /\ Slotted(r) /\ \A k \in Slots : Threaded(r, k) /\ Accounted(r, k)
  BY DEF IInv, Typed, Sound, Close
<1>2. UNCHANGED <<asked, flagged, tpc, cause, timings, unresponsive, results, shown>>
  BY DEF Close, mainVars, threadVars
<1>3. pc'[r] = "score" /\ before'[r] = results[r]
  BY <1>1 DEF Close, Goto, TypeOK
<1>4. ASSUME NEW k \in DOMAIN asked[r] PROVE Survey(r)!Settled(k)
  <2>1. k \in Slots /\ k < cursor[r]
    <3>1. /\ asked[r] \in Seq(Engines) /\ Len(asked[r]) <= MaxEngines /\ MaxEngines \in Nat
          /\ cursor[r] \in Nat /\ cursor[r] > Len(asked[r])
      BY <1>1, ConstantsAreSane DEF TypeOK, Slotted, Close
    <3> QED
      BY ONLY <3>1, k \in DOMAIN asked[r] DEF Slots
  <2>2. /\ Accounted(r, k) /\ Closing(r) /\ ~closed[r]
    BY <1>1, <2>1 DEF Closing, IInv, Sound
  <2>3. \/ k \in timings[r] \/ Known(r, k)
        \/ cause[r][k] \in {"none", "invalid"} /\ tpc[r][k] = "ended"
    BY <1>1, <2>1, <2>2 DEF Accounted
  <2>4. Known(r, k) => asked[r][k] \in Named(r) \cup Quiet
    BY DEF Known, Blamed, Named
  <2> QED
    BY <2>1, <2>3, <2>4 DEF Survey!Settled, SaidNothing
<1>5. /\ Stage(r) = "waiting" /\ Stage(r)' = "ended" /\ GivenUp(r)' = GivenUp(r)
      /\ Named(r)' = Named(r) /\ SaidNothing(r)' = SaidNothing(r)
  BY <1>1, <1>2, <1>3 DEF Stage, GivenUp, Named, SaidNothing
<1>6. Survey(r)!EndWait
  BY <1>2, <1>3, <1>4, <1>5 DEF Survey!EndWait
<1> QED
  BY <1>6 DEF Survey!Next

LEMMA ScoresSurvey ==
    ASSUME IInv, NEW r \in Requests, Score(r)
    PROVE  Survey(r)!Next
<1>1. TypeOK /\ pc[r] = "score" /\ Closing(r)
  BY DEF IInv, Typed, Sound, Score
<1>2. UNCHANGED <<asked, flagged, tpc, cause, timings, unresponsive, results, before, shown>>
  BY DEF Score, boxVars, threadVars
<1>3. \/ pc'[r] = "timings"
      \/ pc'[r] = "failed" /\ \E i \in Items : Names(r, results[r][i]) # Names(r, before[r][i])
  BY <1>1 DEF Score, Goto, TypeOK
<1>4. ASSUME NEW i \in Items, Names(r, results[r][i]) # Names(r, before[r][i])
      PROVE  Survey(r)!FoundAnew(i)
  <2>1. before[r][i] \subseteq results[r][i]
    BY <1>1 DEF Closing, Late
  <2>2. PICK entry \in results[r][i] : asked[r][entry[1]] \notin Names(r, before[r][i])
    BY <1>4, <2>1 DEF Names
  <2>3. \A known \in before[r][i] : asked[r][known[1]] # asked[r][entry[1]]
    BY <2>2 DEF Names
  <2> QED
    BY <2>2, <2>3 DEF Survey!FoundAnew
<1>5. /\ Stage(r) = "ended"
      /\ \/ Stage(r)' = "scored"
         \/ Stage(r)' = "failed" /\ \E i \in Items : Survey(r)!FoundAnew(i)
      /\ GivenUp(r)' = GivenUp(r) /\ Named(r)' = Named(r) /\ SaidNothing(r)' = SaidNothing(r)
  BY <1>1, <1>2, <1>3, <1>4 DEF Stage, GivenUp, Named, SaidNothing
<1>6. Survey(r)!Score
  BY <1>2, <1>5 DEF Survey!Score
<1> QED
  BY <1>6 DEF Survey!Next

LEMMA FlaskSurveys ==
    ASSUME IInv, NEW r \in Requests, Flask(r)
    PROVE  Survey(r)!Next \/ UNCHANGED Survey(r)!vars
<1>0. TypeOK
  BY DEF IInv, Typed
<1>1. CASE Begin(r) \/ BeginElsewhere(r)
  <2>1. /\ pc[r] = "idle" /\ pc'[r] \in {"collect", "join"}
        /\ UNCHANGED <<asked, flagged, tpc, cause, timings, unresponsive, results, before, shown>>
    BY <1>0, <1>1 DEF Begin, BeginElsewhere, Goto, TypeOK, boxVars, threadVars
  <2>2. /\ Stage(r) = "idle" /\ Stage(r)' \in {"choosing", "waiting"}
        /\ GivenUp(r)' = GivenUp(r) /\ Named(r)' = Named(r) /\ SaidNothing(r)' = SaidNothing(r)
    BY <2>1 DEF Stage, GivenUp, Named, SaidNothing
  <2>3. Survey(r)!Begin
    BY <2>1, <2>2 DEF Survey!Begin
  <2> QED
    BY <2>3 DEF Survey!Next
<1>2. CASE Collect(r)
  BY <1>2, BlamesSurvey
<1>3. CASE Collected(r)
  BY <1>3, SendsSurvey
<1>4. CASE JoinEnded(r)
  <2>1. UNCHANGED SurveyVars(r) /\ UNCHANGED <<tpc, cause>>
    BY <1>4 DEF JoinEnded, SurveyVars, boxVars, threadVars
  <2> QED
    BY <2>1, SurveyStays DEF Silent
<1>5. CASE JoinGivesUp(r)
  BY <1>5, GivesUpSurvey
<1>6. CASE Close(r)
  BY <1>6, EndsSurvey
<1>7. CASE Score(r)
  BY <1>7, ScoresSurvey
<1>8. CASE Show(r)
  <2>1. /\ pc[r] = "timings" /\ pc'[r] = "served" /\ shown'[r] = Survey(r)!Collected
        /\ UNCHANGED <<asked, flagged, tpc, cause, timings, unresponsive, results, before>>
    BY <1>0, <1>8, PresentIsCollected DEF Show, Goto, TypeOK, threadVars
  <2>2. /\ Stage(r) = "scored" /\ Stage(r)' = "shown"
        /\ GivenUp(r)' = GivenUp(r) /\ Named(r)' = Named(r) /\ SaidNothing(r)' = SaidNothing(r)
    BY <2>1 DEF Stage, GivenUp, Named, SaidNothing
  <2>3. Survey(r)!Show
    BY <2>1, <2>2 DEF Survey!Show
  <2> QED
    BY <2>3 DEF Survey!Next
<1> QED
  BY <1>1, <1>2, <1>3, <1>4, <1>5, <1>6, <1>7, <1>8 DEF Flask

\* What others do is not seen.
LEMMA OwnSurvey ==
    ASSUME NEW r \in Requests, UNCHANGED Own(r) PROVE UNCHANGED Survey(r)!vars
<1>1. UNCHANGED SurveyVars(r) /\ \A j \in Slots : Silent(r, j)' <=> Silent(r, j)
  BY DEF Own, SurveyVars, Silent
<1> QED
  BY <1>1, SurveyStays

\* Every search keeps the promise of EngineSurvey, for any engines, lists, networks,
\* timeouts and number of searches at a time.
THEOREM Surveying == Spec => ImplementsSurvey
<1>1. ASSUME Init, NEW r \in Requests PROVE Survey(r)!Init
  <2>1. /\ pc[r] = "idle" /\ asked[r] = <<>> /\ timings[r] = {} /\ unresponsive[r] = {}
        /\ results[r] = [i \in Items |-> {}] /\ before[r] = [i \in Items |-> {}]
        /\ shown[r] = {}
        /\ \A k \in Slots : ~flagged[r][k] /\ tpc[r][k] = "none"
    BY <1>1 DEF Init, PerRequest, PerThread
  <2> QED
    BY <2>1 DEF Survey!Init, Stage, GivenUp, SaidNothing, Named
<1>2. ASSUME IInv, \A r \in Requests : Traces(r), [Next]_vars, NEW q \in Requests
      PROVE  Survey(q)!Next \/ UNCHANGED Survey(q)!vars
  <2>0. TypeOK
    BY <1>2 DEF IInv, Typed
  <2>1. CASE \E r \in Requests : Flask(r)
    BY <1>2, <2>0, <2>1, FlaskSurveys, FlaskIsOwn, OwnSurvey
  <2>2. CASE \E r \in Requests, k \in Slots : Thread(r, k)
    BY <1>2, <2>0, <2>2, ThreadSurveys, ThreadIsOwn, OwnSurvey DEF Traces
  <2>3. CASE Tick \/ Finished \/ UNCHANGED vars
    <3>1. UNCHANGED Own(q)
      BY <2>3 DEF Tick, Finished, vars, Own, mainVars, boxVars, threadVars
    <3> QED
      BY <3>1, OwnSurvey
  <2> QED
    BY <1>2, <2>1, <2>2, <2>3 DEF Next
<1>3. Init => \A r \in Requests : Survey(r)!Init
  BY <1>1
<1>4. IInv /\ (\A r \in Requests : Traces(r)) /\ [Next]_vars =>
        [\A r \in Requests : Survey(r)!Next \/ UNCHANGED Survey(r)!vars]_vars
  BY <1>2
<1> QED
  BY <1>3, <1>4, Soundness, Tracing, PTL DEF Spec, ImplementsSurvey

-----------------------------------------------------------------------------
(* The Flask thread of a search comes to its end. *)

Joining(r) == pc[r] = "join" => cursor[r] <= Len(asked[r]) + 1

LEMMA FlaskJoins ==
    ASSUME IInv, NEW r \in Requests, Joining(r), Flask(r)
    PROVE  /\ Joining(r)'
           /\ Remaining(r)' \in Nat /\ Remaining(r)' < Remaining(r)
<1>0. /\ TypeOK /\ Slotted(r) /\ r \in DOMAIN pc /\ r \in DOMAIN cursor
      /\ cursor[r] \in Nat \ {0} /\ Len(asked[r]) \in Nat /\ Len(query[r].engines) \in Nat
  <2>1. TypeOK /\ Slotted(r)
    BY DEF IInv, Typed
  <2>2. query[r].engines \in Seq(Engines) /\ asked[r] \in Seq(Engines)
    BY <2>1 DEF TypeOK, QueryType
  <2>3. Len(asked[r]) \in Nat /\ Len(query[r].engines) \in Nat
    BY <2>2
  <2>4. r \in DOMAIN pc /\ r \in DOMAIN cursor /\ cursor[r] \in Nat \ {0}
    BY <2>1 DEF TypeOK
  <2> QED
    BY <2>1, <2>3, <2>4
<1> USE <1>0 DEF Goto
<1>1. CASE Begin(r)
  <2>1. pc[r] = "idle" /\ pc'[r] = "collect" /\ cursor[r] = 1 /\ UNCHANGED <<cursor, query>>
    BY <1>1 DEF Begin, Slotted
  <2> QED
    BY <2>1 DEF Remaining, Joining
<1>2. CASE BeginElsewhere(r)
  <2>1. /\ pc[r] = "idle" /\ pc'[r] = "join" /\ cursor[r] = 1 /\ asked[r] = <<>>
        /\ UNCHANGED <<cursor, query, asked>>
    BY <1>2 DEF BeginElsewhere, Slotted
  <2> QED
    BY <2>1 DEF Remaining, Joining
<1>3. CASE Collect(r)
  <2>1. /\ pc[r] = "collect" /\ pc'[r] = "collect" /\ cursor'[r] = cursor[r] + 1
        /\ cursor[r] <= Len(query[r].engines) /\ UNCHANGED query
    BY <1>3 DEF Collect, TypeOK
  <2> QED
    BY <2>1 DEF Remaining, Joining
<1>4. CASE Collected(r)
  <2>1. /\ pc[r] = "collect" /\ pc'[r] = "join" /\ cursor'[r] = 1
        /\ cursor[r] = Len(query[r].engines) + 1 /\ Len(asked[r]) < cursor[r]
        /\ UNCHANGED <<query, asked>>
    BY <1>4 DEF Collected, Slotted
  <2> QED
    BY <2>1 DEF Remaining, Joining
<1>5. CASE JoinEnded(r) \/ JoinGivesUp(r)
  <2>1. /\ pc[r] = "join" /\ pc'[r] = "join" /\ cursor'[r] = cursor[r] + 1
        /\ cursor[r] <= Len(asked[r]) /\ UNCHANGED asked
    BY <1>5 DEF JoinEnded, JoinGivesUp
  <2> QED
    BY <2>1 DEF Remaining, Joining
<1>6. CASE Close(r)
  <2>1. pc[r] = "join" /\ pc'[r] = "score" /\ cursor[r] = Len(asked[r]) + 1
    BY <1>6 DEF Close, Joining
  <2> QED
    BY <2>1 DEF Remaining, Joining
<1>7. CASE Score(r)
  BY <1>7 DEF Score, Remaining, Joining
<1>8. CASE Show(r)
  BY <1>8 DEF Show, Remaining, Joining
<1> QED
  BY <1>1, <1>2, <1>3, <1>4, <1>5, <1>6, <1>7, <1>8 DEF Flask

LEMMA RestJoins ==
    ASSUME IInv, NEW q \in Requests, [Next]_vars, ~Flask(q)
    PROVE  /\ Joining(q) => Joining(q)'
           /\ Remaining(q)' = Remaining(q)
<1>0. TypeOK
  BY DEF IInv, Typed
<1>1. UNCHANGED <<pc[q], cursor[q], query[q], asked[q]>>
  <2>1. CASE \E r \in Requests : Flask(r)
    BY <1>0, <2>1, FlaskIsOwn DEF Own
  <2>2. CASE \E r \in Requests, k \in Slots : Thread(r, k)
    BY <1>0, <2>2, ThreadIsOwn DEF mainVars
  <2>3. CASE Tick \/ Finished \/ UNCHANGED vars
    BY <2>3 DEF Tick, Finished, vars, mainVars
  <2> QED
    BY <2>1, <2>2, <2>3 DEF Next
<1> QED
  BY <1>1 DEF Joining, Remaining

\* The steps left to the Flask thread of a search become fewer with each one it takes,
\* for any list of engines and whatever they do.
THEOREM SearchesComeNearer == Spec => SearchesAdvance
<1> DEFINE J == \A r \in Requests : Joining(r)
<1>1. Init => J
  BY DEF Init, PerRequest, Joining
<1>2. IInv /\ J /\ [Next]_vars => J'
  BY FlaskJoins, RestJoins
<1>3. IInv /\ J /\ [Next]_vars =>
        [\A r \in Requests : IF Flask(r) THEN Remaining(r)' \in Nat /\ Remaining(r)' < Remaining(r)
                             ELSE Remaining(r)' = Remaining(r)]_vars
  BY FlaskJoins, RestJoins
<1> QED
  BY <1>1, <1>2, <1>3, Soundness, PTL DEF Spec, SearchesAdvance
=============================================================================
