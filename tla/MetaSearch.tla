----------------------------- MODULE MetaSearch -----------------------------
(***************************************************************************)
(* One search of the vendored SearXNG, as the SearXNG process runs it for  *)
(* Sodeom: the Flask thread of a request (searx/search/__init__.py) asks   *)
(* the selected engines, each in a thread of its own (searx/search/        *)
(* processors/), waits for them until the timeout of the search, closes    *)
(* the container the threads write to (searx/results.py) and shows it.     *)
(*                                                                         *)
(* Several requests run at a time.  Each has its container and its engine  *)
(* threads; what they share is the ban of a network (SUSPENDED_STATUS):    *)
(* every engine that uses the network is skipped while the ban lasts.      *)
(*                                                                         *)
(* A container has a lock, but not everything that touches the container   *)
(* takes it: `close' does not, `extend' reads `_closed' without it, and an *)
(* infobox is looked up under it and appended after it was released.  The  *)
(* steps below are cut where another thread can come in between.  A step   *)
(* that takes the lock and gives it back at once has the guard Free(r).    *)
(*                                                                         *)
(* A query may name an engine twice (once per category), and each has a    *)
(* thread: threads are numbered by their slot in the list of requests.     *)
(***************************************************************************)
EXTENDS Naturals, Sequences

CONSTANTS
    Requests,       \* the requests, each served by a Flask thread of its own
    Engines,        \* the registered engines
    Networks,       \* the networks; a ban belongs to a network
    NetworkOf,      \* the network each engine uses
    EngineTimeout,  \* engine.timeout
    Quiet,          \* the engines with display_error_messages = False
    Offline,        \* the engines run by OfflineProcessor, the others by OnlineProcessor
    Items,          \* main results, named by their hash
    Infoboxes,      \* infoboxes, named by their id
    Outcomes,       \* Outcomes[e]: how the search of engine e may end ...
    Answers,        \* ... and the lists it may answer with
    Queries,        \* Queries[r]: what r may ask, [engines, unsupported, timeout_limit]
    MaxEngines,     \* the length of the longest list of engines
    MaxRequestTimeout, \* settings outgoing.max_request_timeout, or NoLimit
    NoLimit,        \* None
    BanTime,        \* the seconds a network is banned after a failure
    LastStart,      \* bound: no request begins later
    MaxTime         \* bound of the clock

Slots == 1 .. MaxEngines
Nobody == 0         \* nobody holds the lock

QueryType == [engines : Seq(Engines), unsupported : SUBSET Engines,
              timeout_limit : Nat \cup {NoLimit}]

ASSUME ConstantsAreSane ==
    /\ NetworkOf \in [Engines -> Networks]
    /\ EngineTimeout \in [Engines -> Nat]
    /\ Quiet \subseteq Engines /\ Offline \subseteq Engines
    /\ \A e \in Engines : Outcomes[e] \subseteq
          IF e \in Offline THEN {"list", "error", "invalid"} ELSE {"list", "none", "error", "banning"}
    /\ Items \cap Infoboxes = {}
    /\ \A e \in Engines : Answers[e] \subseteq Seq(Items \cup Infoboxes)
    /\ NoLimit \notin Nat /\ MaxRequestTimeout \in Nat \cup {NoLimit}
    /\ \A r \in Requests : Queries[r] \subseteq QueryType
    /\ \A r \in Requests : \A q \in Queries[r] : Len(q.engines) <= MaxEngines
    /\ MaxEngines \in Nat /\ BanTime \in Nat /\ LastStart \in Nat /\ MaxTime \in Nat

VARIABLES
    now,            \* default_timer()
    ban,            \* SuspendedStatus.suspend_end_time of each network; 0: none
    pc,             \* where the Flask thread of a request is
    query,          \* its SearchQuery
    start,          \* Search.start_time
    limit,          \* Search.actual_timeout
    cursor,         \* how far its present loop has come
    asked,          \* the list `requests': the engine of each slot
    closed,         \* ResultContainer._closed
    results,        \* main_results_map: the <<slot, place>> merged into an item
    boxes,          \* infoboxes: a list of [id, slots]
    unresponsive,   \* unresponsive_engines
    timings,        \* the slots in `timings': those that delivered
    before,         \* main_results_map as it was when `close' set the flag
    shown,          \* the list of get_ordered_results, as the set of its items
    lock,           \* the slot whose thread holds _lock
    tpc,            \* where the thread of a slot is
    flagged,        \* th._timeout
    answer,         \* the list the engine answered with
    place,          \* the index, in the list, of the result being merged; the position
                    \* the code enters counts the main results before it
    found,          \* what the lookup under the lock returned
    cause           \* how the search of the engine ended

mainVars == <<pc, query, start, limit, cursor, asked>>
boxVars == <<closed, results, boxes, unresponsive, timings, before, shown>>
threadVars == <<tpc, flagged, answer, place, found, cause>>
vars == <<now, ban, mainVars, boxVars, lock, threadVars>>

PerRequest(v) == [r \in Requests |-> v]
PerThread(v) == [r \in Requests |-> [k \in Slots |-> v]]

Init ==
    /\ now = 1
    /\ ban = [n \in Networks |-> 0]
    /\ pc = PerRequest("idle")
    /\ query \in {f \in [Requests -> UNION {Queries[r] : r \in Requests}] :
                  \A r \in Requests : f[r] \in Queries[r]}
    /\ start = PerRequest(0)
    /\ limit = PerRequest(0)
    /\ cursor = PerRequest(1)
    /\ asked = PerRequest(<<>>)
    /\ closed = PerRequest(FALSE)
    /\ results = PerRequest([i \in Items |-> {}])
    /\ boxes = PerRequest(<<>>)
    /\ unresponsive = PerRequest({})
    /\ timings = PerRequest({})
    /\ before = PerRequest([i \in Items |-> {}])
    /\ shown = PerRequest({})
    /\ lock = PerRequest(Nobody)
    /\ tpc = PerThread("none")
    /\ flagged = PerThread(FALSE)
    /\ answer = PerThread(<<>>)
    /\ place = PerThread(1)
    /\ found = PerThread(FALSE)
    /\ cause = PerThread("list")

-----------------------------------------------------------------------------
(* The container and the bans. *)

Free(r) == lock[r] = Nobody

Present(r) == {i \in Items : results[r][i] # {}}

\* add_unresponsive_engine, once the container was found open; the error class
\* is abstracted to what is told apart.
Blame(r, e, error) ==
    unresponsive' = [unresponsive EXCEPT ![r] =
        IF e \in Quiet THEN @ ELSE @ \cup {[engine |-> e, error |-> error]}]

\* SuspendedStatus.is_suspended
Suspended(n) == ban[n] >= now

-----------------------------------------------------------------------------
(* The Flask thread: SearchWithPlugins.search and webapp.search. *)

Goto(r, l) == pc' = [pc EXCEPT ![r] = l]

Begin(r) ==
    /\ pc[r] = "idle" /\ now <= LastStart
    /\ start' = [start EXCEPT ![r] = now]
    /\ Goto(r, "collect")
    /\ UNCHANGED <<now, ban, query, limit, cursor, asked, boxVars, lock, threadVars>>

\* An external bang, an answerer or the veto of a plugin settles the search: no
\* engine is asked.
BeginElsewhere(r) ==
    /\ pc[r] = "idle" /\ now <= LastStart
    /\ start' = [start EXCEPT ![r] = now]
    /\ Goto(r, "join")
    /\ UNCHANGED <<now, ban, query, limit, cursor, asked, boxVars, lock, threadVars>>

Least(a, b) == IF a < b THEN a ELSE b
Greatest(a, b) == IF a < b THEN b ELSE a

\* One round of the loop of _get_requests: an engine whose network is banned is
\* reported, one that does not support the query is left out; `limit' holds
\* default_timeout, the largest timeout of the engines that are asked.
Collect(r) ==
    /\ pc[r] = "collect" /\ cursor[r] <= Len(query[r].engines) /\ Free(r)
    /\ LET e == query[r].engines[cursor[r]]
           banned == Suspended(NetworkOf[e])
           asks == ~banned /\ e \notin query[r].unsupported
       IN  /\ IF banned THEN Blame(r, e, "suspended") ELSE UNCHANGED unresponsive
           /\ asked' = IF asks THEN [asked EXCEPT ![r] = Append(@, e)] ELSE asked
           /\ limit' = IF asks THEN [limit EXCEPT ![r] = Greatest(@, EngineTimeout[e])] ELSE limit
    /\ cursor' = [cursor EXCEPT ![r] = @ + 1]
    /\ UNCHANGED <<now, ban, pc, query, start, closed, results, boxes,
                   timings, before, shown, lock, threadVars>>

\* The end of _get_requests: the timeout of the query may exceed that of the
\* engines only when the settings name a maximum.
ActualTimeout(default, user) ==
    CASE MaxRequestTimeout = NoLimit /\ user = NoLimit -> default
      [] MaxRequestTimeout = NoLimit /\ user # NoLimit -> Least(default, user)
      [] MaxRequestTimeout # NoLimit /\ user = NoLimit -> Least(default, MaxRequestTimeout)
      [] OTHER -> Least(user, MaxRequestTimeout)

\* The threads are started one after the other; one that is late is not told from
\* one that is slow, so they start together.  threading.enumerate() leaves out the
\* threads that have ended, for which the join would return at once.
Collected(r) ==
    /\ pc[r] = "collect" /\ cursor[r] > Len(query[r].engines)
    /\ limit' = [limit EXCEPT ![r] = ActualTimeout(@, query[r].timeout_limit)]
    /\ cursor' = [cursor EXCEPT ![r] = 1]
    /\ tpc' = [tpc EXCEPT ![r] = [k \in Slots |->
                  IF k \in DOMAIN asked[r] THEN "asking" ELSE "none"]]
    /\ Goto(r, "join")
    /\ UNCHANGED <<now, ban, query, start, asked, boxVars, lock, flagged, answer, place,
                   found, cause>>

Overdue(r) == now >= start[r] + limit[r]

JoinEnded(r) ==
    /\ pc[r] = "join" /\ cursor[r] <= Len(asked[r])
    /\ tpc[r][cursor[r]] = "ended"
    /\ cursor' = [cursor EXCEPT ![r] = @ + 1]
    /\ UNCHANGED <<now, ban, pc, query, start, limit, asked, boxVars, lock, threadVars>>

\* Mutant of JoinGivesUp: the engine is not reported, which its thread is left to do.
JoinGivesUpSilently(r) ==
    /\ pc[r] = "join" /\ cursor[r] <= Len(asked[r]) /\ Overdue(r) /\ Free(r)
    /\ tpc[r][cursor[r]] # "ended"
    /\ flagged' = [flagged EXCEPT ![r][cursor[r]] = TRUE]
    /\ cursor' = [cursor EXCEPT ![r] = @ + 1]
    /\ UNCHANGED <<now, ban, pc, query, start, limit, asked, boxVars, lock, tpc, answer,
                   place, found, cause>>

\* Mutant of JoinGivesUp: the thread is not told.
JoinGivesUpUnflagged(r) ==
    /\ pc[r] = "join" /\ cursor[r] <= Len(asked[r]) /\ Overdue(r) /\ Free(r)
    /\ tpc[r][cursor[r]] # "ended"
    /\ Blame(r, asked[r][cursor[r]], "timeout")
    /\ cursor' = [cursor EXCEPT ![r] = @ + 1]
    /\ UNCHANGED <<now, ban, pc, query, start, limit, asked, closed, results, boxes,
                   timings, before, shown, lock, threadVars>>

\* Mutant of JoinGivesUp: th.join has no timeout.
JoinWithoutTimeout(r) ==
    /\ pc[r] = "join" /\ cursor[r] <= Len(asked[r]) /\ Overdue(r)
    /\ tpc[r][cursor[r]] = "ended"
    /\ cursor' = [cursor EXCEPT ![r] = @ + 1]
    /\ UNCHANGED <<now, ban, pc, query, start, limit, asked, boxVars, lock, threadVars>>

\* th.join returns because the time is up, and the thread is alive: the flag is
\* set, which the thread may have read already, and the engine is reported.
JoinGivesUp(r) ==
    /\ pc[r] = "join" /\ cursor[r] <= Len(asked[r]) /\ Overdue(r) /\ Free(r)
    /\ tpc[r][cursor[r]] # "ended"
    /\ flagged' = [flagged EXCEPT ![r][cursor[r]] = TRUE]
    /\ Blame(r, asked[r][cursor[r]], "timeout")
    /\ cursor' = [cursor EXCEPT ![r] = @ + 1]
    /\ UNCHANGED <<now, ban, pc, query, start, limit, asked, closed, results, boxes,
                   timings, before, shown, lock, tpc, answer, place, found, cause>>

\* ResultContainer.close, without the lock: the flag is set, and the loops begin.
Close(r) ==
    /\ pc[r] = "join" /\ cursor[r] > Len(asked[r])
    /\ closed' = [closed EXCEPT ![r] = TRUE]
    /\ before' = [before EXCEPT ![r] = results[r]]
    /\ Goto(r, "score")
    /\ UNCHANGED <<now, ban, query, start, limit, cursor, asked, results, boxes,
                   unresponsive, timings, shown, lock, threadVars>>

\* The names in the `engines' of an item that was entered by these entries.
Names(r, entries) == {asked[r][entry[1]] : entry \in entries}

\* The loops are done: `close' goes over the values of the map, and it and
\* calculate_score over the `engines' of each.  A key that is entered while the outer
\* loop runs, or a name that is added while an inner one does (as
\* merge_two_main_results may), makes it raise RuntimeError, and webapp.search answers
\* "search error".  What is entered before its loop began, or after, does no harm.
Score(r) ==
    /\ pc[r] = "score"
    /\ \/ Goto(r, "timings")
       \/ /\ \E i \in Items : Names(r, results[r][i]) # Names(r, before[r][i])
          /\ Goto(r, "failed")
    /\ UNCHANGED <<now, ban, query, start, limit, cursor, asked, boxVars, lock, threadVars>>

\* Mutant of Show: get_timings does not take the lock.
ShowAtOnce(r) ==
    /\ pc[r] = "timings"
    /\ shown' = [shown EXCEPT ![r] = Present(r)]
    /\ Goto(r, "served")
    /\ UNCHANGED <<now, ban, query, start, limit, cursor, asked, closed, results, boxes,
                   unresponsive, timings, before, lock, threadVars>>

\* webapp.search calls get_timings, which waits for the lock, before it shows
\* anything; get_ordered_results then sorts the map as it is, and later calls
\* return this list.
Show(r) ==
    /\ pc[r] = "timings" /\ Free(r)
    /\ shown' = [shown EXCEPT ![r] = Present(r)]
    /\ Goto(r, "served")
    /\ UNCHANGED <<now, ban, query, start, limit, cursor, asked, closed, results, boxes,
                   unresponsive, timings, before, lock, threadVars>>

Flask(r) ==
    \/ Begin(r) \/ BeginElsewhere(r) \/ Collect(r) \/ Collected(r)
    \/ JoinEnded(r) \/ JoinGivesUp(r) \/ Close(r) \/ Score(r) \/ Show(r)

-----------------------------------------------------------------------------
(* The thread of slot k: OnlineProcessor.search and OfflineProcessor.search. *)

ThreadGoto(r, k, l) == tpc' = [tpc EXCEPT ![r][k] = l]

\* extend_container reads the flag of the thread once, when the engine has answered:
\* a thread that was given up reports a timeout, else it goes on to l.
ReadFlag(r, k, l, why) ==
    /\ ThreadGoto(r, k, IF flagged[r][k] THEN "failing" ELSE l)
    /\ cause' = [cause EXCEPT ![r][k] = IF flagged[r][k] THEN "timeout" ELSE why]
    /\ UNCHANGED <<now, ban, mainVars, boxVars, lock, flagged, place, found>>

\* The engine comes back, with an outcome it is capable of.
Comes(r, k, outcome) == tpc[r][k] = "asking" /\ outcome \in Outcomes[asked[r][k]]

AnswerList(r, k) ==
    /\ Comes(r, k, "list")
    /\ \E list \in Answers[asked[r][k]] : answer' = [answer EXCEPT ![r][k] = list]
    /\ ReadFlag(r, k, "extending", "list")

\* The request function leaves params["url"] empty: _search_basic returns None.
AnswerNone(r, k) ==
    /\ Comes(r, k, "none")
    /\ ReadFlag(r, k, "lifting", "none")
    /\ UNCHANGED answer

\* The ladder of except clauses: a TLS error, a timeout, an HTTP error, a captcha,
\* "too many requests" and "access denied" ban the network of an online engine,
\* any other exception does not.
AnswerFails(r, k) ==
    /\ \E c \in {"error", "banning"} :
          Comes(r, k, c) /\ cause' = [cause EXCEPT ![r][k] = c]
    /\ ThreadGoto(r, k, "failing")
    /\ UNCHANGED <<now, ban, mainVars, boxVars, lock, flagged, answer, place, found>>

\* An offline engine that raises ValueError is not recorded.
AnswerInvalid(r, k) ==
    /\ Comes(r, k, "invalid")
    /\ cause' = [cause EXCEPT ![r][k] = "invalid"]
    /\ ThreadGoto(r, k, "ended")
    /\ UNCHANGED <<now, ban, mainVars, boxVars, lock, flagged, answer, place, found>>

\* ResultContainer.extend: `_closed' is read once, before the loop.
ReadClosed(r, k) ==
    /\ tpc[r][k] = "extending"
    /\ ThreadGoto(r, k, IF closed[r] THEN "ignored" ELSE "merging")
    /\ UNCHANGED <<now, ban, mainVars, boxVars, lock, flagged, answer, place, found, cause>>

This(r, k) == answer[r][k][place[r][k]]
More(r, k) == place[r][k] <= Len(answer[r][k])

\* Mutant of Lookup: the item is looked up without the lock.
LookupUnlocked(r, k) ==
    /\ tpc[r][k] = "merging" /\ More(r, k) /\ This(r, k) \in Items
    /\ found' = [found EXCEPT ![r][k] = results[r][This(r, k)] # {}]
    /\ ThreadGoto(r, k, "storing")
    /\ UNCHANGED <<now, ban, mainVars, boxVars, lock, flagged, answer, place, cause>>

\* _merge_main_result: the lookup, under the lock.
Lookup(r, k) ==
    /\ tpc[r][k] = "merging" /\ More(r, k) /\ This(r, k) \in Items /\ Free(r)
    /\ lock' = [lock EXCEPT ![r] = k]
    /\ found' = [found EXCEPT ![r][k] = results[r][This(r, k)] # {}]
    /\ ThreadGoto(r, k, "storing")
    /\ UNCHANGED <<now, ban, mainVars, boxVars, flagged, answer, place, cause>>

\* _merge_main_result: a new item is entered, a known one gets the new position.
Store(r, k) ==
    /\ tpc[r][k] = "storing"
    /\ results' = [results EXCEPT ![r][This(r, k)] =
                      IF found[r][k] THEN @ \cup {<<k, place[r][k]>>} ELSE {<<k, place[r][k]>>}]
    /\ lock' = [lock EXCEPT ![r] = Nobody]
    /\ place' = [place EXCEPT ![r][k] = @ + 1]
    /\ ThreadGoto(r, k, "merging")
    /\ UNCHANGED <<now, ban, mainVars, closed, boxes, unresponsive, timings, before, shown,
                   flagged, answer, found, cause>>

\* _merge_infobox under the lock: merged at once into a box of the same id.
LookupBox(r, k) ==
    /\ tpc[r][k] = "merging" /\ More(r, k) /\ This(r, k) \in Infoboxes /\ Free(r)
    /\ LET same == {b \in DOMAIN boxes[r] : boxes[r][b].id = This(r, k)}
       IN  /\ boxes' = [boxes EXCEPT ![r] = [b \in DOMAIN boxes[r] |->
                IF b \in same THEN [boxes[r][b] EXCEPT !.slots = @ \cup {k}] ELSE boxes[r][b]]]
           /\ ThreadGoto(r, k, IF same = {} THEN "boxing" ELSE "merging")
           /\ place' = IF same = {} THEN place ELSE [place EXCEPT ![r][k] = @ + 1]
    /\ UNCHANGED <<now, ban, mainVars, closed, results, unresponsive, timings, before, shown,
                   lock, flagged, answer, found, cause>>

\* _merge_infobox after the lock was released: no box of this id was found.
AppendBox(r, k) ==
    /\ tpc[r][k] = "boxing"
    /\ boxes' = [boxes EXCEPT ![r] = Append(@, [id |-> This(r, k), slots |-> {k}])]
    /\ place' = [place EXCEPT ![r][k] = @ + 1]
    /\ ThreadGoto(r, k, "merging")
    /\ UNCHANGED <<now, ban, mainVars, closed, results, unresponsive, timings, before, shown,
                   lock, flagged, answer, found, cause>>

\* A result that cannot be normalised or hashed: what was merged before it stays
\* merged.  The failure is reported, unless an offline engine fails by a ValueError:
\* "do not record the error" (offline.py 27-32, online.py 281-282).
MergeRaises(r, k) ==
    /\ tpc[r][k] = "merging" /\ More(r, k)
    /\ \/ /\ cause' = [cause EXCEPT ![r][k] = "error"]
          /\ ThreadGoto(r, k, "failing")
       \/ /\ asked[r][k] \in Offline
          /\ cause' = [cause EXCEPT ![r][k] = "invalid"]
          /\ ThreadGoto(r, k, "ended")
    /\ UNCHANGED <<now, ban, mainVars, boxVars, lock, flagged, answer, place, found>>

\* add_timing and add_unresponsive_engine check `_closed' under the lock, which
\* does not keep `close' from setting it between the check and the entry.
CheckOpen(r, k, open, shut) ==
    /\ Free(r)
    /\ ThreadGoto(r, k, IF closed[r] THEN shut ELSE open)
    /\ lock' = IF closed[r] THEN lock ELSE [lock EXCEPT ![r] = k]
    /\ UNCHANGED <<now, ban, mainVars, boxVars, flagged, answer, place, found, cause>>

AddTiming(r, k) ==
    /\ \/ tpc[r][k] = "ignored"
       \/ tpc[r][k] = "merging" /\ ~More(r, k)
    /\ CheckOpen(r, k, "recording", "lifting")

AddUnresponsive(r, k) ==
    /\ tpc[r][k] = "failing"
    /\ CheckOpen(r, k, "reporting", "striking")

RecordTiming(r, k) ==
    /\ tpc[r][k] = "recording"
    /\ timings' = [timings EXCEPT ![r] = @ \cup {k}]
    /\ lock' = [lock EXCEPT ![r] = Nobody]
    /\ ThreadGoto(r, k, "lifting")
    /\ UNCHANGED <<now, ban, mainVars, closed, results, boxes, unresponsive, before, shown,
                   flagged, answer, place, found, cause>>

\* handle_exception: the report.
ReportFailure(r, k) ==
    /\ tpc[r][k] = "reporting"
    /\ Blame(r, asked[r][k], IF cause[r][k] = "timeout" THEN "timeout" ELSE "error")
    /\ lock' = [lock EXCEPT ![r] = Nobody]
    /\ ThreadGoto(r, k, "striking")
    /\ UNCHANGED <<now, ban, mainVars, closed, results, boxes, timings, before, shown,
                   flagged, answer, place, found, cause>>

\* handle_exception: SuspendedStatus.suspend, for the failures that ban.
Suspend(r, k) ==
    /\ tpc[r][k] = "striking"
    /\ ban' = IF cause[r][k] = "banning" THEN [ban EXCEPT ![NetworkOf[asked[r][k]]] = now + BanTime]
              ELSE ban
    /\ ThreadGoto(r, k, "ended")
    /\ UNCHANGED <<now, mainVars, boxVars, lock, flagged, answer, place, found, cause>>

\* extend_container: SuspendedStatus.resume, whoever set the ban.
Resume(r, k) ==
    /\ tpc[r][k] = "lifting"
    /\ ban' = [ban EXCEPT ![NetworkOf[asked[r][k]]] = 0]
    /\ ThreadGoto(r, k, "ended")
    /\ UNCHANGED <<now, mainVars, boxVars, lock, flagged, answer, place, found, cause>>

\* The steps in which a thread holds the lock.
UnderLock(r, k) == Store(r, k) \/ RecordTiming(r, k) \/ ReportFailure(r, k)

Thread(r, k) ==
    \/ AnswerList(r, k) \/ AnswerNone(r, k) \/ AnswerFails(r, k) \/ AnswerInvalid(r, k)
    \/ ReadClosed(r, k) \/ Lookup(r, k) \/ LookupBox(r, k) \/ AppendBox(r, k)
    \/ MergeRaises(r, k) \/ AddTiming(r, k) \/ AddUnresponsive(r, k)
    \/ UnderLock(r, k) \/ Suspend(r, k) \/ Resume(r, k)

Tick ==
    /\ now < MaxTime
    /\ now' = now + 1
    /\ UNCHANGED <<ban, mainVars, boxVars, lock, threadVars>>

\* Every request is answered: what threads are left may never come back.
Finished ==
    /\ \A r \in Requests : pc[r] \in {"idle", "served", "failed"}
    /\ UNCHANGED vars

Next ==
    \/ \E r \in Requests : Flask(r)
    \/ \E r \in Requests, k \in Slots : Thread(r, k)
    \/ Tick
    \/ Finished

\* The Flask threads run and time passes; a thread that holds a lock gives it
\* back.  Nothing is assumed of an engine: it may never answer.
Fairness ==
    /\ \A r \in Requests : WF_vars(Flask(r))
    /\ \A r \in Requests, k \in Slots : WF_vars(UnderLock(r, k))
    /\ WF_vars(Tick)

Spec == Init /\ [][Next]_vars /\ Fairness

-----------------------------------------------------------------------------
(* Properties. *)

ThreadStates == {"none", "asking", "extending", "ignored", "merging", "storing", "boxing",
    "failing", "recording", "reporting", "striking", "lifting", "ended"}

Holding == {"storing", "recording", "reporting"}

Errors == {"suspended", "timeout", "error"}

TypeOK ==
    /\ now \in Nat /\ ban \in [Networks -> Nat]
    /\ pc \in [Requests -> {"idle", "collect", "join", "score", "timings", "served", "failed"}]
    /\ query \in [Requests -> QueryType]
    /\ start \in [Requests -> Nat] /\ limit \in [Requests -> Nat]
    /\ cursor \in [Requests -> Nat \ {0}] /\ asked \in [Requests -> Seq(Engines)]
    /\ closed \in [Requests -> BOOLEAN]
    /\ results \in [Requests -> [Items -> SUBSET (Slots \X (Nat \ {0}))]]
    /\ before \in [Requests -> [Items -> SUBSET (Slots \X (Nat \ {0}))]]
    /\ boxes \in [Requests -> Seq([id : Infoboxes, slots : SUBSET Slots])]
    /\ unresponsive \in [Requests -> SUBSET [engine : Engines, error : Errors]]
    /\ timings \in [Requests -> SUBSET Slots] /\ shown \in [Requests -> SUBSET Items]
    /\ lock \in [Requests -> Slots \cup {Nobody}]
    /\ tpc \in [Requests -> [Slots -> ThreadStates]]
    /\ flagged \in [Requests -> [Slots -> BOOLEAN]]
    /\ answer \in [Requests -> [Slots -> Seq(Items \cup Infoboxes)]]
    /\ place \in [Requests -> [Slots -> Nat \ {0}]]
    /\ found \in [Requests -> [Slots -> BOOLEAN]]
    /\ cause \in [Requests -> [Slots -> {"list", "none", "invalid", "timeout", "error", "banning"}]]

\* The engine of a slot is named among the unresponsive ones.
Blamed(r, e) == \E u \in unresponsive[r] : u.engine = e

\* When the container is closed no asked engine is missing from the report: it
\* has delivered, is named as unresponsive, or was not asked over the network after
\* all.  Two threads decide that, and the one that was given up may still be running.
\* Only an offline engine that raised ValueError leaves no trace, though a part of its
\* results may be on the page (offline.py 27-29).
EveryEngineIsAccountedFor ==
    \A r \in Requests : pc[r] \in {"score", "timings", "served"} =>
        \A k \in DOMAIN asked[r] :
            \/ k \in timings[r]
            \/ asked[r][k] \in Quiet \/ Blamed(r, asked[r][k])
            \/ cause[r][k] = "none" /\ answer[r][k] = <<>>
            \/ cause[r][k] = "invalid" /\ asked[r][k] \in Offline

\* Whatever an engine delivered is in the container at the position it gave it,
\* however the threads interleave that merge the same result, and its items are on
\* the page that is shown.
DeliveredIsKept ==
    \A r \in Requests : \A k \in timings[r] : \A p \in DOMAIN answer[r][k] :
        LET i == answer[r][k][p] IN
        IF i \in Items
        THEN <<k, p>> \in results[r][i] /\ (pc[r] = "served" => i \in shown[r])
        ELSE \E b \in DOMAIN boxes[r] : boxes[r][b].id = i /\ k \in boxes[r][b].slots

\* "search error" has one cause here: while the container was being closed, an engine
\* the search had already given up entered a result, a new one or one that was known.
OnlyALateResultBreaksTheSearch ==
    \A r \in Requests : pc[r] = "failed" =>
        \E i \in Items : \E entry \in results[r][i] \ before[r][i] : flagged[r][entry[1]]

\* What is shown of the engines does not change under the page that is rendered,
\* though an engine thread may have found the container open just before it closed.
ReportIsFrozen ==
    [][\A r \in Requests : pc[r] = "served" =>
          UNCHANGED <<unresponsive[r], timings[r]>>]_vars

\* How a search is seen by its user.
Stage(r) ==
    CASE pc[r] = "idle" -> "idle"
      [] pc[r] = "collect" -> "choosing"
      [] pc[r] = "join" -> "waiting"
      [] pc[r] = "score" -> "ended"
      [] pc[r] = "timings" -> "scored"
      [] pc[r] = "served" -> "shown"
      [] pc[r] = "failed" -> "failed"

GivenUp(r) == {k \in Slots : flagged[r][k]}

\* The slots whose engine came to its end without a word, as nothing was asked of it
\* or as its failure is not recorded.
SaidNothing(r) ==
    {k \in Slots : cause[r][k] \in {"none", "invalid"} /\ tpc[r][k] \in {"lifting", "ended"}}

Named(r) == {u.engine : u \in unresponsive[r]}

Places == UNION {DOMAIN list : list \in UNION {Answers[e] : e \in Engines}}

Survey(r) == INSTANCE EngineSurvey WITH
    stage     <- Stage(r),
    asked     <- asked[r],
    given     <- GivenUp(r),
    delivered <- timings[r],
    silent    <- SaidNothing(r),
    told      <- Named(r),
    entries   <- results[r],
    before    <- before[r],
    page      <- shown[r]

\* However the Flask thread and the engine threads of a search interleave, on the
\* container they share and with those of other searches, it keeps EngineSurvey's
\* promise: no entry is overwritten, the wait ends when every engine is settled, only
\* the threads that were given up enter anything later (searx/results.py 81-331).
ImplementsSurvey ==
    /\ \A r \in Requests : Survey(r)!Init
    /\ [][\A r \in Requests : Survey(r)!Next \/ UNCHANGED Survey(r)!vars]_vars

\* A request that began is answered, though an engine may never come back.
RequestsEnd ==
    \A r \in Requests : (pc[r] # "idle") ~> (pc[r] \in {"served", "failed"})

\* What is left to do for the Flask thread: the engines to look at, the threads to
\* wait for, and the steps after them.
Remaining(r) ==
    CASE pc[r] = "idle"    -> 2 * Len(query[r].engines) + 7
      [] pc[r] = "collect" -> 2 * Len(query[r].engines) + 6 - cursor[r]
      [] pc[r] = "join"    -> Len(asked[r]) + 4 - cursor[r]
      [] pc[r] = "score"   -> 2
      [] pc[r] = "timings" -> 1
      [] OTHER             -> 0

\* The Flask thread of a search has boundedly many steps to do, whatever the engines
\* answer, and none of their threads, nor another search, adds to them.
SearchesAdvance ==
    [][\A r \in Requests :
          IF Flask(r) THEN Remaining(r)' \in Nat /\ Remaining(r)' < Remaining(r)
          ELSE Remaining(r)' = Remaining(r)]_vars

\* The class comment of ResultContainer: "duplicates will be merged".
InfoboxesAreMerged ==
    \A r \in Requests : \A a, b \in DOMAIN boxes[r] :
        boxes[r][a].id = boxes[r][b].id => a = b

\* "container is closed, ignoring results"
ClosedIsClosed ==
    [][\A r \in Requests : closed[r] => UNCHANGED results[r]]_vars
=============================================================================
