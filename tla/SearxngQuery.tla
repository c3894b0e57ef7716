----------------------------- MODULE SearxngQuery -----------------------------
(* The search backend of one Flask process (search/results.py): request    *)
(* threads that share the TTL cache, ask the local SearXNG, then the       *)
(* external one, each twice, and fall back on Brave and Bing through the   *)
(* Cloudflare worker.                                                      *)
(*                                                                         *)
(* A request is what search_web, search_images, ... pass to                *)
(* _query_searxng: every entry point builds params no other one builds, so *)
(* the entry point, the query and the page are the cache key.              *)
EXTENDS Naturals, Sequences, FiniteSets, Functions

CONSTANTS
    Threads,        \* request threads of the Flask server
    Requests,       \* the requests: records [caller, q, page]
    Instances,      \* _get_instances(): <<"local">> or <<"local", "external">>
    UseProxy,       \* _USE_PROXY: a PROXY_WORKER_URL is configured
    CacheTtl,       \* _CACHE_TTL, 300 seconds
    CacheLimit,     \* 300: above it _cache_set evicts
    MaxRetries,     \* _MAX_RETRIES, 2 in the code
    BootPolls,      \* polls of the local instance before the query goes on, 6 in the code
    MaxTime,        \* bound: the clock stops here
    None            \* Python's None

Callers == {"web", "images", "first_image", "videos", "news", "wiki"}
Sources == {"local", "external", "brave", "bing"}
Kinds   == {"web", "images", "videos", "news"}

ASSUME QueryAssumption ==
    /\ \A r \in Requests : r.caller \in Callers
    /\ Instances \in {<<"local">>, <<"local", "external">>}
    /\ UseProxy \in BOOLEAN
    /\ CacheTtl \in Nat /\ CacheLimit \in Nat /\ MaxTime \in Nat
    /\ MaxRetries \in Nat \ {0} /\ BootPolls \in Nat \ {0}

\* The category a caller asks for.
KindOf(r) ==
    CASE r.caller \in {"web", "wiki"} -> "web"
      [] r.caller \in {"images", "first_image"} -> "images"
      [] OTHER -> r.caller

(* A response: where it comes from, the query and page it answers, what    *)
(* its results are and whether it has any.                                 *)
SearxngData(source, r, full) ==
    [source |-> source, q |-> r.q, page |-> r.page, kind |-> KindOf(r), full |-> full]

\* Brave's and Bing's pages are fetched without a page number.
BraveData(r) == [source |-> "brave", q |-> r.q, page |-> 1, kind |-> "web", full |-> TRUE]
BingData(r) == [source |-> "bing", q |-> r.q, page |-> 1, kind |-> "images", full |-> TRUE]

Data == [source : Sources, q : {r.q : r \in Requests},
         page : {r.page : r \in Requests} \cup {1}, kind : Kinds, full : BOOLEAN]

Entry == [data : Data, ts : Nat]

\* None is no request, no response and no entry.
ASSUME NoneAssumption == None \notin Requests /\ None \notin Data /\ None \notin Entry

VARIABLES
    now,      \* time.monotonic()
    cache,    \* _cache: a function from the requests that have an entry
    localUp,  \* the local SearXNG answers
    pc,       \* pc[t]: the step of thread t
    req,      \* req[t]: the params of its request
    polls,    \* polls[t]: health checks made while SearXNG boots
    seen,     \* seen[t]: the entry _cache_get read under the lock
    instance, \* instance[t]: the index of the instance the outer loop is at
    attempt,  \* attempt[t]: the attempts made at it
    tried,    \* tried[t]: how often each instance was asked; no step reads it
    last,     \* last[t]: the last valid response
    reply,    \* reply[t]: what the caller gets
    since     \* since[t]: when the request arrived

local == <<pc, req, polls, seen, instance, attempt, tried, last, reply, since>>
vars  == <<now, cache, localUp, local>>

Steps == {"idle", "ensure", "boot", "lookup", "age", "pop", "fetch",
          "store", "direct", "answer", "done"}

TypeOK ==
    /\ now \in 0..MaxTime
    /\ DOMAIN cache \subseteq Requests
    /\ cache \in [DOMAIN cache -> Entry]
    /\ localUp \in BOOLEAN
    /\ pc \in [Threads -> Steps]
    /\ req \in [Threads -> Requests \cup {None}]
    /\ polls \in [Threads -> 0..(BootPolls - 1)]
    /\ seen \in [Threads -> Entry \cup {None}]
    /\ instance \in [Threads -> 1..(Len(Instances) + 1)]
    /\ attempt \in [Threads -> 0..(MaxRetries - 1)]
    /\ tried \in [Threads -> [DOMAIN Instances -> Nat]]
    /\ last \in [Threads -> Data \cup {None}]
    /\ reply \in [Threads -> Data \cup {None}]
    /\ since \in [Threads -> 0..MaxTime]

NotTried == [i \in DOMAIN Instances |-> 0]

Init ==
    /\ now = 0
    /\ cache = <<>>
    /\ localUp \in BOOLEAN
    /\ pc = [t \in Threads |-> "idle"]
    /\ req = [t \in Threads |-> None]
    /\ polls = [t \in Threads |-> 0]
    /\ seen = [t \in Threads |-> None]
    /\ instance = [t \in Threads |-> 1]
    /\ attempt = [t \in Threads |-> 0]
    /\ tried = [t \in Threads |-> NotTried]
    /\ last = [t \in Threads |-> None]
    /\ reply = [t \in Threads |-> None]
    /\ since = [t \in Threads |-> 0]

-----------------------------------------------------------------------------
(* The surroundings.                                                       *)

Tick ==
    /\ now < MaxTime
    /\ now' = now + 1
    /\ UNCHANGED <<cache, localUp, local>>

\* The local SearXNG dies, or is up again.
LocalChanges ==
    /\ localUp' = ~localUp
    /\ UNCHANGED <<now, cache, local>>

-----------------------------------------------------------------------------
(* The steps of a thread.                                                  *)

Goto(t, step) == pc' = [pc EXCEPT ![t] = step]

Answered(t, data) ==
    /\ reply' = [reply EXCEPT ![t] = data]
    /\ Goto(t, "answer")

\* A route calls search_web, search_images, ...
Request(t, r) ==
    /\ pc[t] = "idle"
    /\ Goto(t, "ensure")
    /\ req' = [req EXCEPT ![t] = r]
    /\ since' = [since EXCEPT ![t] = now]
    /\ UNCHANGED <<now, cache, localUp, polls, seen, instance, attempt, tried, last, reply>>

(* _ensure_local_searxng_started(): nothing to do when the instance is up, *)
(* or start_searxng() and the polls.  The first check has 0.3 seconds, so  *)
(* it may fail on an instance that is up; when start_searxng() raises the  *)
(* query goes on without a poll.                                           *)
Ensure(t) ==
    /\ pc[t] = "ensure"
    /\ Goto(t, "lookup") \/ Goto(t, "boot")
    /\ UNCHANGED <<now, cache, localUp, req, polls, seen, instance, attempt, tried, last, reply, since>>

\* Mutant of BootPoll: the request waits until SearXNG is up.
BootPollForever(t) ==
    /\ pc[t] = "boot"
    /\ localUp
    /\ Goto(t, "lookup")
    /\ UNCHANGED <<now, cache, localUp, req, polls, seen, instance, attempt, tried, last, reply, since>>

BootPoll(t) ==
    /\ pc[t] = "boot"
    /\ \/ /\ localUp \/ polls[t] + 1 = BootPolls
          /\ Goto(t, "lookup")
          /\ polls' = [polls EXCEPT ![t] = 0]
       \/ /\ polls[t] + 1 < BootPolls
          /\ polls' = [polls EXCEPT ![t] = @ + 1]
          /\ UNCHANGED pc
    /\ UNCHANGED <<now, cache, localUp, req, seen, instance, attempt, tried, last, reply, since>>

\* Mutant of Lookup: the key does not tell the requests apart.
LookupAnyKey(t) ==
    /\ pc[t] = "lookup"
    /\ IF cache # <<>>
       THEN /\ \E k \in DOMAIN cache : seen' = [seen EXCEPT ![t] = cache[k]]
            /\ Goto(t, "age")
       ELSE UNCHANGED seen /\ Goto(t, "fetch")
    /\ UNCHANGED <<now, cache, localUp, req, polls, instance, attempt, tried, last, reply, since>>

\* _cache_get: the entry is read under the lock.
Lookup(t) ==
    /\ pc[t] = "lookup"
    /\ IF req[t] \in DOMAIN cache
       THEN seen' = [seen EXCEPT ![t] = cache[req[t]]] /\ Goto(t, "age")
       ELSE UNCHANGED seen /\ Goto(t, "fetch")
    /\ UNCHANGED <<now, cache, localUp, req, polls, instance, attempt, tried, last, reply, since>>

\* Mutant of Age: an entry of exactly CacheTtl still counts as fresh.
AgeInclusive(t) ==
    /\ pc[t] = "age"
    /\ IF now - seen[t].ts <= CacheTtl
       THEN Answered(t, seen[t].data)
       ELSE Goto(t, "pop") /\ UNCHANGED reply
    /\ UNCHANGED <<now, cache, localUp, req, polls, seen, instance, attempt, tried, last, since>>

\* Its age is checked outside the lock.
Age(t) ==
    /\ pc[t] = "age"
    /\ IF now - seen[t].ts < CacheTtl
       THEN Answered(t, seen[t].data)
       ELSE Goto(t, "pop") /\ UNCHANGED reply
    /\ UNCHANGED <<now, cache, localUp, req, polls, seen, instance, attempt, tried, last, since>>

\* The key is removed under the lock again, whatever is stored there by now.
Pop(t) ==
    /\ pc[t] = "pop"
    /\ cache' = Restrict(cache, DOMAIN cache \ {req[t]})
    /\ seen' = [seen EXCEPT ![t] = None]
    /\ Goto(t, "fetch")
    /\ UNCHANGED <<now, localUp, req, polls, instance, attempt, tried, last, reply, since>>

\* Mutant of NextAttempt: the loop ends after the first instance.
NextAttemptFirstOnly(t) ==
    /\ IF attempt[t] + 1 < MaxRetries
       THEN attempt' = [attempt EXCEPT ![t] = @ + 1] /\ Goto(t, "fetch")
       ELSE attempt' = [attempt EXCEPT ![t] = 0] /\ Goto(t, "direct")
    /\ UNCHANGED instance

\* The next attempt at the instance, the next instance, or the end of the loops.
NextAttempt(t) ==
    IF attempt[t] + 1 < MaxRetries
    THEN /\ attempt' = [attempt EXCEPT ![t] = @ + 1]
         /\ Goto(t, "fetch")
         /\ UNCHANGED instance
    ELSE /\ attempt' = [attempt EXCEPT ![t] = 0]
         /\ instance' = [instance EXCEPT ![t] = @ + 1]
         /\ Goto(t, IF instance[t] = Len(Instances) THEN "direct" ELSE "fetch")

\* What the instance of t returns, with results or without.
Response(t, full) == SearxngData(Instances[instance[t]], req[t], full)

\* One more request to the instance of t.
Asking(t) == tried' = [tried EXCEPT ![t][instance[t]] = @ + 1]

\* Mutant of Fetch: any valid response is stored, one without results too.
FetchStoresAny(t) ==
    /\ pc[t] = "fetch"
    /\ \E full \in BOOLEAN : reply' = [reply EXCEPT ![t] = Response(t, full)]
    /\ Goto(t, "store")
    /\ Asking(t)
    /\ UNCHANGED <<now, cache, localUp, req, polls, seen, instance, attempt, last, since>>

\* Mutant of Fetch: a failed attempt forgets the response of the one before.
FetchForgets(t) ==
    /\ pc[t] = "fetch"
    /\ \/ last' = [last EXCEPT ![t] = Response(t, FALSE)]
       \/ last' = [last EXCEPT ![t] = None]
    /\ NextAttempt(t)
    /\ Asking(t)
    /\ UNCHANGED <<now, cache, localUp, req, polls, seen, reply, since>>

(* _fetch_instance() gives a response with results, one without any, or    *)
(* None; the local instance answers only while it is up.                   *)
FetchResults(t) ==
    /\ Instances[instance[t]] = "local" => localUp
    /\ reply' = [reply EXCEPT ![t] = Response(t, TRUE)]
    /\ Goto(t, "store")
    /\ UNCHANGED <<instance, attempt, last>>

FetchEmpty(t) ==
    /\ Instances[instance[t]] = "local" => localUp
    /\ last' = [last EXCEPT ![t] = Response(t, FALSE)]
    /\ NextAttempt(t)
    /\ UNCHANGED reply

FetchFails(t) ==
    /\ NextAttempt(t)
    /\ UNCHANGED <<last, reply>>

Fetch(t) ==
    /\ pc[t] = "fetch"
    /\ Asking(t)
    /\ FetchResults(t) \/ FetchEmpty(t) \/ FetchFails(t)
    /\ UNCHANGED <<now, cache, localUp, req, polls, seen, since>>

\* _search_direct_via_proxy(); without it the caller gets the last response.
Direct(t) ==
    /\ pc[t] = "direct"
    /\ \/ /\ UseProxy
          /\ reply' = [reply EXCEPT ![t] = BraveData(req[t])]
          /\ Goto(t, "store")
       \/ Answered(t, last[t])
    /\ UNCHANGED <<now, cache, localUp, req, polls, seen, instance, attempt, tried, last, since>>

\* Mutant of Evicted: an entry of exactly CacheTtl counts as fresh.
EvictedInclusive == {k \in DOMAIN cache :
                        Cardinality(DOMAIN cache) > CacheLimit /\ now - cache[k].ts > CacheTtl}

\* The entries _cache_set drops: the stale ones, once the cache is too large.
Evicted == {k \in DOMAIN cache :
                Cardinality(DOMAIN cache) > CacheLimit /\ now - cache[k].ts >= CacheTtl}

\* _cache_set() of the thread's reply.
Store(t) ==
    /\ pc[t] = "store"
    /\ cache' = [k \in (DOMAIN cache \ Evicted) \cup {req[t]} |->
                    IF k = req[t] THEN [data |-> reply[t], ts |-> now] ELSE cache[k]]
    /\ Goto(t, "answer")
    /\ UNCHANGED <<now, localUp, req, polls, seen, instance, attempt, tried, last, reply, since>>

(* The caller: the locals of _query_searxng are gone.  search_images asks  *)
(* Bing when there are no results, and takes its answer, None too, for the *)
(* one it had.                                                             *)
Answer(t) ==
    /\ pc[t] = "answer"
    /\ IF req[t].caller = "images" /\ (reply[t] = None \/ ~reply[t].full)
       THEN \/ UseProxy /\ reply' = [reply EXCEPT ![t] = BingData(req[t])]
            \/ reply' = [reply EXCEPT ![t] = None]
       ELSE UNCHANGED reply
    /\ Goto(t, "done")
    /\ instance' = [instance EXCEPT ![t] = 1]
    /\ attempt' = [attempt EXCEPT ![t] = 0]
    /\ tried' = [tried EXCEPT ![t] = NotTried]
    /\ last' = [last EXCEPT ![t] = None]
    /\ UNCHANGED <<now, cache, localUp, req, polls, seen, since>>

\* The response is sent and the thread takes the next request.
Done(t) ==
    /\ pc[t] = "done"
    /\ Goto(t, "idle")
    /\ req' = [req EXCEPT ![t] = None]
    /\ seen' = [seen EXCEPT ![t] = None]
    /\ reply' = [reply EXCEPT ![t] = None]
    /\ since' = [since EXCEPT ![t] = 0]
    /\ UNCHANGED <<now, cache, localUp, polls, instance, attempt, tried, last>>

Step(t) ==
    \/ Ensure(t) \/ BootPoll(t) \/ Lookup(t) \/ Age(t) \/ Pop(t) \/ Fetch(t)
    \/ Direct(t) \/ Store(t) \/ Answer(t) \/ Done(t)

Next ==
    \/ Tick
    \/ LocalChanges
    \/ \E t \in Threads : Step(t) \/ \E r \in Requests : Request(t, r)

Spec == Init /\ [][Next]_vars

\* A thread runs on once it has a request: every fetch has a timeout.
FairSpec == Spec /\ \A t \in Threads : WF_vars(Step(t))

-----------------------------------------------------------------------------
(* Safety.                                                                 *)

(* "Only responses with actual results are cached" (results.py:328): an    *)
(* empty response is never served from the cache.                          *)
OnlyResultsAreCached ==
    /\ \A k \in DOMAIN cache : cache[k].data.full
    /\ \A t \in Threads : seen[t] # None => seen[t].data.full

(* The cache never hands one query's results to another: what is stored    *)
(* under a key, and what a caller gets, answers that query, and SearXNG's  *)
(* answers are for the very page and category that was asked for.          *)
Answers(data, r) ==
    /\ data.q = r.q
    /\ data.source \in {"local", "external"} => data.page = r.page /\ data.kind = KindOf(r)

AnswersMatch ==
    /\ \A k \in DOMAIN cache : Answers(cache[k].data, k)
    /\ \A t \in Threads : reply[t] # None => Answers(reply[t], req[t])

(* Brave and Bing are the last resort: a request gets an answer of theirs   *)
(* only from the cache, or after each configured instance, the external    *)
(* one too, was asked MaxRetries times without a result.                   *)
DirectIsLastResort ==
    [][\A t \in Threads :
          reply'[t] \notin {reply[t], None} /\ reply'[t].source \in {"brave", "bing"} =>
              \/ seen[t] # None
              \/ \A i \in DOMAIN Instances : tried[t][i] = MaxRetries]_vars

(* Once an instance gave a valid response, the query ends with one: a later *)
(* failure does not turn "SearXNG reachable but no results" into "SearXNG  *)
(* down" (results.py:374-375).                                             *)
ValidResponseIsKept ==
    [][\A t \in Threads : last[t] # None /\ pc[t] # "answer" =>
          /\ last'[t] # None
          /\ pc'[t] = "answer" => reply'[t] # None]_vars

(* An answer that comes from the cache was stored less than CacheTtl       *)
(* before the request arrived, however long the thread was suspended       *)
(* between its read and its check.                                         *)
CachedAnswersAreFresh ==
    \A t \in Threads :
        pc[t] = "done" /\ seen[t] # None => seen[t].ts + CacheTtl > since[t]

(* Storing a result never drops a fresh one of another request.            *)
StoreKeepsFresh ==
    [][\A t \in Threads : Store(t) =>
          \A k \in DOMAIN cache :
              now - cache[k].ts < CacheTtl => k \in DOMAIN cache']_vars

\* A cache above its limit holds only what was fresh when something was last
\* put in: expired entries never pile up, however many requests there were,
\* and nothing else bounds it (results.py 121-131).
OnlyFreshExceedTheLimit ==
    [][\A t \in Threads : Store(t) =>
          \/ Cardinality(DOMAIN cache') <= CacheLimit + 1
          \/ \A k \in DOMAIN cache' : k = req[t] \/ now - cache'[k].ts < CacheTtl]_vars

-----------------------------------------------------------------------------
(* The backend implements the cached search.                               *)
Phase(step) ==
    IF step = "store" THEN "found"
    ELSE IF step = "answer" THEN "chosen"
    ELSE IF step \in {"idle", "done"} THEN step
    ELSE "open"

Phases == [t \in Threads |-> Phase(pc[t])]

AnswersTo == [r \in Requests |-> {data \in Data : Answers(data, r)}]
WithResults == {data \in Data : data.full}

Search == INSTANCE CachedSearch WITH
    To     <- AnswersTo,
    Full   <- WithResults,
    Ttl    <- CacheTtl,
    phase  <- Phases,
    asked  <- req,
    offer  <- seen,
    answer <- reply

(* However the threads, their fetches and the clock interleave, callers    *)
(* get what CachedSearch promises: answers to their requests, from the     *)
(* cache only what is fresh, and the results a source gave.                *)
ImplementsSearch == Search!Spec

-----------------------------------------------------------------------------
(* Liveness: every request is answered, with SearXNG up or down.           *)
RequestsEnd == \A t \in Threads : pc[t] = "ensure" ~> pc[t] = "done"

(* What is left to do for a request: at most BootPolls polls, MaxRetries   *)
(* fetches from every instance, and the steps around them.                 *)
FetchesLeft(t) ==
    (Len(Instances) - instance[t]) * MaxRetries + (MaxRetries - attempt[t])

Remaining(t) ==
    CASE pc[t] = "idle"   -> 0
      [] pc[t] = "done"   -> 1
      [] pc[t] = "answer" -> 2
      [] pc[t] = "store"  -> 3
      [] pc[t] = "direct" -> 4
      [] pc[t] = "fetch"  -> 4 + FetchesLeft(t)
      [] pc[t] = "pop"    -> 5 + FetchesLeft(t)
      [] pc[t] = "age"    -> 6 + FetchesLeft(t)
      [] pc[t] = "lookup" -> 7 + FetchesLeft(t)
      [] pc[t] = "boot"   -> 7 + FetchesLeft(t) + (BootPolls - polls[t])
      [] pc[t] = "ensure" -> 8 + FetchesLeft(t) + BootPolls

(* No retry, poll or fallback goes round in circles: every step of the     *)
(* thread brings its request nearer to its answer, and nothing the other   *)
(* threads, the clock or SearXNG do takes it back.                         *)
RequestsAdvance ==
    [][\A t \in Threads :
          /\ Step(t) => Remaining(t)' \in Nat /\ Remaining(t)' < Remaining(t)
          /\ pc[t] # "idle" /\ ~Step(t) => Remaining(t)' = Remaining(t)]_vars

-----------------------------------------------------------------------------
(* What the documentation says and the code does not do.                   *)

(* results.py:104: "thread-safe, 5-minute TTL".  An entry stays until it is *)
(* CacheTtl old.                                                           *)
FreshEntriesStay ==
    [][\A k \in DOMAIN cache :
          now - cache[k].ts < CacheTtl => k \in DOMAIN cache']_vars
=============================================================================
