# A TLA+ verification of Sodeom

Sodeom is a Flask application: a meta search engine that runs its own SearXNG
as a subprocess, serves search pages and placeholder images, and puts an
OpenAI-compatible AI API and a small search agent beside them.  This directory
holds TLA+ models of the parts of it that keep state or run concurrently, of the
two parts of SearXNG every search goes through, the TLC configurations that
check them, and proofs, checked by TLAPS, of every safety and action property
those configurations check, of four refinements, and of why requests end.

## 1. The system

| part | source | state | operations | status |
|---|---|---|---|---|
| SearXNG supervisor | `core/services/searxng.py`, `core/__init__.py` | per process `_SEARXNG_PROC`, `_PROXY_PROC`, daemon threads; shared by all processes: ports 8888 and 8080 | `start_searxng`, `_start_searxng_blocking`, `_start_proxy_blocking`, `_watch`, `stop_searxng` | modelled |
| Search query path and result cache | `search/results.py` | `_cache` under `_cache_lock`; per request the attempts made | `_query_searxng`, `_cache_get`, `_cache_set`, fallbacks | modelled but for the shape of result pages |
| Image store | `core/services/image.py`, `/placeholder` in `core/routes/search.py` | files in `placeholders/` | `install_image`, the loop over candidates, `send_file` | modelled |
| Agentic endpoint | `core/routes/ai.py` 99-159, 385-475 | the conversation of a request; the client's copy | `ai_agent`, `_execute_tool` | modelled |
| Chat API and streaming | `core/routes/ai.py` 162-381, `core/services/ai_client.py` | a generator over the provider's chunks | `v1_chat_completions`, `query_ai`, `v1_models` | `/v1/chat/completions` modelled, the others stateless |
| Result page | `templates/search/index.html`, `/` in `core/routes/search.py` 32-83, `/ai` in `core/routes/ai.py` 162-207 | a browser tab: its page, the panel and the card of its scripts | navigate, fetch the panel and the AI answer | modelled |
| Wikipedia panel | `core/routes/search.py` 154-231 | the handler's place on its ladder of requests | `/api/wiki`: up to eight requests with two fallbacks | modelled |
| Other search pages, API, paging, content filter | `core/routes/search.py` 86-152, 232-339, `search/results.py` 379-711 | none | map a reply to a page | not modelled |
| SearXNG meta search | `searxng_src/searx/search/`, `searx/results.py` | per request a result container and engine threads; shared by requests the bans of networks | search, merge, close, show | modelled but for answerers, plugins, scores |
| SearXNG network layer | `searxng_src/searx/network/`, the image proxy in `searx/webapp.py` | clients per route, the cycles of routes, tasks on one event loop, queues of streams | `request`, `stream`, retries, timeouts | modelled but for Tor and settings |
| Outgoing proxy | `proxy_simple.py`, `cloudflare-worker-proxy.js` | a single-threaded server | forward a request | its life in the supervisor |
| Pages, middleware | `core/routes/pages.py`, `core/middleware.py` | none | static pages, constant headers | not modelled |
| Unused helpers | `core/utils/`, `db/userdb.py` | - | called by no route | not modelled |
| SearXNG, the rest | `searxng_src/` | - | engines, plugins, preferences, templates | external |

How they interact:

* `create_app()` starts the supervisor's first thread; every search calls
  `_ensure_local_searxng_started()`, which may start another; so does every
  watchdog.  Flask processes (the reloader's parent and child, `gunicorn -w 4`)
  share nothing but the two ports.
* A search goes: health check and boot wait, cache, local SearXNG twice,
  external SearXNG twice, Brave, and for images Bing.  The supervised process is
  a service that may stop at any time for it.
* Inside SearXNG a search asks its engines in threads of their own, which merge
  what they find into one container; each engine's requests are tasks on the
  network layer's event loop, which sends them through the outgoing proxy.
* A result page in the browser asks `/api/wiki` for a knowledge panel and `/ai`
  for an answer while its user may already go on to the next page.
* `/placeholder` gets candidate urls from a search and stores the first image
  that downloads.  The agent's tools are searches as well.

What makes it hard, and what would make each part correct:

* *Supervisor*: nothing is locked.  A probe, a launch and a wait are separate
  steps of several threads in several processes, a process can be killed
  between any two, and `stop_searxng` runs while the daemon threads do.  It is
  correct when a process stops only what it launched, nobody takes down an
  instance that serves, supervision never silently ends, and a SearXNG that
  died comes back.
* *Query path*: requests race over the cache with check-then-act steps outside
  the lock, while instances fail one by one.  It is correct when an answer
  belongs to its query and is fresh, an outage is never remembered, a fallback
  is a last resort, and every request ends.
* *Image store*: two requests for one image write one file without a lock, and
  error paths remove it.  It is correct when nothing broken settles on the disk.
* *Agent*: turns, several calls per turn, failing tools and continued
  conversations.  It is correct when every list it sends or returns is one the
  model's API accepts, and the steps and the answer are those of the request.
* *Streaming*: provider, generator and client run at their own pace and each
  may stop.  It is correct when the client gets a prefix in order and is told
  exactly when it has everything.

* *Result page*: the panel climbs through requests that may each fail, and the
  page may be left at any time.  It is correct when the panel is the first article
  that fits, is missing for a reason only, and a page does not wait for ever.
* *Meta search*: engine threads write into a container the Flask thread closes
  and reads without its lock, and go on after they were given up.  It is correct
  when every engine is shown or accounted for, nothing delivered is lost, what is
  rendered stands still, and a hanging engine holds nobody up.
* *Network layer*: tasks share clients that one of them may close, retry in an
  order that errors and answers decide, and outlive the threads that asked.  It is
  correct when retries are neither lost nor unbounded, no client is used after it
  was closed or forgotten open, an image that ends is whole, and tasks, threads
  and abandoned streams end.

The hazards at their lines, with the properties that watch over them, are in
`PROJECT.json` under `hazards`.

## 2. The modules

Every component has a module with its state, one action per operation or
atomic step, its properties, and next to a definition the mutants of it, the
plausible bugs that show its properties can fail.  `...Proofs` holds
the theorems, `MC...` the constants TLC needs.  `PROJECT.json` maps each
definition to the lines it stands for.

### SearxngSupervisor

Flask processes `Apps`, start threads `Threads` and subprocesses `Procs`.

| code | model |
|---|---|
| `_SEARXNG_PROC` | `handle[a]`; a name of a process that ended counts as none, because every use asks `poll()` or acts on a live process |
| threads named `searxng-start` | `pc[t]`, `home[t]`, `polled[t]` with the steps probe, launch and wait of the proxy and of SearXNG |
| watchdog threads | `watchdogs[a]`, a number |
| subprocesses | `status[p]` dead, booting or serving; `kind[p]`, `owner[p]` |
| `_port_open` | `PortOpen(s)`: some process of the service serves |
| `start_searxng` and its three callers | `StartSearxng` in `CreateApp`, `EnsureLocalStarted`, `WatchdogRound` |
| `_start_proxy_blocking` | `ProbeProxy`, `LaunchProxy`, `WaitProxy` |
| `_start_searxng_blocking` | `Probe`, `Launch`, `Wait` |
| `stop_searxng`, `atexit` | `StopSearxng` (its `poll()`), `StopTerminate`, `StopWait`, `Exit`: the global is read again at each |
| environment | `Bind` (the second process on a port exits), `Crash`, `AppKilled`, failed `Popen` |

`EnsureLocalStarted` is enabled whenever the app is up: the health check fails
also when a busy instance needs longer than 0.3 s.

### SearxngQuery and CachedSearch

Request threads of one process.  A request is its entry point, query and page:
each entry point builds parameters no other one builds, so that is the cache
key.  A response is its source, query, page, kind and whether it has results.
`Ensure` and `BootPoll` are `_ensure_local_searxng_started` (a start that
raises is caught, and the query goes on without a poll); `Lookup`, `Age`
and `Pop` are the three parts of `_cache_get`, between which the lock is free;
`Fetch` is one round of the two loops, `Direct` the Brave fallback, `Store`
`_cache_set`, which is one locked step, `Answer` and `Done` what the callers
add, Bing among it.  `Tick` lets time pass between any two steps.
`tried[t]` is no variable of the code: it counts what each instance was asked,
apart from the cursor of the two loops, so that "a last resort" can be said
without it.

`CachedSearch` is the abstract specification, what the backend's callers are promised
and nothing of who is asked, how often or in which order: an answer is for the request; it comes
from the cache only while its entry is fresh; a response with results is kept
and reaches its caller as it is; what has none may be replaced at the end; only
stale entries make room.  `Search == INSTANCE CachedSearch WITH ...`
maps the eleven places of a thread to five phases, `seen` to the offer and
`reply` to the answer; polls and attempts that bring nothing are stutters.

### ImageStore

Threads, urls and inodes.  A file is created under its final name and filled
chunk by chunk, so names, inodes and descriptors are told apart: `Open`
truncates an inode another thread still writes to, `Cleanup` and `Remove` take
the name away from a writer.  Contents are sets of chunk numbers; a chunk that was
truncated away and written past is a hole.  `Crash` ends the server and
leaves the directory.

### AgentLoop and ToolDialogue

`AgentLoop` has the handler's locals (`messages`, `max_steps`, `step`, the
calls of the turn) and the client, which may post the returned messages again.
A message keeps its role, the calls it makes and the call it answers;
`todo` is what the inner loop has still to run of `msg.tool_calls`, and a result
carries the id of the call it was run for.  The handler never looks for open
calls, so no action has a guard on them: what is known of them is
`ConversationsAreWellFormed`, over the conversation sent and the one returned.
`ToolDialogue` is the abstract specification: client, model and tools take
turns; the model is asked only when no call it made in this request is open and
at most `Limit` times per request; a failure leaves the client what it had.  It
tells the calls a request opened (`open`) from those the client had left open
before it (`old`), which nothing in the request runs.  The mapping
(`Dialogue == INSTANCE ToolDialogue WITH ...`) shows both, what the client holds
and the steps left.

### ChatStream and ChatDelivery

`ChatStream` composes provider, generator and client over a connection, which
is the log of what was written and how much of it was read; `Buffer` bounds the
difference, so writes block.  `Close` is the server's reaction to a client that
is gone: the generator is closed at a `yield`, and its `except Exception` does
not catch that.  Without a stream the answer is one message.  `ChatDelivery` is the
abstract specification: an amount that grows, a client that has more and more of
it, and three ends, of which one says that it has all.  The streams of
`HttpNetwork` implement it as well, with images for completions.

### ResultPage

One browser tab, its pages in the order they are asked for, and the handlers they
start; tabs share nothing.  `Search` begins a navigation while the old page's
scripts still run, `Render` replaces it, and `Replace` is what becomes of the old
document.  A page with an infobox of SearXNG has no place for the panel.

| code | model |
|---|---|
| `wiki_json`, `fulltext_search` | `rung[p]`: `OpenSearch`, `BestSummary`, `FullText`, `HitSummary`, `NoHitFits` |
| the outer `except`, the `except` in the loop | `RequestFails`, `HitFails` |
| what is an article | `articles`, chosen at the start; a title without a summary's title is none |
| the panel's and the card's fetch | `PanelArrives`, `PanelFails`; `CardArrives`, `CardCatches` |
| `query_ai` and the provider | `AiReplies` |

A handler whose page was left runs on for nobody, as in the server.

### MetaSearch and EngineSurvey

Requests `r`, each with a Flask thread (`pc[r]`) and one thread per slot of its list of engines
(`tpc[r][k]`); an engine may be named twice, so threads are slots.  The steps are
cut where another thread can come in between: `ReadClosed`, `Lookup` and
`Store` under the lock, `LookupBox` and `AppendBox` with a gap between them, the
timings and the unresponsive engines each with their check.  `JoinEnded` and `JoinGivesUp` are the
wait for a thread.  `Close` and `Score` are the unlocked iteration over the map and
over the `engines` of each item: it may break when a late thread enters an item
meanwhile, or merges into a known one and adds its name there; `before` is the map when
`close` set the flag.  `MergeRaises` is a result that cannot be merged: it is reported,
but not when an offline engine fails so by a `ValueError`.  The bans of networks are what
requests share.  Engines (`Outcomes`, `Answers`) are external.

`EngineSurvey` is the abstract specification of one search, without threads,
locks or clocks: it ends its wait only when every engine delivered, had nothing to
say, is told as missing or was given up; only those that were given up
touch anything later, and only what they add to an item, new or known, may make the
search fail as it ends; the page is what was collected.  `Survey(r)` maps a request to it, and
`ImplementsSurvey` says that every step of the program is for each request a step of its
survey or a stutter, so searches that share bans do not disturb one another.

### HttpNetwork

Calls are fetches (`network.request`) or streams (`network.stream`, made by the
image proxy).  A call has a task on the event loop (`job`) and a thread
(`caller`): what lies between two awaits of the loop is one action.  A client is
its route and its number on it; `made` and `closed` are `_clients` and what became
of the earlier ones.  How an attempt ends decides what follows: `Fail` is an
`httpx.RequestError`, which is retried, `Disconnect` a connection the server dropped,
`Fault` any other exception and `GetClientRaises` one of `get_client` or of the
cookies, before the `try`: these two end `call_client` at once.
`Leave` is a browser that goes away from a stream,
`Timeout` a thread that gives a fetch up, whose task goes on.  `Delivery(c)` maps a
stream to `ChatDelivery`: what its task has put is the whole so far, what the
browser got the part.  Both count chunks; that they come in their order is the
`SimpleQueue`'s.

## 3. The runs

States are distinct states TLC finds.

| run | question | constants | states |
|---|---|---|---|
| `supervisor_safety` | ownership, supervision, serving instances over every interleaving | 3 processes, one disabled; 2 start threads, 3 subprocesses, 2 upsets | 2.1 M |
| `supervisor_liveness` | recovery, end of duplicates, end of starts | 1 process, 2 threads, 3 subprocesses, 2 upsets | 135 k |
| `orphan` | *violated*: a process exits and leaves its SearXNG | 1 process | - |
| `query` | the cache and its limit, the ladder of fallbacks, refinement, the end of every request | 2 threads, 2 requests that share the words, a local and an external instance, 2 attempts at each | 1.0 M |
| `image` | files settle whole or not at all, requests end, a crash | 2 threads, images of 1 and 2 chunks, limit 1, 3 inodes | 400 k |
| `image_partial` | *violated*: a partial image is sent | 2 threads, 1 image | - |
| `agent_conversation` | well-formed conversations, steps, refinement, liveness | limits -1, 0, 1, 3 against a cap of 2; 2 calls per turn; conversations up to 8 messages before the last request | 235 k |
| `chat_stream` | the end marker, refinement, liveness | 6 chunks, a connection that holds 3 | 1 k |
| `result_page` | the panel against its definition, pages settle | 2 pages, 2 titles, up to 2 hits | 321 k |
| `meta_search` | accounting, nothing lost, frozen reports, refinement, requests end | 2 requests, 4 engines on 2 networks, a main result and an infobox, clock to 2 | 865 k |
| `network` | retries, clients, streams (refinement), nobody waits in vain, callers and tasks end | 2 fetches and a stream, 2 of them started; 2 routes, 2 retries, 2 chunks | 292 k |
| `network_route` | *violated*: a retry takes the route it failed on | 2 fetches, 2 routes, 1 retry | - |

Why the bounds are enough:

* `Polls` are 15 and 60 in the code.  What a poll sees depends on the port and
  on whether it is the last one, so 1 (always the last) for the proxy and 2 for SearXNG
  give both cases.
* `MaxWatchdogs = 1` is exact for every property: a round of one watchdog is
  the same action as a round of another, so only "none" and "some" differ.  That they
  multiply in the code is the saturation of the counter.
* `MaxUpsets` bounds crashes, kills, shutdowns and failed launches: two allow one
  failure during the recovery from another.
* `CacheTtl = 1`, `MaxTime = 1`: an entry can be fresh and exactly as old as the
  TTL, which is where `_cache_get` and the eviction draw their lines; one that is older
  meets the same branches.  `CacheLimit = 0` makes each store into a filled cache an
  eviction.
* `query` has two instances with two attempts at each, so the inner loop goes on and
  ends, and the outer one as well: Brave comes after both, and a cursor that stops
  short of the external instance is seen.
* Two threads are enough for the races here, each of which needs one thread
  between two steps of another; the third process of `supervisor_safety` is
  the disabled one.
* An image of `MaxSize` and one of `MaxSize + 1` chunks are the two sides of the
  size check.
* In `result_page` a best title and two hits give every order of an article, a
  disambiguation and a failed summary the ladder tells apart; two pages give the
  page that was left.
* In `meta_search` one engine answers late (its timeout is the search's twice), one bans,
  one is named with an unsupported argument, and the list with an infobox twice meets its
  own gap between lookup and append.  The offline engine answers with one item twice, so it
  can fail in the middle of a merge; the late one merges into that item, new or known,
  while the container is closed.  Clock values only compare with two timeouts
  and a ban of 1.
* In `network` three calls exist and any two of them run (`MaxCalls`): the
  sharing of a client needs two.  Two retries and the free reconnect give four attempts.
  `Hanging` calls have an upstream that need not answer.
* Symmetry is used in safety runs only, over identities that nothing orders.
* Deadlock is checked in every run but `result_page`, where the user stops
  after `MaxPages` pages and everything comes to rest.

Every property of a passing run has a mutant in `PROJECT.json`: with that
change of the code TLC finds the property violated under the same
configuration.

### What the violation runs show

* `orphan`: `stop_searxng` "terminates the SearXNG subprocess on app shutdown",
  but a second start has overwritten the global, or launches after it was read.
* `image_partial`: a request finds the name of a file another one still
  writes and sends what is there.
* `network_route`: SearXNG's documentation says of retries that each "uses an
  different proxy and source ip"; the cycles belong to the network, and a call in
  between moves them.  Sodeom's settings name one proxy, so there it makes
  no difference.

## 4. Fairness

Liveness is checked under these assumptions, and no other:

* *Supervisor*: weak fairness for start threads, for the boot of a launched
  process and for the steps of a shutdown, since the scheduler runs threads and a
  booted process binds or exits.  A watchdog's round has strong fairness: it is
  disabled while no thread identity is free, which is a bound of the model and
  not of the code.  Nothing makes requests arrive or processes crash.
* *Query, image*: weak fairness per request thread.  Every wait of a thread has
  a timeout (`requests` and health checks) or is a `sleep`.
* *Agent*: weak fairness of the handler; the provider's client and `run_python` have
  timeouts.  The client need not post again.
* *Stream*: weak fairness of the handler, of the provider, whose client times
  out when no chunk comes, and of a client that reads what has arrived.
  A client that neither reads nor leaves would hold its handler; the code has no
  write timeout, so this is an assumption about clients.  Nothing makes a
  client go away.
* *Result page*: weak fairness of the handlers, whose requests have a timeout of
  5 s and whose AI client has one as well, and of the callbacks of the open page.  No
  user searches, no page arrives and no fetch fails because of it.
* *Meta search*: weak fairness of the Flask threads, of a thread that holds the
  lock, and of the clock.  Engines may stop for ever.
* *Network*: weak fairness of the loop, of the threads with their timers, and of
  upstreams outside `Hanging`.  A browser need not leave.

## 5. The proofs

TLAPS checks the theorems for every value of the constants that satisfies the
assumption named in the module (`ConstantsAssumption`, `QueryAssumption`,
`StoreAssumption`, `AgentAssumption`, `StreamAssumption`, `PageAssumption`,
`ConstantsAreSane`, `NetworkAssumption`): any number of processes, threads, urls,
chunks, polls, engines, calls and routes, any limit.

* **SearxngSupervisorProofs**.  `TypeCorrect`.  `OwnershipHolds`: threads belong
  to processes that exist and the global names a live SearXNG its own process
  launched; `HandlesAreOwn` is its half about the globals;
  the two are inductive together with the types, since a launch
  writes the global of the thread's home and `Die` clears every global that names
  the process.  `DisabledStaysPassive`, `WatchdogsLast` and `ServingStays`
  follow from them step by step; the last one is an action property: the only
  steps that end a serving process are a crash and the two signals of its owner's shutdown.
* **SearxngQueryProofs**.  The invariant is `TypeOK`, `CacheAnswers` (each entry
  has results and answers its key) and, per thread, `Serving`: the entry it has
  seen, its last valid response and its reply answer its request, an entry it will
  return was fresh when the request arrived, and a thread at `store` has results.
  `OthersServe` is the frame lemma: a thread's step leaves what is
  said about another one.  From it: `TypeCorrect`, `CacheHasResults`,
  `AnswersAreForTheRequest`, `CacheServesFresh`, `StoreEvictsStaleOnly`, `ResponsesAreKept`.
  `DirectComesLast` needs `Resorting` besides: the counts of `tried` are what the
  cursor of the loops tells, a thread has no answer before it stores or gives one, and one
  that answers without results has asked each instance `MaxRetries` times or took what the
  cache had.
  `FreshAloneExceed` needs `CacheIsFinite`, an invariant of its own, to count.
  `Implements`, the refinement to `CachedSearch`, goes step by step: `PhaseStays`
  covers the rungs of the ladder that bring nothing, `FindSearches`, `GiveUpSearches`,
  `StoreSearches` and `AnswerSearches` the others; a late `Pop` that loses a fresh
  entry is an abstract `Drop`.
* **ImageStoreProofs**.  `Inv` says that descriptors belong to writers, files of
  different urls are different inodes and hold chunks of their own image only:
  `TypeCorrect`, `ApartHolds`.  `SettledHolds` needs more: `SettledFilesAreWhole` is
  not inductive, because it says nothing while writers run.  `Accounted`
  strengthens it: a file that is not whole has a thread *responsible* for it, one
  that cleans up, or a writer of that very inode none of whose chunks was truncated
  away.  `Open` makes its thread responsible, whoever was before; a writer that loses the
  inode's name is replaced by the one that created the new file.  `OversizeHolds` combines
  `Accounted` with `CompleteFits`: an image that was read to its end was within
  the limit.  Both properties are stated for stores that have not crashed yet: a
  crash leaves a partial file under its final name.
* **AgentLoopProofs**.  Lemmas say what a message put at the end of a
  conversation does to its open calls.  `Rounds` ties them to the handler's
  place: beside those that came with the request, none is open when the model is asked,
  and in the tools' turn those in `todo`, which are different from each other.  From it
  `TypeCorrect`, and `Implements`: every step of `AgentLoop` is a
  step of `ToolDialogue` or a stutter; `Grows` goes step by step.  `WellFormed` needs
  `Placed` besides, which says where messages stand: results follow their turn in every
  list, `Round` that the calls in `todo` are of the last turn and nothing but results is
  behind it, and a turn with open calls is one the client went on from.  `Turning` says
  that the rounds that are over, and the one whose
  tools run, have each added one turn; `StepsAreTurns`, for negative limits too, and
  `AnswersAreLast` rest on it and on
  lemmas on what a message changes in `Turns`, `TurnsAdded` and `LastTurn`.
* **ChatStreamProofs**.  `Handling` ties what is on the connection to the
  handler's place: nothing before its loop, only chunks inside it.  With it the
  three safety invariants are inductive: `TypeCorrect`, `StreamsHold`, `DoneHolds`,
  `EndHolds`; and `Implements`, the refinement to `ChatDelivery`, where every
  write is a stutter (`UnseenStutters`) and every read a step.
* **ResultPageProofs**.  `Climbing` says what a handler has behind it on each
  rung: no best title, a best title that is no article, and below the hit it
  looks at only hits that are no articles or could not be read.  `Fresh` says that a
  page which is still to come has no handler.  `SameStays` is the frame lemma.  From it:
  `TypeCorrect`, `FirstFits`, `EmptyHasAReason`.
* **MetaSearchProofs**.  `IInv` has per request and slot: who holds the lock
  (`Locked`), that a lookup under it is still true (`Looked`), how far a list is merged
  (`Progress`), what is known of its engine (`Accounted`), what is shown (`Shown`), and
  that after the flag was set only entries are added, all by threads that were given up
  (`Late`), and that a search that failed has such an entry (`Closing`).
  `OthersStaySound` is the frame lemma between requests; each action has a lemma.  From it:
  `Accounting`, `Keeping`, `Breaking`, `Freezing`, the last an action property,
  and `Surveying`, the refinement to `EngineSurvey`: the mapping of a request
  reads only what is its own, so the other requests stutter.  It needs `IInv` at the
  unlocked accesses: a `Store` maps to an abstract `Enter`, which never takes an entry away,
  because the lookup before it is still true.  `ScoresSurvey` maps the breaking loops: a name
  that is new among an item's engines is an entry that is new.
* **HttpNetworkProofs**.  `Budget` adds up what a fetch has used and has left,
  with the free reconnect (`BudgetHolds`), unless an exception that is not retried has
  ended it, so a bad outcome of the other kinds means that nothing is left:
  `RetriesKept`.  `ClientsOK` says that of the clients of a route all but the last
  are closed and those to come are not: `OneClient`.  `StreamsOK` gives the queue of a
  stream its shape for each place of its task and its thread, response, chunks,
  exception and end (`StreamsHold`).  What a thread finds at its head follows:
  `NoVainWait`; and `Delivers`, the refinement of each stream to `ChatDelivery`,
  where a read of a chunk is a step because the queue is what was put and not yet got.

### Why things end

Liveness itself is out of the prover's reach, since weak fairness speaks of
`ENABLED`.  What makes it true is not: where the end of a request is decided by the steps
of its own handler, a *variant* says how much is left, and an action property,
proved for every value of the constants, that each of its steps lowers the variant
and that no step of anybody else raises it.

| theorem | variant |
|---|---|
| `StartsComeNearer` | `StartRank`: the steps and polls left of a start |
| `RequestsComeNearer` (SearxngQueryProofs) | `Remaining`: polls, fetches from every instance, the steps around them |
| `ImagesComeNearer` | the candidates left, then `Rank` within one; other threads truncate and remove files, but not progress |
| `RequestsComeNearer` (AgentLoopProofs) | `Left`, the rounds, then `RoundLeft` within one |
| `ClimbsComeNearer` | `RungsLeft`: the requests the panel's handler can still make |
| `SearchesComeNearer` | `Remaining`: engines to look at, threads to wait for |
| `TasksComeNearer` | `Remaining`: attempts left, with the free reconnect, and the steps of one |

With it a liveness property needs only that the handler can always take its next step,
which is what TLC's runs check.  A chat stream has no variant: it
ends because its provider does, which the model takes as an assumption of fairness.

### Only model-checked

* Liveness under fairness: `SupervisedRecovers`, `DuplicatesDieOut`, `StartsEnd`,
  the four `RequestsEnd` of the query path, the image store, the agent and
  the meta search and that of the chat stream, `AbandonedEnd`, `PageSettles`, `CallersReturn`,
  `TasksEnd`, `DroppedStreamsEnd`.
* What the violation runs show, for the instances of their configurations.

Everything else that a passing run checks, each invariant, action property and
refinement, is a theorem.  Some theorems state what no run checks: the inductive
invariants, the variants above, and `DisabledStaysPassive`, `CacheHasResults`,
`StoreEvictsStaleOnly`, `Grows`, `AnswersAreLast`, `StreamsHold`
and `EndHolds`, which hold in every instance of the runs because they hold in all.

## 6. Observations

Met while modelling, beyond the violation runs; none of them is a
property of a run.

* `core/__init__.py:38` says the port check guards against double starts.  Two
  threads probe before either instance listens, and both launch;
  `DuplicatesDieOut` shows that it heals: the loser cannot bind.
* `_cache_get` judges an entry after it released the lock and pops the key under
  another lock: a fresh entry stored in between is lost (`FreshEntriesStay` in
  `SearxngQuery` is the property that fails).
* Each start that finds or reaches an open port adds a watchdog, and none
  ends: they multiply with every restart.
* When SearXNG opens its port after the last of the 60 polls, no watchdog
  watches it.  `SupervisedRecovers` is stated for a process with a watchdog.
* The watchdog probes port 8888 only: a proxy that dies is started again only
  along with SearXNG, and `stop_searxng` never stops it.
* `PYTHONANYWHERE_DEPLOYMENT.md:43` shows a log line that the local start is
  skipped because `SEARXNG_URL` is set; the code looks at
  `SEARXNG_DISABLE_LOCAL_START` only.
* The cache is announced with at most 300 entries (`results.py:104`).  With more
  than 300 fresh ones nothing is evicted and it grows.  `OnlyFreshExceedTheLimit` is
  what holds: only fresh entries, and one more, can be above the limit.
* An image query without results gets Brave's web pages before the image fallback is
  reached, and they are cached under the image query's key.
* A conversation whose last turn has `finish_reason` "stop" and tool calls is
  returned with open calls; the model's API refuses every continuation of it.
  `ConversationsAreWellFormed` allows a turn without its results exactly there: at the end
  of its request.
* `max_steps` of 0 or less runs no round and returns `steps` as sent, -1 for
  instance, with an answer of an earlier request or none.
* `README.md:310` and `:318` describe concurrent requests to DuckDuckGo and Bing and a cascade of image
  engines; the code asks SearXNG first and then Brave, or Bing for images.
* With `n > 1` the stream writes every choice's text with index 0.
* The news and video filters look at title and url only, the wiki search has none,
  and infoboxes and answers pass unfiltered, while `README.md:312` says results with
  adult keywords are removed.
* `has_next` of `/` counts SearXNG's `number_of_results` or the results left by the
  filter; that of `/api/search` only the latter: a full page that loses one result ends the paging.
  The Brave fallback ignores the page, so a walk that meets it repeats its
  results as long as they are ten.
* `templates/apis/apis_search.html` announces status 500 for provider errors; a
  search without a provider answers 200 with empty results.
* A failed summary of the best title (a 404, a timeout) hides the panel although
  the full-text search might have found an article; a failed summary of a hit does not.
* The search form disables its button when it is sent and nothing enables it
  again: a page that comes back from the browser's history, or whose navigation was stopped,
  keeps it disabled.
* SearXNG's settings send everything through `proxy_simple.py`, which has no
  `do_CONNECT`: a client that tunnels https through it gets status 501.  The proxy
  also forwards the `Content-Length` of an encoded body while it writes the decoded one.
* In SearXNG two engines may each append an infobox with the same id
  (`InfoboxesAreMerged` in `MetaSearch` is the property that fails), and a
  container that is closed still takes results from a thread that checked
  before (`ClosedIsClosed`).  While it is being closed even a late result that is merged
  into a known item may turn the whole search into a "search error" (lines 23, 194 and 375 of
  `searx/results.py`).
* A `ValueError` in an offline engine is not recorded, one in the middle of the merge of
  its results included (`searx/search/processors/offline.py:27-32`): a part of them may be on the page, and neither a
  timing nor a report tells of the engine.
* The retries of the network layer are for httpx's own errors: an exception of another
  class, a bad url or one of the TLS library, and everything `get_client` raises, ends
  the call at once, however many retries are left.
* In the network layer a retry after a lost connection or an error sends its arguments without
  the cookies, which the first attempt took out of them (`network.py:279`); the network `image_proxy`
  sets for its thread is never reset; and the queue of a stream is unbounded.
* `ExpireCache` of SearXNG notes a maintenance before it deletes what is
  expired, in two transactions, and `get` does not look at the expiry: a stop in
  between keeps expired entries readable for another period.

## 7. Not modelled

* The form of pages, results and messages: parsing HTML and JSON, templates,
  headers, wording, logging.
* `is_safe_url` and the choice of headers: a url is taken or not.
* Contents and relevance of search results and of model answers.
* SearXNG outside its search and its network layer: some hundreds of files of engines,
  plugins, preferences, locales and tools.  Most are parsers of one site's reply without
  state, which appear as the answers of an engine; its caches and its metrics
  decide no result.
* The Cloudflare worker, Wikipedia and the providers' APIs, which appear
  through the answers the code handles.
* The request path of `proxy_simple.py`: it forwards one request at a time.
  What it does to its client, late answers and broken bodies, is what
  `HttpNetwork` expects of any upstream.
* Paging and the content filter: functions of one response.  Nothing in the
  repository says what a walk over the pages should meet.
* The search form's button and the browser's history.
* Several choices per completion (`n > 1`): the code mixes them for certain.
* The death of the Flask process during an agent request or a stream: the
  handler keeps nothing, and the client sees a closed connection.
* Helpers no route calls.

## 8. Plan

Order: the parts where concurrency and failure decide correctness first.

1. `SearxngSupervisor` (done).
2. `SearxngQuery` implementing `CachedSearch` (done).
3. `ImageStore` (done).
4. `AgentLoop` implementing `ToolDialogue` (done).
5. `ChatStream` implementing `ChatDelivery` (done).
6. `MetaSearch` implementing `EngineSurvey` (done).
7. `HttpNetwork`, whose streams implement `ChatDelivery` (done).
8. `ResultPage` with the Wikipedia panel (done).
9. `SearchService`: supervisor and query path composed, so that a search's boot
   wait and the watchdog work on the same SearXNG; the query path's view of it as
   an abstract service that the supervisor implements.
10. `ProxyServer`: the single-threaded proxy below `HttpNetwork`, as the
   upstream whose answers queue.
11. `ExpireCache` with its maintenance, over several processes.
