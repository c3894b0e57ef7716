----------------------------- MODULE HttpNetwork -----------------------------
(* The outgoing HTTP requests of SearXNG (searx/network): threads hand     *)
(* calls to one event loop, which sends them through the clients of a      *)
(* network and retries them; a thread waits for the result until its time  *)
(* is up.  The image proxy streams: the loop puts what arrives into a      *)
(* queue, from which the thread of the browser's request reads.            *)
(*                                                                         *)
(* A route is a pair of source address and proxies; both cycles advance    *)
(* together, so the network's next route is one counter.  A client is the  *)
(* route it was made for and its number on it.  The event loop runs one    *)
(* task at a time and switches only where a task awaits, so what lies      *)
(* between two awaits is one action.  A call stands for one use of the     *)
(* module by a thread; a thread that gave up on one may make the next      *)
(* while the loop still works on the first.                                *)
EXTENDS Naturals, Sequences, FiniteSets

CONSTANTS
    Fetches,        \* calls of network.request()
    Streams,        \* calls of network.stream(), made by image_proxy()
    Routes,         \* how many pairs the cycles go through
    Retries,        \* Network.retries
    RetryOn,        \* Network.retry_on_http_error: the answers it names
    Lenient,        \* fetches made with raise_for_httperror=False
    Hanging,        \* calls whose upstream never answers (fairness only)
    MaxChunks,      \* bound: chunks of one image
    MaxCalls        \* bound: calls that are made

Calls == Fetches \cup Streams

\* Answers by what raise_for_httperror makes of them: nothing, an exception
\* of SearXNG (captcha, access denied, too many requests) or of httpx.
Answers == {"fine", "denied", "failure"}

ASSUME NetworkAssumption ==
    /\ Fetches \cap Streams = {}
    /\ Routes \in Nat \ {0}
    /\ Retries \in Nat
    /\ RetryOn \subseteq {"denied", "failure"}
    /\ MaxChunks \in Nat
    /\ MaxCalls \in Nat

VARIABLES
    turn,       \* the next route of the cycles
    made,       \* clients made so far for each route; _clients has the last
    closed,     \* the clients that are closed
    job,        \* each call's task on the event loop
    left,       \* retries it has left
    dropped,    \* was_disconnected
    on,         \* the client of its last attempt
    tries,      \* attempts it has made
    out,        \* what its future holds
    caller,     \* where the thread of the call is
    queue,      \* chunks, exception and end of a stream the thread has not read
    put,        \* chunks put into it
    got,        \* chunks the browser was sent
    cut         \* response.aclose(): asked for by the thread, or run

netVars == <<turn, made, closed>>
jobVars == <<job, left, dropped, on, tries, out>>
streamVars == <<queue, put, got, cut>>
vars == <<netVars, jobVars, caller, streamVars>>

Client == (0 .. Routes - 1) \X Nat
NoClient == <<0, 0>>

NetworkTypes ==
    /\ turn \in 0 .. Routes - 1
    /\ made \in [0 .. Routes - 1 -> Nat]
    /\ closed \subseteq Client
    /\ on \in [Calls -> Client]
    /\ tries \in [Calls -> Nat]

TaskTypes ==
    /\ job \in [Calls -> {"none", "ready", "sent", "closing", "streaming", "done"}]
    /\ left \in [Calls -> 0 .. Retries]
    /\ dropped \in [Calls -> BOOLEAN]
    /\ out \in [Calls -> {"none", "fine", "denied", "failure", "error", "fault", "nothing"}]

ThreadTypes ==
    /\ caller \in [Calls -> {"idle", "waiting", "reading", "draining",
                             "answered", "refused", "raised", "timeout"}]
    /\ got \in [Calls -> Nat]
    /\ cut \in [Calls -> {"no", "asked", "run"}]

QueueTypes ==
    /\ queue \in [Calls -> Seq({"response", "chunk", "error", "end"})]
    /\ put \in [Calls -> 0 .. MaxChunks]

TypeOK ==
    /\ NetworkTypes
    /\ TaskTypes
    /\ ThreadTypes
    /\ QueueTypes

Init ==
    /\ turn = 0
    /\ made = [r \in 0 .. Routes - 1 |-> 0]
    /\ closed = {}
    /\ job = [c \in Calls |-> "none"]
    /\ left = [c \in Calls |-> Retries]
    /\ dropped = [c \in Calls |-> FALSE]
    /\ on = [c \in Calls |-> NoClient]
    /\ tries = [c \in Calls |-> 0]
    /\ out = [c \in Calls |-> "none"]
    /\ caller = [c \in Calls |-> "idle"]
    /\ queue = [c \in Calls |-> <<>>]
    /\ put = [c \in Calls |-> 0]
    /\ got = [c \in Calls |-> 0]
    /\ cut = [c \in Calls |-> "no"]

-----------------------------------------------------------------------------
(* The tasks of the event loop.                                            *)

\* Mutant: get_client() does not ask whether the client is closed.
NeverMade(r) == made[r] = 0

\* The client the network has for a route cannot be used.
Unusable(r) == made[r] = 0 \/ <<r, made[r]>> \in closed

\* The task ends with a result or an exception.
Finish(c, result) ==
    /\ job' = [job EXCEPT ![c] = "done"]
    /\ out' = [out EXCEPT ![c] = result]
    /\ UNCHANGED left

Enqueue(c, items) == queue' = [queue EXCEPT ![c] = @ \o items]

\* get_client() and the request it is for: no await lies between them.
GetClient(c) ==
    /\ job[c] = "ready"
    /\ turn' = (turn + 1) % Routes
    /\ made' = IF Unusable(turn) THEN [made EXCEPT ![turn] = @ + 1] ELSE made
    /\ on' = [on EXCEPT ![c] = <<turn, made'[turn]>>]
    /\ tries' = [tries EXCEPT ![c] = @ + 1]
    /\ job' = [job EXCEPT ![c] = "sent"]
    /\ UNCHANGED <<closed, left, dropped, out, caller, streamVars>>

\* get_client(), or the cookies the client is given next, raise: that lies before the
\* `try', so nothing is retried.  The cycles have moved on, and a client that was made
\* may be in _clients or not.  A stream's exception goes into its queue.
GetClientRaises(c) ==
    /\ job[c] = "ready"
    /\ turn' = (turn + 1) % Routes
    /\ \/ UNCHANGED made
       \/ Unusable(turn) /\ made' = [made EXCEPT ![turn] = @ + 1]
    /\ Finish(c, "fault")
    /\ IF c \in Streams THEN Enqueue(c, <<"error", "end">>) ELSE UNCHANGED queue
    /\ UNCHANGED <<closed, dropped, on, tries, caller, put, got, cut>>

\* The end of the loop's body: retries -= 1 and the loop's condition.
Again(c) ==
    IF left[c] >= 1
    THEN /\ left' = [left EXCEPT ![c] = @ - 1]
         /\ job' = [job EXCEPT ![c] = "ready"]
         /\ UNCHANGED out
    ELSE Finish(c, "nothing")

\* except RequestError, HTTPStatusError
Retry(c, result) ==
    IF left[c] = 0 THEN Finish(c, result) ELSE Again(c)

IsValid(answer) == answer \notin RetryOn

\* patch_response(): SearXNG's own exceptions are not among those retried.
Patched(c, answer) ==
    IF answer = "failure" /\ c \notin Lenient
    THEN Retry(c, "failure")
    ELSE Finish(c, answer)

\* A fetch is answered.
Answer(c, answer) ==
    /\ c \in Fetches
    /\ job[c] = "sent"
    /\ IF IsValid(answer) \/ left[c] = 0 THEN Patched(c, answer) ELSE Again(c)
    /\ UNCHANGED <<netVars, dropped, on, tries, caller, streamVars>>

\* It fails on the way, or in one of the time limits of httpx: a RequestError.
Fail(c) ==
    /\ c \in Fetches
    /\ job[c] = "sent"
    /\ Retry(c, "error")
    /\ UNCHANGED <<netVars, dropped, on, tries, caller, streamVars>>

\* Any other exception, of the TLS library or for a malformed URL or cookie, is none
\* that call_client catches.
Fault(c) ==
    /\ c \in Fetches
    /\ job[c] = "sent"
    /\ Finish(c, "fault")
    /\ UNCHANGED <<netVars, dropped, on, tries, caller, streamVars>>

\* Mutant: was_disconnected is not set.
DisconnectForever(c) ==
    /\ c \in Fetches
    /\ job[c] = "sent"
    /\ IF dropped[c]
       THEN /\ Retry(c, "error")
            /\ UNCHANGED <<closed, dropped>>
       ELSE /\ closed' = closed \cup {on[c]}
            /\ job' = [job EXCEPT ![c] = "closing"]
            /\ UNCHANGED <<left, dropped, out>>
    /\ UNCHANGED <<turn, made, on, tries, caller, streamVars>>

\* RemoteProtocolError: the first time the client, which other calls may be
\* using, is closed and the call tried again; from then on it is an error.
Disconnect(c) ==
    /\ c \in Fetches
    /\ job[c] = "sent"
    /\ IF dropped[c]
       THEN /\ Retry(c, "error")
            /\ UNCHANGED <<closed, dropped>>
       ELSE /\ dropped' = [dropped EXCEPT ![c] = TRUE]
            /\ closed' = closed \cup {on[c]}
            /\ job' = [job EXCEPT ![c] = "closing"]
            /\ UNCHANGED <<left, out>>
    /\ UNCHANGED <<turn, made, on, tries, caller, streamVars>>

\* Mutant: aclose() waits until no other call uses the client.
ClosedWhenIdle(c) ==
    /\ job[c] = "closing"
    /\ \A d \in Calls : job[d] = "sent" => on[d] # on[c]
    /\ job' = [job EXCEPT ![c] = "ready"]
    /\ UNCHANGED <<netVars, left, dropped, on, tries, out, caller, streamVars>>

\* aclose() of the client has ended, and the loop's body starts again.
Closed(c) ==
    /\ job[c] = "closing"
    /\ job' = [job EXCEPT ![c] = "ready"]
    /\ UNCHANGED <<netVars, left, dropped, on, tries, out, caller, streamVars>>

\* stream_chunk_to_queue: the response's head has come; no status is an
\* error, and nothing is retried.
Open(c) ==
    /\ c \in Streams
    /\ job[c] = "sent"
    /\ job' = [job EXCEPT ![c] = "streaming"]
    /\ Enqueue(c, <<"response">>)
    /\ UNCHANGED <<netVars, left, dropped, on, tries, out, caller, put, got, cut>>

\* A chunk is put whatever the thread has read: the queue has no limit.
Chunk(c) ==
    /\ job[c] = "streaming"
    /\ cut[c] # "run"
    /\ put[c] < MaxChunks
    /\ put' = [put EXCEPT ![c] = @ + 1]
    /\ Enqueue(c, <<"chunk">>)
    /\ UNCHANGED <<netVars, jobVars, caller, got, cut>>

\* The response is read to its end.
EndOfBody(c) ==
    /\ job[c] = "streaming"
    /\ cut[c] # "run"
    /\ Finish(c, "fine")
    /\ Enqueue(c, <<"end">>)
    /\ UNCHANGED <<netVars, dropped, on, tries, caller, put, got, cut>>

\* Mutant: the exception is not put into the queue.
BreakSilently(c) ==
    /\ c \in Streams
    /\ job[c] \in {"sent", "streaming"}
    /\ Finish(c, "error")
    /\ Enqueue(c, <<"end">>)
    /\ UNCHANGED <<netVars, dropped, on, tries, caller, put, got, cut>>

\* It fails, before the head or after it; the exception is in the queue.
Break(c) ==
    /\ c \in Streams
    /\ job[c] \in {"sent", "streaming"}
    /\ Finish(c, "error")
    /\ Enqueue(c, <<"error", "end">>)
    /\ UNCHANGED <<netVars, dropped, on, tries, caller, put, got, cut>>

\* The aclose() the thread has scheduled runs.
Aclose(c) ==
    /\ cut[c] = "asked"
    /\ cut' = [cut EXCEPT ![c] = "run"]
    /\ UNCHANGED <<netVars, jobVars, caller, queue, put, got>>

\* Mutant: after StreamClosed the end is not put either.
ReadClosedSilently(c) ==
    /\ job[c] = "streaming"
    /\ cut[c] = "run"
    /\ Finish(c, "error")
    /\ UNCHANGED <<netVars, dropped, on, tries, caller, streamVars>>

\* The read of a closed response raises StreamClosed: only the end follows.
ReadClosed(c) ==
    /\ job[c] = "streaming"
    /\ cut[c] = "run"
    /\ Finish(c, "error")
    /\ Enqueue(c, <<"end">>)
    /\ UNCHANGED <<netVars, dropped, on, tries, caller, put, got, cut>>

-----------------------------------------------------------------------------
(* The threads.                                                            *)

\* run_coroutine_threadsafe()
Submit(c) ==
    /\ caller[c] = "idle"
    /\ Cardinality({d \in Calls : caller[d] # "idle"}) < MaxCalls
    /\ caller' = [caller EXCEPT ![c] = "waiting"]
    /\ job' = [job EXCEPT ![c] = "ready"]
    /\ UNCHANGED <<netVars, left, dropped, on, tries, out, streamVars>>

Ends(c, how) == caller' = [caller EXCEPT ![c] = how]

\* The task ended with an exception.
Raised(c) ==
    \/ out[c] \in {"error", "fault"}
    \/ /\ out[c] \in {"denied", "failure"}
       /\ c \notin Lenient

\* future.result(): the response, or the exception of the task.
Result(c) ==
    /\ c \in Fetches
    /\ caller[c] = "waiting"
    /\ job[c] = "done"
    /\ Ends(c, IF Raised(c) THEN "raised" ELSE "answered")
    /\ UNCHANGED <<netVars, jobVars, streamVars>>

\* Mutant: future.result() without a time limit sees the time at its end.
TimeoutLate(c) ==
    /\ c \in Fetches
    /\ caller[c] = "waiting"
    /\ job[c] = "done"
    /\ Ends(c, "timeout")
    /\ UNCHANGED <<netVars, jobVars, streamVars>>

\* The time of the thread is up.  The task is not told.
Timeout(c) ==
    /\ c \in Fetches
    /\ caller[c] = "waiting"
    /\ job[c] # "done"
    /\ Ends(c, "timeout")
    /\ UNCHANGED <<netVars, jobVars, streamVars>>

Take(c, item) ==
    /\ queue[c] # <<>>
    /\ Head(queue[c]) = item
    /\ queue' = [queue EXCEPT ![c] = Tail(@)]

\* Mutant: the generator is read to its end, the response not closed.
CloseOnlyDrains(c) ==
    /\ Ends(c, "draining")
    /\ UNCHANGED cut

\* response.close(): aclose() is scheduled and the generator read to its end.
Close(c) ==
    /\ cut' = [cut EXCEPT ![c] = "asked"]
    /\ Ends(c, "draining")

\* image_proxy() has the response and passes it on, or refuses it for its
\* size, status or type.
TakeResponse(c) ==
    /\ caller[c] = "waiting"
    /\ Take(c, "response")
    /\ \/ Ends(c, "reading") /\ UNCHANGED cut
       \/ Close(c)
    /\ UNCHANGED <<netVars, jobVars, put, got>>

TakeChunk(c) ==
    /\ caller[c] = "reading"
    /\ Take(c, "chunk")
    /\ got' = [got EXCEPT ![c] = @ + 1]
    /\ UNCHANGED <<netVars, jobVars, caller, put, cut>>

\* The end of the body.  close_stream() then finds the generator at its end
\* and a response the task has closed: it has nothing to do.
TakeEnd(c) ==
    /\ caller[c] = "reading"
    /\ Take(c, "end")
    /\ Ends(c, "answered")
    /\ UNCHANGED <<netVars, jobVars, put, got, cut>>

\* The generator raises, and is at its end; the task has ended as well.
TakeError(c) ==
    /\ caller[c] \in {"waiting", "reading"}
    /\ Take(c, "error")
    /\ Ends(c, "raised")
    /\ UNCHANGED <<netVars, jobVars, put, got, cut>>

\* The browser goes away: call_on_close(close_stream).
Leave(c) ==
    /\ caller[c] = "reading"
    /\ Close(c)
    /\ UNCHANGED <<netVars, jobVars, queue, put, got>>

\* The loop of close() over the generator.
Drain(c) ==
    /\ caller[c] = "draining"
    /\ \/ Take(c, "chunk") /\ UNCHANGED caller
       \/ /\ Take(c, "end") \/ Take(c, "error")
          /\ Ends(c, "refused")
    /\ UNCHANGED <<netVars, jobVars, put, got, cut>>

-----------------------------------------------------------------------------
Ended(c) == caller[c] \in {"answered", "refused", "raised", "timeout"}

Upstream(c) ==
    \/ \E answer \in Answers : Answer(c, answer)
    \/ Fail(c)
    \/ Fault(c)
    \/ Disconnect(c)
    \/ Open(c)
    \/ Chunk(c)
    \/ EndOfBody(c)
    \/ Break(c)

Loop(c) ==
    \/ GetClient(c)
    \/ GetClientRaises(c)
    \/ Closed(c)
    \/ Aclose(c)
    \/ ReadClosed(c)

Thread(c) ==
    \/ Result(c)
    \/ Timeout(c)
    \/ TakeResponse(c)
    \/ TakeChunk(c)
    \/ TakeEnd(c)
    \/ TakeError(c)
    \/ Drain(c)

\* The threads have their answers and the loop has nothing left to do.
Quiet ==
    /\ \A c \in Calls : /\ caller[c] = "idle" \/ Ended(c)
                       /\ job[c] \in {"none", "done"}
                       /\ cut[c] # "asked"
    /\ UNCHANGED vars

Next ==
    \/ \E c \in Calls : Submit(c) \/ Loop(c) \/ Upstream(c) \/ Thread(c) \/ Leave(c)
    \/ Quiet

Spec == Init /\ [][Next]_vars

\* The loop and the threads run; the timer of a waiting thread runs out.
\* An upstream that hangs may never answer, any other one does.
Fairness ==
    /\ \A c \in Calls : WF_vars(Loop(c)) /\ WF_vars(Thread(c))
    /\ \A c \in Calls \ Hanging : WF_vars(Upstream(c))

FairSpec == Spec /\ Fairness

-----------------------------------------------------------------------------
(* Safety.                                                                 *)

\* What httpx reports of the network or the upstream, and the answers the settings
\* name: call_client retries these.  A "fault" is not among them.
Retriable(c) ==
    \/ out[c] = "error"
    \/ out[c] \in RetryOn
    \/ /\ out[c] = "failure"
       /\ c \notin Lenient

\* However errors, lost connections and answers follow one another, a call
\* makes its attempt and its retries, one more at most for a connection the
\* server dropped; an error of httpx or an answer named for retries is its
\* outcome only after the last of them, while any other exception ends it at
\* once; and it never leaves the loop of call_client() without a result
\* (network.py 277-301).
RetriesAreKept ==
    \A c \in Fetches :
        /\ tries[c] <= Retries + 2
        /\ Retriable(c) => tries[c] > Retries
        /\ out[c] # "nothing"

\* The calls of a network share its clients and one of them may close a
\* client others use: each attempt still starts on the one open client of
\* its route, none on a closed one, and no open client is left that
\* _clients has forgotten and nobody would close (network.py 197-215, 293).
AttemptsShareOneClient ==
    [][\A c \in Calls : tries'[c] # tries[c] =>
            \A n \in 1 .. made'[on'[c][1]] :
                (<<on'[c][1], n>> \notin closed') <=> (n = on'[c][2])]_vars

\* What a stream's thread may find at the head of its queue: what it has a
\* reading for where it is in the generator.
Readable(c) ==
    IF caller[c] = "waiting"
    THEN {"response", "error"}
    ELSE {"chunk", "error", "end"}

\* No thread waits for what nobody will send: while its queue is empty the
\* task is still to put something in, what the queue holds can be read where
\* the thread is, and a response that is being let go is closed or about to
\* be, so that the task ends (network/__init__.py 148-182, 192-242).
NobodyWaitsInVain ==
    \A c \in Streams : caller[c] \in {"waiting", "reading", "draining"} =>
        /\ IF queue[c] = <<>>
           THEN job[c] \in {"ready", "sent", "streaming"}
           ELSE Head(queue[c]) \in Readable(c)
        /\ caller[c] = "draining" /\ job[c] = "streaming" => cut[c] # "no"

-----------------------------------------------------------------------------
(* Each image implements the delivery.                                     *)
Phase(c) ==
    IF caller[c] = "idle" THEN "idle"
    ELSE IF caller[c] \in {"waiting", "reading"} THEN "open"
    ELSE IF caller[c] = "answered" THEN "whole"
    ELSE "cut"

Delivery(c) == INSTANCE ChatDelivery WITH
    phase <- Phase(c),
    all   <- put[c],
    final <- out[c] = "fine",
    out   <- got[c]

\* However the loop, the thread and the browser follow one another, a browser
\* gets an image as ChatDelivery promises: no chunk more than came, the end only
\* if all of them were passed on, and what failed on the way or was cut off does
\* not look complete.  Chunks are counted; that they stay in their order is the
\* queue's doing, first in, first out (network/__init__.py 148-242, webapp.py 1054-1068).
ImplementsDelivery ==
    /\ \A c \in Streams : Delivery(c)!Init
    /\ [][\A c \in Streams : Delivery(c)!Next \/ UNCHANGED Delivery(c)!vars]_vars

-----------------------------------------------------------------------------
(* Liveness.                                                               *)

\* A thread that waits for a fetch goes on, even if the upstream never
\* answers (network/__init__.py 97-108).
CallersReturn ==
    \A c \in Fetches : caller[c] = "waiting" ~> Ended(c)

\* The task of a fetch ends, also when the thread has given it up and when
\* other calls close the client it uses.
TasksEnd ==
    \A c \in Fetches \ Hanging : job[c] = "ready" ~> job[c] = "done"

\* An image that is refused or whose browser has gone is let go: the thread
\* gets to the end of the generator and the task ends, although the upstream
\* may hang (_close_response_method, network/__init__.py 234-242).
DroppedStreamsEnd ==
    \A c \in Streams : caller[c] = "draining" ~> (Ended(c) /\ job[c] = "done")

\* What a fetch's task still may do: a connection lost or a retry starts the
\* loop's body again, which takes three steps at most.
Remaining(c) ==
    3 * (left[c] + (IF dropped[c] THEN 0 ELSE 1))
      + (CASE job[c] \in {"none", "closing"} -> 3
           [] job[c] = "ready" -> 2
           [] job[c] \in {"sent", "streaming"} -> 1
           [] job[c] = "done" -> 0)

\* Why tasks end: whatever happens to the task of a fetch, by its own doing
\* or that of others, brings it nearer to its end (network.py 277-301).
TasksAdvance ==
    [][\A c \in Fetches :
          <<job'[c], left'[c], dropped'[c]>> # <<job[c], left[c], dropped[c]>>
              => Remaining(c)' < Remaining(c)]_vars
=============================================================================
