------------------------------ MODULE ChatStream ------------------------------
(* POST /v1/chat/completions (core/routes/ai.py): the handler asks a       *)
(* provider for a completion and passes it on, chunk by chunk as server    *)
(* sent events or in one message.  The provider produces chunks while the  *)
(* generator writes earlier ones to the client's connection and the client *)
(* reads still earlier ones, or goes away.                                 *)
(*                                                                         *)
(* Requests share nothing, so one client that asks again stands for all of *)
(* them.  A chunk is its position in the completion; the connection is the *)
(* sequence of what was written to it and how much of that was read.       *)
EXTENDS Naturals, Sequences

CONSTANTS
    MaxChunks,  \* bound: the chunks of one completion
    Buffer      \* events a connection holds before a write blocks

ASSUME StreamAssumption ==
    /\ MaxChunks \in Nat
    /\ Buffer \in Nat \ {0}

VARIABLES
    client,     \* the client: it asks for nothing, reads, or is gone
    pc,         \* where the handler is; "idle" when none runs
    stream,     \* want_stream
    provider,   \* the provider's response
    produced,   \* chunks of it that have arrived
    taken,      \* those of them the generator has seen
    written,    \* events written to the connection
    read        \* how many of them the client has read

vars == <<client, pc, stream, provider, produced, taken, written, read>>

Event == [type : {"chunk", "done", "error", "message"}, chunk : 0..MaxChunks]

Chunk(i) == [type |-> "chunk", chunk |-> i]
End(type) == [type |-> type, chunk |-> 0]

TypeOK ==
    /\ client \in {"idle", "reading", "gone"}
    /\ pc \in {"idle", "create", "next", "whole"}
    /\ stream \in BOOLEAN
    /\ provider \in {"none", "streaming", "finished", "failed"}
    /\ produced \in 0..MaxChunks
    /\ taken \in 0..produced
    /\ written \in Seq(Event)
    /\ read \in 0..Len(written)
    /\ Len(written) - read <= Buffer

Init ==
    /\ client = "idle"
    /\ pc = "idle"
    /\ stream = FALSE
    /\ provider = "none"
    /\ produced = 0
    /\ taken = 0
    /\ written = <<>>
    /\ read = 0

-----------------------------------------------------------------------------
(* The handler.                                                            *)

Write(event) ==
    /\ Len(written) - read < Buffer
    /\ written' = Append(written, event)
    /\ UNCHANGED read

\* The last event, and the end of the handler.
WriteLast(type) ==
    /\ Write(End(type))
    /\ pc' = "idle"
    /\ UNCHANGED <<client, stream, provider, produced, taken>>

\* A request that passes the checks.
Ask ==
    /\ client = "idle"
    /\ client' = "reading"
    /\ pc' = "create"
    /\ stream' \in BOOLEAN
    /\ UNCHANGED <<provider, produced, taken, written, read>>

\* A request without messages, or with one that has no role or content: a 400.
Refuse ==
    /\ client = "idle"
    /\ client' = "reading"
    /\ Write(End("error"))
    /\ UNCHANGED <<pc, stream, provider, produced, taken>>

(* create() raises: the provider refuses, or there is no client for the    *)
(* model.  In a stream the status 200 is already decided.                  *)
CreateFails ==
    /\ pc = "create"
    /\ WriteLast("error")

Created ==
    /\ pc = "create"
    /\ provider' = "streaming"
    /\ pc' = IF stream THEN "next" ELSE "whole"
    /\ UNCHANGED <<client, stream, produced, taken, written, read>>

\* Mutant of YieldChunk: a chunk without choices, as a usage report, is skipped.
YieldChunkWithChoices ==
    /\ pc = "next" /\ taken < produced
    /\ taken' = taken + 1
    /\ \/ Write(Chunk(taken + 1))
       \/ UNCHANGED <<written, read>>
    /\ UNCHANGED <<client, pc, stream, provider, produced>>

(* One round of the generator's loop.  A chunk without choices is passed   *)
(* on as well, with an empty delta.                                        *)
YieldChunk ==
    /\ pc = "next" /\ taken < produced
    /\ taken' = taken + 1
    /\ Write(Chunk(taken + 1))
    /\ UNCHANGED <<client, pc, stream, provider, produced>>

\* Mutant of YieldDone: a provider that fails also ends the loop.
YieldDoneAnyway ==
    /\ pc = "next" /\ taken = produced /\ provider # "streaming"
    /\ WriteLast("done")

\* Mutant of YieldDone: the loop polls for another chunk when there is none.
YieldDonePolls ==
    /\ pc = "next" /\ taken = produced /\ provider = "finished"
    /\ UNCHANGED vars

\* The loop is over: "data: [DONE]".
YieldDone ==
    /\ pc = "next" /\ taken = produced /\ provider = "finished"
    /\ WriteLast("done")

(* The except branch: the response broke off, with chunks that arrived     *)
(* before unread or not, or a chunk has an unexpected form.                *)
YieldError ==
    /\ pc = "next"
    /\ provider = "failed" \/ taken < produced
    /\ WriteLast("error")

\* Without a stream create() returns the completion, or raises.
AnswerWhole ==
    /\ pc = "whole" /\ provider = "finished"
    /\ WriteLast("message")

AnswerError ==
    /\ pc = "whole" /\ provider \in {"finished", "failed"}
    /\ WriteLast("error")

\* Mutant of Close: the generator catches the exception and goes on.
CloseIgnored ==
    /\ pc # "idle" /\ client = "gone"
    /\ UNCHANGED vars

\* The handler has something to write next.
HasOutput ==
    \/ pc = "create"
    \/ pc = "next" /\ (taken < produced \/ provider # "streaming")
    \/ pc = "whole" /\ provider # "streaming"

(* A write to a client that is gone fails, at once or after the buffer is  *)
(* full; the server closes the generator, whose except does not catch it.  *)
Close ==
    /\ client = "gone"
    /\ HasOutput
    /\ pc' = "idle"
    /\ UNCHANGED <<client, stream, provider, produced, taken, written, read>>

Serve ==
    \/ CreateFails \/ Created \/ YieldChunk \/ YieldDone \/ YieldError
    \/ AnswerWhole \/ AnswerError \/ Close

-----------------------------------------------------------------------------
(* The provider, as long as the handler waits for it.                      *)
Provide ==
    /\ pc \in {"next", "whole"}
    /\ provider = "streaming"
    /\ \/ produced < MaxChunks /\ produced' = produced + 1 /\ UNCHANGED provider
       \/ provider' \in {"finished", "failed"} /\ UNCHANGED produced
    /\ UNCHANGED <<client, pc, stream, taken, written, read>>

-----------------------------------------------------------------------------
(* The client.                                                             *)

\* The event read last ends the response.
Told == read > 0 /\ written[read].type # "chunk"

Read ==
    /\ client = "reading"
    /\ read < Len(written)
    /\ read' = read + 1
    /\ UNCHANGED <<client, pc, stream, provider, produced, taken, written>>

GoAway ==
    /\ client = "reading" /\ ~Told
    /\ client' = "gone"
    /\ UNCHANGED <<pc, stream, provider, produced, taken, written, read>>

\* The connection is closed on both sides; the client may ask again.
Closed ==
    /\ pc = "idle"
    /\ client = "reading" => read = Len(written)
    /\ client # "idle"

Again ==
    /\ Closed
    /\ client' = "idle"
    /\ provider' = "none"
    /\ stream' = FALSE
    /\ produced' = 0
    /\ taken' = 0
    /\ written' = <<>>
    /\ read' = 0
    /\ UNCHANGED pc

Next == Ask \/ Refuse \/ Serve \/ Provide \/ Read \/ GoAway \/ Again

Spec == Init /\ [][Next]_vars

(* The server runs the handler, the provider's client has a timeout, and a *)
(* client that stays reads what arrives.  Nothing makes it go away.        *)
FairSpec == Spec /\ WF_vars(Serve) /\ WF_vars(Provide) /\ WF_vars(Read)

-----------------------------------------------------------------------------
(* Safety.                                                                 *)

(* The events on a connection are the provider's chunks in their order,    *)
(* none lost and none twice, and at most one end, which is the last one.   *)
StreamsAreWellFormed ==
    \A i \in DOMAIN written :
        IF written[i].type = "chunk"
        THEN written[i].chunk = i
        ELSE i = Len(written)

(* "data: [DONE]" and a message are sent for a whole completion only: the  *)
(* provider ended it without a failure and every chunk is written before.  *)
DoneMeansAll ==
    \A i \in DOMAIN written :
        /\ written[i].type = "done" => provider = "finished" /\ i = produced + 1
        /\ written[i].type = "message" => provider = "finished"

(* A client that stays is told how its request ended: no handler ends with *)
(* a connection that just breaks off after some chunks.                    *)
EndIsTold ==
    pc = "idle" /\ client = "reading" =>
        written # <<>> /\ written[Len(written)].type # "chunk"

-----------------------------------------------------------------------------
(* Liveness.                                                               *)

(* Every request is answered to its end, unless its client goes away.      *)
RequestsEnd == client = "reading" ~> client = "gone" \/ Told

(* The handler of a client that is gone ends, although it waits for the    *)
(* provider or for room on the connection.                                 *)
AbandonedEnd == client = "gone" ~> pc = "idle"

-----------------------------------------------------------------------------
(* The endpoint implements the delivery.                                   *)
Phase ==
    IF client = "idle" THEN "idle"
    ELSE IF client = "gone" THEN "cut"
    ELSE IF ~Told THEN "open"
    ELSE IF written[read].type = "error" THEN "cut"
    ELSE "whole"

Has ==
    IF ~Told THEN read
    ELSE IF written[read].type = "message" THEN produced
    ELSE read - 1

Delivery == INSTANCE ChatDelivery WITH
    phase <- Phase,
    all   <- produced,
    final <- provider = "finished",
    out   <- Has

(* Whatever the provider, the generator and the client do in whatever      *)
(* order, the client sees what ChatDelivery promises.                      *)
ImplementsDelivery == Delivery!Spec
=============================================================================
