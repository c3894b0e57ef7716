------------------------------ MODULE AgentLoop ------------------------------
(* POST /ai/agent (core/routes/ai.py): a loop that asks the model, runs    *)
(* the tools it calls, and asks again, at most max_steps times; and the    *)
(* client that posts the returned messages again to go on.                 *)
(*                                                                         *)
(* Requests share nothing (the handler copies the messages it is sent), so *)
(* one client stands for all of them.  A message keeps its role, the tool  *)
(* calls it makes and the call it answers; a call is named after the       *)
(* position of its message and its own, as providers give every call an id *)
(* of its own.                                                             *)
EXTENDS Integers, Sequences, FiniteSets

CONSTANTS
    Asked,          \* the max_steps clients send: integers, below 1 too
    StepLimit,      \* 10: more steps are cut to it
    MaxCalls,       \* the most tool calls of one turn
    MaxMessages     \* bound: a client stops once its conversation is this long

ASSUME AgentAssumption ==
    /\ Asked \subseteq Int
    /\ StepLimit \in Nat
    /\ MaxCalls \in Nat
    /\ MaxMessages \in Nat

VARIABLES
    client,     \* the messages the client holds
    pc,         \* where the handler is; "client" when none runs
    messages,   \* messages: the handler's list
    posted,     \* how many of them came with the request
    max_steps,  \* max_steps
    step,       \* step: rounds of the loop that are over
    todo,       \* msg.tool_calls: those the inner loop has still to run
    reply       \* the last response

vars == <<client, pc, messages, posted, max_steps, step, todo, reply>>

CallIds == (Nat \ {0}) \X (1..MaxCalls)
NoCall  == <<0, 0>>

Roles == {"system", "user", "assistant", "tool"}
Message == [role : Roles, calls : SUBSET CallIds, call : CallIds \cup {NoCall}]

Say(role) == [role |-> role, calls |-> {}, call |-> NoCall]

\* The assistant turn that follows ms and makes n tool calls.
AssistantTurn(ms, n) ==
    [role |-> "assistant", calls |-> {<<Len(ms) + 1, i>> : i \in 1..n}, call |-> NoCall]

ToolResult(c) == [role |-> "tool", calls |-> {}, call |-> c]

\* The calls made in ms, those answered in ms, and those that are open.
Made(ms) == UNION {ms[i].calls : i \in DOMAIN ms}
Given(ms) == {ms[i].call : i \in {j \in DOMAIN ms : ms[j].role = "tool"}}
OpenCalls(ms) == Made(ms) \ Given(ms)

Turns(ms) == {i \in DOMAIN ms : ms[i].role = "assistant"}

Reply == [status : {"none", "ok", "error"}, answer : SUBSET Nat, steps : Int]

TypeOK ==
    /\ client \in Seq(Message)
    /\ pc \in {"client", "model", "tools"}
    /\ messages \in Seq(Message)
    /\ posted \in Nat
    /\ max_steps \in Int /\ max_steps <= StepLimit
    /\ step \in 0..StepLimit
    /\ todo \in Seq(CallIds) /\ Len(todo) <= MaxCalls
    /\ reply \in Reply

Init ==
    /\ client = <<>>
    /\ pc = "client"
    /\ messages = <<>>
    /\ posted = 0
    /\ max_steps = 0
    /\ step = 0
    /\ todo = <<>>
    /\ reply = [status |-> "none", answer |-> {}, steps |-> 0]

-----------------------------------------------------------------------------
\* min(max_steps, 10).
Capped(n) == IF n < StepLimit THEN n ELSE StepLimit

Begin(ms, n) ==
    /\ messages' = ms
    /\ posted' = Len(ms)
    /\ max_steps' = Capped(n)
    /\ step' = 0
    /\ pc' = "model"
    /\ UNCHANGED <<client, todo, reply>>

\* A request with a query: the handler builds the conversation.
PostQuery(n) ==
    /\ pc = "client"
    /\ Begin(<<Say("system"), Say("user")>>, n)

\* A request with the messages the client holds and its next one.
PostMessages(n) ==
    /\ pc = "client"
    /\ client # <<>> /\ Len(client) < MaxMessages
    /\ Begin(Append(client, Say("user")), n)

\* No query and no messages, messages that are no list, a max_steps that is no number.
Refuse ==
    /\ pc = "client"
    /\ reply' = [status |-> "error", answer |-> {}, steps |-> 0]
    /\ UNCHANGED <<client, pc, messages, posted, max_steps, step, todo>>

(* The handler's locals are gone with the request.                         *)
Return(response) ==
    /\ reply' = response
    /\ pc' = "client"
    /\ messages' = <<>>
    /\ posted' = 0
    /\ max_steps' = 0
    /\ step' = 0
    /\ todo' = <<>>

\* A 500 response, from the except branch or from Flask: it has no messages.
Fail ==
    /\ Return([status |-> "error", answer |-> {}, steps |-> 0])
    /\ UNCHANGED client

\* A response whose answer is the content of the message at the given position.
Respond(ms, position, steps) ==
    /\ Return([status |-> "ok", answer |-> position, steps |-> steps])
    /\ client' = ms

-----------------------------------------------------------------------------
\* Mutant of ModelFails: a request whose model call failed is started over.
ModelFailsStartsOver ==
    /\ pc = "model" /\ step < max_steps
    /\ messages' = SubSeq(messages, 1, posted)
    /\ step' = 0
    /\ UNCHANGED <<client, pc, posted, max_steps, todo, reply>>

(* The API may fail, or return no choice, at any time: it does when it     *)
(* refuses a conversation in which calls are left open, which the handler  *)
(* does not look for.                                                      *)
ModelFails ==
    /\ pc = "model" /\ step < max_steps
    /\ Fail

\* The turn ends the request: finish_reason is "stop", or nothing is called.
ModelAnswers ==
    /\ pc = "model" /\ step < max_steps
    /\ \E n \in 0..MaxCalls :
          Respond(Append(messages, AssistantTurn(messages, n)), {Len(messages) + 1}, step + 1)

(* The turn calls tools: it is put at the end of the list, before results. *)
ModelCalls ==
    /\ pc = "model" /\ step < max_steps
    /\ \E n \in 1..MaxCalls :
          /\ messages' = Append(messages, AssistantTurn(messages, n))
          /\ todo' = [i \in 1..n |-> <<Len(messages) + 1, i>>]
    /\ pc' = "tools"
    /\ UNCHANGED <<client, posted, max_steps, step, reply>>

\* Mutant of RunTool: the loop over the calls ends after the first one.
RunToolOnce ==
    /\ pc = "tools"
    /\ messages' = Append(messages, ToolResult(Head(todo)))
    /\ todo' = <<>>
    /\ pc' = "model"
    /\ step' = step + 1
    /\ UNCHANGED <<client, posted, max_steps, reply>>

\* Mutant of RunTool: a tool that fails gets no result.
RunToolSkips ==
    /\ pc = "tools"
    /\ \/ messages' = Append(messages, ToolResult(Head(todo)))
       \/ UNCHANGED messages
    /\ todo' = Tail(todo)
    /\ IF todo' = <<>> THEN pc' = "model" /\ step' = step + 1 ELSE UNCHANGED <<pc, step>>
    /\ UNCHANGED <<client, posted, max_steps, reply>>

\* Mutant of RunTool: the round is not counted.
RunToolUncounted ==
    /\ pc = "tools"
    /\ messages' = Append(messages, ToolResult(Head(todo)))
    /\ todo' = Tail(todo)
    /\ pc' = IF todo' = <<>> THEN "model" ELSE pc
    /\ UNCHANGED <<client, posted, max_steps, step, reply>>

(* _execute_tool() of the next call, whose result carries the call's id.   *)
(* Arguments that are no JSON, an unknown name, a program that fails or    *)
(* takes 10 seconds all give a text.  After the last call the round of the *)
(* outer loop is over.                                                     *)
RunTool ==
    /\ pc = "tools"
    /\ messages' = Append(messages, ToolResult(Head(todo)))
    /\ todo' = Tail(todo)
    /\ IF todo' = <<>> THEN pc' = "model" /\ step' = step + 1 ELSE UNCHANGED <<pc, step>>
    /\ UNCHANGED <<client, posted, max_steps, reply>>

\* It raises, for arguments that are JSON and no object; nothing catches it.
ToolRaises ==
    /\ pc = "tools"
    /\ Fail

\* The position of the last assistant message; the answer is "" without one.
LastTurn(ms) == {i \in Turns(ms) : \A j \in Turns(ms) : j <= i}

\* range(max_steps) is used up, or was empty.
RunsOut ==
    /\ pc = "model" /\ step >= max_steps
    /\ Respond(messages, LastTurn(messages), max_steps)

Serve == ModelFails \/ ModelAnswers \/ ModelCalls \/ RunTool \/ ToolRaises \/ RunsOut

Next ==
    \/ \E n \in Asked : PostQuery(n) \/ PostMessages(n)
    \/ Refuse
    \/ Serve

Spec == Init /\ [][Next]_vars

\* The handler's thread runs, the API's client has a timeout and so have the tools.
FairSpec == Spec /\ WF_vars(Serve)

-----------------------------------------------------------------------------
(* Safety.                                                                 *)

(* Each result answers, for the first time, a call of a turn that only     *)
(* results separate it from.                                               *)
ResultsFollowTheirTurn(ms) ==
    \A j \in DOMAIN ms : ms[j].role = "tool" =>
        \E i \in 1..(j - 1) :
            /\ ms[j].call \in ms[i].calls
            /\ \A k \in (i + 1)..(j - 1) : ms[k].role = "tool" /\ ms[k].call # ms[j].call

OpenTurns(ms) == {i \in DOMAIN ms : ms[i].calls \cap OpenCalls(ms) # {}}

(* The API wants the calls of a turn answered, each once, right after it.  *)
(* Whatever mix of turns, tools, failures and continued conversations led  *)
(* here: results stand where they belong; a turn the client holds has no   *)
(* result missing unless it ended its request (a "stop" with calls), so no *)
(* turn is ever half answered; and when the model is asked, the only open  *)
(* calls are those of turns the client itself went on from.                *)
ConversationsAreWellFormed ==
    /\ ResultsFollowTheirTurn(messages)
    /\ ResultsFollowTheirTurn(client)
    /\ \A i \in OpenTurns(client) : i = Len(client) \/ client[i + 1].role = "user"
    /\ pc = "model" =>
          \A i \in OpenTurns(messages) : i < posted /\ messages[i + 1].role = "user"

(* "steps" tells how many assistant turns the request added, by either way *)
(* out of the loop, and is within what was asked for and the limit.  A     *)
(* response with fewer steps than that ends with the model's own words.  A *)
(* negative max_steps is the exception: no turn is added, and the response *)
(* gives that number back as its "steps".                                  *)
TurnsAdded(ms, n) == Cardinality(Turns(ms)) - Cardinality(Turns(SubSeq(ms, 1, n)))

StepsCountTurns ==
    [][(pc = "model" /\ pc' = "client" /\ reply'.status = "ok") =>
          /\ reply'.steps <= max_steps /\ max_steps <= StepLimit
          /\ reply'.steps >= 0 => TurnsAdded(client', posted) = reply'.steps
          /\ reply'.steps < 0 => TurnsAdded(client', posted) = 0 /\ reply'.steps = max_steps
          /\ reply'.steps < max_steps => client'[Len(client')].role = "assistant"]_vars

(* "return last assistant content": the answer is the last turn of the     *)
(* messages that are returned, and new unless no step was allowed.         *)
AnswerIsTheLastTurn ==
    [][(pc = "model" /\ pc' = "client" /\ reply'.status = "ok") =>
          /\ reply'.answer = {i \in Turns(client') : \A j \in Turns(client') : j <= i}
          /\ (\E i \in reply'.answer : i > posted) <=> reply'.steps > 0]_vars

(* A response carries the conversation that was posted, with messages added *)
(* at its end, whatever the rounds did; an error, and a request that is     *)
(* under way, leave the client's copy as it was.                           *)
SamePrefix(ms, ns, n) == n <= Len(ms) /\ SubSeq(ms, 1, n) = SubSeq(ns, 1, n)

ConversationsGrow ==
    [][pc # "client" =>
          IF pc' = "client"
          THEN IF reply'.status = "ok" THEN SamePrefix(client', messages, posted)
                                       ELSE client' = client
          ELSE posted' = posted /\ client' = client /\ SamePrefix(messages', messages, posted)]_vars

-----------------------------------------------------------------------------
(* Liveness: every request is answered.                                    *)
RequestsEnd == pc # "client" ~> pc = "client"

\* The rounds a request has left.
Left == IF pc = "client" \/ step >= max_steps THEN 0 ELSE max_steps - step

(* What is left of the round the handler is in: the model's turn and all   *)
(* the calls it may make, or the calls that have not run.                  *)
RoundLeft ==
    IF pc = "model" THEN MaxCalls + 1 ELSE IF pc = "tools" THEN Len(todo) ELSE 0

(* Why a request ends: whatever the model and the tools do, each step of   *)
(* the handler takes one of the rounds that are left, or some of the round *)
(* it is in.                                                               *)
RequestsAdvance ==
    [][pc # "client" =>
          \/ Left' \in Nat /\ Left' < Left
          \/ Left' = Left /\ RoundLeft' \in Nat /\ RoundLeft' < RoundLeft]_vars

-----------------------------------------------------------------------------
(* The loop implements the dialogue: turn by turn, with the calls of this  *)
(* request that are open, those the client left open before it, and the    *)
(* rounds left.                                                            *)
Inherited == OpenCalls(SubSeq(messages, 1, posted))

Dialogue == INSTANCE ToolDialogue WITH
    Calls <- CallIds,
    Limit <- StepLimit,
    turn  <- pc,
    open  <- IF pc = "client" THEN {} ELSE OpenCalls(messages) \ Inherited,
    old   <- IF pc = "client" THEN {} ELSE Inherited,
    held  <- OpenCalls(client),
    left  <- Left

(* Every behaviour of the loop is a dialogue as ToolDialogue promises it.  *)
ImplementsDialogue == Dialogue!Spec
=============================================================================
