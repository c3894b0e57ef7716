--------------------------- MODULE AgentLoopProofs ---------------------------
(* The theorems of AgentLoop.                                              *)
EXTENDS AgentLoop, FiniteSetTheorems, SequenceTheorems, TLAPS

-----------------------------------------------------------------------------
(* Lemmas on conversations: what a message put at the end changes.         *)

LEMMA MadeAppend ==
    ASSUME NEW ms \in Seq(Message), NEW m \in Message
    PROVE  Made(Append(ms, m)) = Made(ms) \cup m.calls
<1>1. DOMAIN Append(ms, m) = DOMAIN ms \cup {Len(ms) + 1}
  OBVIOUS
<1>2. \A i \in DOMAIN ms : Append(ms, m)[i] = ms[i]
  OBVIOUS
<1>3. Append(ms, m)[Len(ms) + 1] = m
  OBVIOUS
<1> QED
  BY <1>1, <1>2, <1>3 DEF Made

LEMMA GivenAppend ==
    ASSUME NEW ms \in Seq(Message), NEW m \in Message
    PROVE  Given(Append(ms, m)) =
               IF m.role = "tool" THEN Given(ms) \cup {m.call} ELSE Given(ms)
<1>1. DOMAIN Append(ms, m) = DOMAIN ms \cup {Len(ms) + 1}
  OBVIOUS
<1>2. \A i \in DOMAIN ms : Append(ms, m)[i] = ms[i] /\ i # Len(ms) + 1
  OBVIOUS
<1>3. Append(ms, m)[Len(ms) + 1] = m
  OBVIOUS
<1> QED
  BY <1>1, <1>2, <1>3 DEF Given

\* Every call made or answered in ms belongs to a message of ms.
Known(ms) == Made(ms) \cup Given(ms) \subseteq (1..Len(ms)) \X Nat

LEMMA SayIsMessage ==
    ASSUME NEW role \in Roles
    PROVE  Say(role) \in Message
  BY DEF Say, Message, NoCall

LEMMA TurnIsMessage ==
    ASSUME NEW ms \in Seq(Message), NEW n \in 0..MaxCalls
    PROVE  /\ AssistantTurn(ms, n) \in Message
           /\ AssistantTurn(ms, n).calls \subseteq CallIds
<1>1. {<<Len(ms) + 1, i>> : i \in 1..n} \subseteq CallIds
  <2>1. Len(ms) + 1 \in Nat \ {0}
    OBVIOUS
  <2>2. \A i \in 1..n : i \in 1..MaxCalls
    BY AgentAssumption
  <2> QED
    BY <2>1, <2>2 DEF CallIds
<1> QED
  BY <1>1 DEF AssistantTurn, Message, Roles

LEMMA ResultIsMessage ==
    ASSUME NEW c \in CallIds
    PROVE  ToolResult(c) \in Message
  BY DEF ToolResult, Message, Roles

(* A message of the user leaves the open calls open.                       *)
LEMMA SayKeepsOpen ==
    ASSUME NEW ms \in Seq(Message), Known(ms)
    PROVE  /\ OpenCalls(Append(ms, Say("user"))) = OpenCalls(ms)
           /\ Known(Append(ms, Say("user")))
<1>1. Say("user") \in Message /\ Say("user").role # "tool" /\ Say("user").calls = {}
  BY SayIsMessage DEF Roles, Say
<1>2. Made(Append(ms, Say("user"))) = Made(ms)
  BY <1>1, MadeAppend
<1>3. Given(Append(ms, Say("user"))) = Given(ms)
  BY <1>1, GivenAppend
<1>4. Len(Append(ms, Say("user"))) = Len(ms) + 1
  OBVIOUS
<1>5. (1..Len(ms)) \X Nat \subseteq (1..(Len(ms) + 1)) \X Nat
  OBVIOUS
<1> QED
  BY <1>2, <1>3, <1>4, <1>5 DEF OpenCalls, Known

(* The calls of a new turn are new: they are open, and the others stay so. *)
LEMMA TurnOpens ==
    ASSUME NEW ms \in Seq(Message), Known(ms), NEW n \in 0..MaxCalls
    PROVE  LET m == AssistantTurn(ms, n) IN
           /\ OpenCalls(Append(ms, m)) = OpenCalls(ms) \cup m.calls
           /\ m.calls \cap Made(ms) = {}
           /\ Known(Append(ms, m))
<1> DEFINE m == AssistantTurn(ms, n)
<1>1. m \in Message /\ m.role # "tool" /\ m.calls = {<<Len(ms) + 1, i>> : i \in 1..n}
  BY TurnIsMessage DEF AssistantTurn
<1>2. Len(Append(ms, m)) = Len(ms) + 1
  OBVIOUS
<1> HIDE DEF m
<1>3. Made(Append(ms, m)) = Made(ms) \cup m.calls
  BY <1>1, MadeAppend
<1>4. Given(Append(ms, m)) = Given(ms)
  BY <1>1, GivenAppend
<1>5. (1..Len(ms)) \X Nat \subseteq (1..(Len(ms) + 1)) \X Nat
  OBVIOUS
<1>6. m.calls \subseteq (1..(Len(ms) + 1)) \X Nat
  BY <1>1, AgentAssumption
<1>7. m.calls \cap Given(ms) = {} /\ m.calls \cap Made(ms) = {}
  BY <1>1, AgentAssumption DEF Known
<1>8. OpenCalls(Append(ms, m)) = OpenCalls(ms) \cup m.calls
  BY <1>3, <1>4, <1>7 DEF OpenCalls
<1>9. Known(Append(ms, m))
  BY <1>2, <1>3, <1>4, <1>5, <1>6 DEF Known
<1> QED
  BY <1>7, <1>8, <1>9 DEF m

(* A result closes its call and no other one.                              *)
LEMMA ResultCloses ==
    ASSUME NEW ms \in Seq(Message), Known(ms), NEW c \in CallIds, c[1] <= Len(ms)
    PROVE  /\ OpenCalls(Append(ms, ToolResult(c))) = OpenCalls(ms) \ {c}
           /\ Known(Append(ms, ToolResult(c)))
<1> DEFINE m == ToolResult(c)
<1>1. m \in Message /\ m.role = "tool" /\ m.calls = {} /\ m.call = c
  BY ResultIsMessage DEF ToolResult
<1>2. Len(Append(ms, m)) = Len(ms) + 1
  OBVIOUS
<1> HIDE DEF m
<1>3. Made(Append(ms, m)) = Made(ms)
  BY <1>1, MadeAppend
<1>4. Given(Append(ms, m)) = Given(ms) \cup {c}
  BY <1>1, GivenAppend
<1>5. (1..Len(ms)) \X Nat \subseteq (1..(Len(ms) + 1)) \X Nat
  OBVIOUS
<1>6. c \in (1..(Len(ms) + 1)) \X Nat
  BY AgentAssumption DEF CallIds
<1>7. OpenCalls(Append(ms, m)) = OpenCalls(ms) \ {c}
  BY <1>3, <1>4 DEF OpenCalls
<1>8. Known(Append(ms, m))
  BY <1>2, <1>3, <1>4, <1>5, <1>6 DEF Known
<1> QED
  BY <1>7, <1>8 DEF m

(* The conversation the handler builds for a query.                        *)
LEMMA QueryIsClosed ==
    LET ms == <<Say("system"), Say("user")>>
    IN  ms \in Seq(Message) /\ OpenCalls(ms) = {} /\ Known(ms)
<1> DEFINE ms == <<Say("system"), Say("user")>>
<1>1. ms \in Seq(Message)
  BY SayIsMessage DEF Roles
<1>2. DOMAIN ms = 1..2 /\ \A i \in 1..2 : ms[i].calls = {} /\ ms[i].role # "tool"
  BY DEF Say
<1> HIDE DEF ms
<1>3. Made(ms) = {} /\ Given(ms) = {}
  BY <1>2 DEF Made, Given
<1>4. OpenCalls(ms) = {} /\ Known(ms)
  BY <1>3 DEF OpenCalls, Known
<1> QED
  BY <1>1, <1>4 DEF ms

LEMMA EmptyIsKnown == Known(<<>>) /\ OpenCalls(<<>>) = {}
<1>1. DOMAIN <<>> = {}
  OBVIOUS
<1>2. Made(<<>>) = {} /\ Given(<<>>) = {}
  BY <1>1 DEF Made, Given
<1> QED
  BY <1>2 DEF Known, OpenCalls

-----------------------------------------------------------------------------
(* The inductive invariant: when the model is asked, the open calls are    *)
(* those that were open in what the client posted; while tools run, these  *)
(* and the calls that wait for their turn, each of which waits once.       *)

LEMMA PrefixOfAppend ==
    ASSUME NEW ms \in Seq(Message), NEW m \in Message, NEW n \in Nat, n <= Len(ms)
    PROVE  SubSeq(Append(ms, m), 1, n) = SubSeq(ms, 1, n)
  OBVIOUS

Waiting == {todo[k] : k \in DOMAIN todo}

Rounds ==
    /\ posted <= Len(messages)
    /\ pc = "client" => step = 0 /\ max_steps = 0
    /\ pc # "tools" => todo = <<>>
    /\ pc = "model" => OpenCalls(messages) = Inherited
    /\ pc = "tools" =>
          /\ step < max_steps
          /\ todo # <<>>
          /\ \A k, l \in DOMAIN todo : todo[k] = todo[l] => k = l
          /\ OpenCalls(messages) = Inherited \cup Waiting
          /\ Inherited \cap Waiting = {}

Inv == TypeOK /\ Known(messages) /\ Known(client) /\ Rounds

LEMMA InvInit == Init => Inv
  BY AgentAssumption, EmptyIsKnown DEF Init, Inv, TypeOK, Rounds, Reply, Inherited

LEMMA CappedIsSmall ==
    ASSUME NEW n \in Int
    PROVE  Capped(n) \in Int /\ Capped(n) <= StepLimit
  BY AgentAssumption DEF Capped

(* Every way out of the handler, with the conversation the client then has. *)
LEMMA ReturnKeepsInv ==
    ASSUME Inv, NEW response \in Reply, Return(response),
           client' \in Seq(Message), Known(client')
    PROVE  Inv'
<1> USE DEF Return
<1>1. TypeOK'
  BY AgentAssumption DEF Inv, TypeOK
<1>2. Known(messages)'
  BY EmptyIsKnown
<1>3. Rounds'
  BY DEF Rounds
<1> QED
  BY <1>1, <1>2, <1>3 DEF Inv

LEMMA LastTurnIsPosition ==
    ASSUME NEW ms \in Seq(Message)
    PROVE  LastTurn(ms) \in SUBSET Nat
  BY DEF LastTurn, Turns

\* The next call is open, was made in this request, and waits no longer.
LEMMA NextCall ==
    ASSUME Inv, pc = "tools"
    PROVE  /\ Head(todo) \in CallIds /\ Head(todo)[1] <= Len(messages)
           /\ Head(todo) \in Waiting /\ Head(todo) \in OpenCalls(messages) \ Inherited
           /\ Tail(todo) \in Seq(CallIds) /\ Len(Tail(todo)) = Len(todo) - 1
           /\ \A k \in DOMAIN Tail(todo) : k + 1 \in DOMAIN todo /\ Tail(todo)[k] = todo[k + 1]
           /\ {Tail(todo)[k] : k \in DOMAIN Tail(todo)} = Waiting \ {Head(todo)}
           /\ \A k, l \in DOMAIN Tail(todo) : Tail(todo)[k] = Tail(todo)[l] => k = l
<1>1. todo \in Seq(CallIds) /\ todo # <<>> /\ 1 \in DOMAIN todo /\ Head(todo) = todo[1]
  BY DEF Inv, TypeOK, Rounds
<1>2. Head(todo) \in CallIds /\ Head(todo) \in Waiting
  BY <1>1 DEF Waiting
<1>3. Head(todo) \in OpenCalls(messages) /\ Head(todo) \notin Inherited
  BY <1>2 DEF Inv, Rounds
<1>4. Head(todo)[1] <= Len(messages)
  BY <1>3 DEF Inv, TypeOK, Known, OpenCalls
<1>5. Tail(todo) \in Seq(CallIds) /\ Len(Tail(todo)) = Len(todo) - 1
  BY <1>1
<1>6. \A k \in DOMAIN Tail(todo) : k + 1 \in DOMAIN todo /\ Tail(todo)[k] = todo[k + 1]
  BY <1>1
<1>7. \A k \in DOMAIN todo : k # 1 => k - 1 \in DOMAIN Tail(todo) /\ Tail(todo)[k - 1] = todo[k]
  BY <1>1
<1>8. \A k, l \in DOMAIN todo : todo[k] = todo[l] => k = l
  BY DEF Inv, Rounds
<1>9. \A k \in DOMAIN Tail(todo) : k \in Nat /\ k + 1 # 1 /\ k > 0
  BY <1>5
<1>10. {Tail(todo)[k] : k \in DOMAIN Tail(todo)} \subseteq Waiting \ {Head(todo)}
  BY <1>1, <1>6, <1>8, <1>9 DEF Waiting
<1>11. Waiting \ {Head(todo)} \subseteq {Tail(todo)[k] : k \in DOMAIN Tail(todo)}
  BY <1>1, <1>7 DEF Waiting
<1>12. \A k, l \in DOMAIN Tail(todo) : Tail(todo)[k] = Tail(todo)[l] => k = l
  <2> SUFFICES ASSUME NEW k \in DOMAIN Tail(todo), NEW l \in DOMAIN Tail(todo),
                      Tail(todo)[k] = Tail(todo)[l]
               PROVE  k = l
    OBVIOUS
  <2>1. k + 1 = l + 1
    BY <1>6, <1>8
  <2> QED
    BY <1>9, <2>1
<1> QED
  BY <1>2, <1>3, <1>4, <1>5, <1>6, <1>10, <1>11, <1>12

\* What the client posted stays at the head of the handler's list.
LEMMA InheritedStays ==
    ASSUME Inv, NEW m \in Message, messages' = Append(messages, m), posted' = posted
    PROVE  Inherited' = Inherited
<1>1. messages \in Seq(Message) /\ posted \in Nat /\ posted <= Len(messages)
  BY DEF Inv, TypeOK, Rounds
<1>2. SubSeq(messages', 1, posted') = SubSeq(messages, 1, posted)
  BY <1>1, PrefixOfAppend
<1> QED
  BY <1>2 DEF Inherited

(* A turn that calls tools: its calls are new, open, and wait.             *)
LEMMA CallsStep ==
    ASSUME Inv, ModelCalls
    PROVE  \E n \in 1..MaxCalls :
              LET m == AssistantTurn(messages, n) IN
              /\ n \in 0..MaxCalls /\ m \in Message
              /\ messages' = Append(messages, m)
              /\ messages' \in Seq(Message) /\ Len(messages') = Len(messages) + 1
              /\ Known(messages')
              /\ m.calls # {} /\ m.calls \subseteq CallIds
              /\ m.calls \cap Made(messages) = {}
              /\ OpenCalls(messages') = Inherited \cup m.calls
              /\ Inherited \cap m.calls = {}
              /\ Inherited' = Inherited
              /\ Waiting' = m.calls
              /\ todo' \in Seq(CallIds) /\ Len(todo') = n /\ todo' # <<>>
              /\ \A k, l \in DOMAIN todo' : todo'[k] = todo'[l] => k = l
<1>1. PICK n \in 1..MaxCalls :
         /\ messages' = Append(messages, AssistantTurn(messages, n))
         /\ todo' = [i \in 1..n |-> <<Len(messages) + 1, i>>]
  BY DEF ModelCalls
<1> DEFINE m == AssistantTurn(messages, n)
<1>2. /\ messages \in Seq(Message) /\ Known(messages) /\ posted' = posted
      /\ OpenCalls(messages) = Inherited
  BY DEF Inv, TypeOK, Rounds, ModelCalls
<1>3. n \in 0..MaxCalls /\ n \in Nat
  BY AgentAssumption
<1>4. m \in Message /\ m.calls \subseteq CallIds
  BY <1>2, <1>3, TurnIsMessage
<1>5. m.calls = {<<Len(messages) + 1, i>> : i \in 1..n}
  BY DEF AssistantTurn
<1>6. messages' \in Seq(Message) /\ Len(messages') = Len(messages) + 1
  BY <1>1, <1>2, <1>4
<1>7. /\ Known(messages')
      /\ m.calls \cap Made(messages) = {}
      /\ OpenCalls(messages') = Inherited \cup m.calls
  BY <1>1, <1>2, <1>3, TurnOpens
<1>8. Inherited \cap m.calls = {}
  BY <1>2, <1>7 DEF OpenCalls
<1>9. Inherited' = Inherited
  BY <1>1, <1>2, <1>4, InheritedStays
<1>10. DOMAIN todo' = 1..n /\ \A k \in 1..n : todo'[k] = <<Len(messages) + 1, k>>
  BY <1>1
<1>11. Waiting' = m.calls
  BY <1>5, <1>10 DEF Waiting
<1>12. m.calls # {}
  <2>1. 1 \in 1..n
    BY <1>3
  <2> QED
    BY <1>5, <2>1
<1>13. todo' \in Seq(CallIds) /\ Len(todo') = n /\ todo' # <<>>
  <2>1. \A i \in 1..n : <<Len(messages) + 1, i>> \in CallIds
    BY <1>4, <1>5
  <2>2. todo' \in [1..n -> CallIds]
    BY <1>1, <2>1
  <2>3. todo' \in Seq(CallIds)
    BY <1>3, <2>2, SeqDef
  <2>4. Len(todo') = n
    BY <1>3, <1>10, <2>3, LenProperties
  <2> QED
    BY <2>3, <2>4
<1>14. \A k, l \in DOMAIN todo' : todo'[k] = todo'[l] => k = l
  BY <1>10
<1> QED
  BY <1>1, <1>3, <1>4, <1>6, <1>7, <1>8, <1>9, <1>11, <1>12, <1>13, <1>14

(* A tool's result: its call is open and waits no longer.                  *)
LEMMA ToolStep ==
    ASSUME Inv, RunTool
    PROVE  LET c == Head(todo) IN
           /\ pc = "tools" /\ client' = client
           /\ messages' = Append(messages, ToolResult(c)) /\ ToolResult(c) \in Message
           /\ messages' \in Seq(Message) /\ Len(messages') = Len(messages) + 1
           /\ Known(messages')
           /\ c \in Waiting /\ c \in OpenCalls(messages) \ Inherited
           /\ OpenCalls(messages') = OpenCalls(messages) \ {c}
           /\ Inherited' = Inherited
           /\ Waiting' = Waiting \ {c}
           /\ todo' = <<>> <=> Waiting' = {}
           /\ todo' \in Seq(CallIds) /\ Len(todo') = Len(todo) - 1
           /\ \A k, l \in DOMAIN todo' : todo'[k] = todo'[l] => k = l
<1> DEFINE c == Head(todo)
<1>1. /\ pc = "tools" /\ client' = client /\ posted' = posted /\ todo' = Tail(todo)
      /\ messages' = Append(messages, ToolResult(c))
  BY DEF RunTool
<1>2. /\ c \in CallIds /\ c[1] <= Len(messages)
      /\ c \in Waiting /\ c \in OpenCalls(messages) \ Inherited
      /\ todo' \in Seq(CallIds) /\ Len(todo') = Len(todo) - 1
      /\ {todo'[k] : k \in DOMAIN todo'} = Waiting \ {c}
      /\ \A k, l \in DOMAIN todo' : todo'[k] = todo'[l] => k = l
  BY <1>1, NextCall
<1>3. Waiting' = Waiting \ {c}
  BY <1>2 DEF Waiting
<1>4. todo' = <<>> <=> Waiting' = {}
  <2>1. todo' = <<>> <=> DOMAIN todo' = {}
    BY <1>2
  <2> QED
    BY <2>1 DEF Waiting
<1> HIDE DEF c
<1>5. ToolResult(c) \in Message
  BY <1>2, ResultIsMessage
<1>6. messages \in Seq(Message) /\ Known(messages)
  BY DEF Inv, TypeOK
<1>7. messages' \in Seq(Message) /\ Len(messages') = Len(messages) + 1
  BY <1>1, <1>5, <1>6
<1>8. Known(messages') /\ OpenCalls(messages') = OpenCalls(messages) \ {c}
  BY <1>1, <1>2, <1>6, ResultCloses
<1>9. Inherited' = Inherited
  BY <1>1, <1>5, InheritedStays
<1>10. /\ todo' \in Seq(CallIds) /\ Len(todo') = Len(todo) - 1
       /\ \A k, l \in DOMAIN todo' : todo'[k] = todo'[l] => k = l
       /\ c \in Waiting /\ c \in OpenCalls(messages) \ Inherited
  BY <1>2
<1> QED
  BY <1>1, <1>3, <1>4, <1>5, <1>7, <1>8, <1>9, <1>10 DEF c

(* A turn that ends the request: its calls stay open, those it found too.  *)
LEMMA AnswerTurn ==
    ASSUME Inv, ModelAnswers
    PROVE  \E n \in 0..MaxCalls :
              LET m == AssistantTurn(messages, n) IN
              /\ Respond(Append(messages, m), {Len(messages) + 1}, step + 1)
              /\ m \in Message /\ m.calls \subseteq CallIds
              /\ client' = Append(messages, m)
              /\ client' \in Seq(Message) /\ Len(client') = Len(messages) + 1
              /\ Known(client')
              /\ m.calls \cap Made(messages) = {}
              /\ OpenCalls(client') = Inherited \cup m.calls
<1>1. PICK n \in 0..MaxCalls :
         Respond(Append(messages, AssistantTurn(messages, n)), {Len(messages) + 1}, step + 1)
  BY DEF ModelAnswers
<1>2. messages \in Seq(Message) /\ Known(messages) /\ OpenCalls(messages) = Inherited
  BY DEF Inv, TypeOK, Rounds, ModelAnswers
<1>3. client' = Append(messages, AssistantTurn(messages, n))
  BY <1>1 DEF Respond
<1>4. AssistantTurn(messages, n) \in Message /\ AssistantTurn(messages, n).calls \subseteq CallIds
  BY <1>2, TurnIsMessage
<1>5. client' \in Seq(Message) /\ Len(client') = Len(messages) + 1
  BY <1>2, <1>3, <1>4
<1>6. /\ Known(client')
      /\ AssistantTurn(messages, n).calls \cap Made(messages) = {}
      /\ OpenCalls(client') = Inherited \cup AssistantTurn(messages, n).calls
  BY <1>2, <1>3, TurnOpens
<1> QED
  BY <1>1, <1>3, <1>4, <1>5, <1>6

(* The list a request begins with: nothing in it is of this request.       *)
LEMMA BeginKeepsInv ==
    ASSUME Inv, pc = "client", NEW ms \in Seq(Message), Known(ms), NEW n \in Asked, Begin(ms, n)
    PROVE  Inv' /\ Inherited' = OpenCalls(ms)
<1>1. n \in Int
  BY AgentAssumption
<1>2. max_steps' \in Int /\ max_steps' <= StepLimit
  BY <1>1, CappedIsSmall DEF Begin
<1>3. TypeOK'
  BY <1>2, AgentAssumption DEF Inv, TypeOK, Begin
<1>4. SubSeq(ms, 1, Len(ms)) = ms
  OBVIOUS
<1>5. Inherited' = OpenCalls(ms)
  BY <1>4 DEF Inherited, Begin
<1>6. Rounds'
  BY <1>5 DEF Inv, Rounds, Begin
<1> QED
  BY <1>3, <1>5, <1>6 DEF Inv, Begin

LEMMA InvStep == Inv /\ [Next]_vars => Inv'
<1> SUFFICES ASSUME Inv, [Next]_vars PROVE Inv'
  OBVIOUS
<1> USE AgentAssumption
<1>1. ASSUME NEW n \in Asked, PostQuery(n) PROVE Inv'
  BY <1>1, QueryIsClosed, BeginKeepsInv DEF PostQuery
<1>2. ASSUME NEW n \in Asked, PostMessages(n) PROVE Inv'
  <2>1. /\ Append(client, Say("user")) \in Seq(Message)
        /\ Known(Append(client, Say("user")))
    BY SayKeepsOpen, SayIsMessage DEF Inv, TypeOK, Roles
  <2> QED
    BY <1>2, <2>1, BeginKeepsInv DEF PostMessages
<1>3. CASE Refuse
  <2>1. TypeOK'
    BY <1>3 DEF Inv, TypeOK, Refuse, Reply
  <2> QED
    BY <1>3, <2>1 DEF Inv, Rounds, Refuse, Waiting, Inherited
<1>4. CASE Fail
  <2>1. client' = client /\ Return([status |-> "error", answer |-> {}, steps |-> 0])
    BY <1>4 DEF Fail
  <2>2. [status |-> "error", answer |-> {}, steps |-> 0] \in Reply
    BY DEF Reply
  <2> QED
    BY <2>1, <2>2, ReturnKeepsInv DEF Inv, TypeOK
<1>5. CASE ModelAnswers
  <2>1. /\ Return([status |-> "ok", answer |-> {Len(messages) + 1}, steps |-> step + 1])
        /\ client' \in Seq(Message) /\ Known(client')
    BY <1>5, AnswerTurn DEF Respond
  <2>2. [status |-> "ok", answer |-> {Len(messages) + 1}, steps |-> step + 1] \in Reply
    BY DEF Inv, TypeOK, Reply
  <2> QED
    BY <2>1, <2>2, ReturnKeepsInv
<1>6. CASE ModelCalls
  <2>1. /\ messages' \in Seq(Message) /\ Known(messages') /\ Len(messages') = Len(messages) + 1
        /\ OpenCalls(messages') = Inherited' \cup Waiting'
        /\ Inherited' \cap Waiting' = {}
        /\ todo' \in Seq(CallIds) /\ Len(todo') <= MaxCalls /\ todo' # <<>>
        /\ \A k, l \in DOMAIN todo' : todo'[k] = todo'[l] => k = l
    BY <1>6, CallsStep
  <2>2. /\ pc' = "tools" /\ step < max_steps
        /\ UNCHANGED <<client, posted, max_steps, step, reply>>
    BY <1>6 DEF ModelCalls
  <2>3. TypeOK'
    BY <2>1, <2>2 DEF Inv, TypeOK
  <2>4. Rounds'
    BY <2>1, <2>2 DEF Inv, TypeOK, Rounds
  <2> QED
    BY <2>1, <2>2, <2>3, <2>4 DEF Inv
<1>7. CASE RunTool
  <2> DEFINE c == Head(todo)
  <2>1. /\ pc = "tools" /\ client' = client
        /\ messages' \in Seq(Message) /\ Known(messages') /\ Len(messages') = Len(messages) + 1
        /\ c \in Waiting /\ c \in OpenCalls(messages) \ Inherited
        /\ OpenCalls(messages') = OpenCalls(messages) \ {c}
        /\ Inherited' = Inherited /\ Waiting' = Waiting \ {c}
        /\ todo' = <<>> <=> Waiting' = {}
        /\ todo' \in Seq(CallIds) /\ Len(todo') = Len(todo) - 1
        /\ \A k, l \in DOMAIN todo' : todo'[k] = todo'[l] => k = l
    BY <1>7, ToolStep
  <2> HIDE DEF c
  <2>2. /\ step < max_steps /\ step \in Nat /\ max_steps \in Int /\ max_steps <= StepLimit
        /\ step + 1 \in 0..StepLimit
        /\ OpenCalls(messages) = Inherited \cup Waiting
        /\ Inherited \cap Waiting = {}
    BY <2>1 DEF Inv, TypeOK, Rounds
  <2>3. UNCHANGED <<posted, max_steps, reply>>
    BY <1>7 DEF RunTool
  <2>4. \/ todo' = <<>> /\ pc' = "model" /\ step' = step + 1
        \/ todo' # <<>> /\ pc' = "tools" /\ step' = step
    BY <1>7, <2>1 DEF RunTool
  <2>5. TypeOK'
    <3>1. Len(todo') <= MaxCalls
      BY <2>1 DEF Inv, TypeOK
    <3> QED
      BY <2>1, <2>2, <2>3, <2>4, <3>1 DEF Inv, TypeOK
  <2>6. OpenCalls(messages') = Inherited' \cup Waiting' /\ Inherited' \cap Waiting' = {}
    BY <2>1, <2>2
  <2>7. posted' <= Len(messages')
    BY <2>1, <2>3 DEF Inv, TypeOK, Rounds
  <2>8. Rounds'
    BY <2>1, <2>2, <2>3, <2>4, <2>6, <2>7 DEF Rounds
  <2> QED
    BY <2>1, <2>5, <2>8 DEF Inv
<1>8. CASE RunsOut
  <2>1. /\ Return([status |-> "ok", answer |-> LastTurn(messages), steps |-> max_steps])
        /\ client' = messages
    BY <1>8 DEF RunsOut, Respond
  <2>2. [status |-> "ok", answer |-> LastTurn(messages), steps |-> max_steps] \in Reply
    BY LastTurnIsPosition DEF Inv, TypeOK, Reply
  <2> QED
    BY <2>1, <2>2, ReturnKeepsInv DEF Inv, TypeOK
<1>9. CASE UNCHANGED vars
  BY <1>9 DEF vars, Inv, TypeOK, Rounds, Waiting, Inherited
<1> QED
  BY <1>1, <1>2, <1>3, <1>4, <1>5, <1>6, <1>7, <1>8, <1>9
     DEF Next, Serve, ModelFails, ToolRaises

LEMMA InvHolds == Spec => []Inv
  BY InvInit, InvStep, PTL DEF Spec

(* Every reachable state is well typed: no request takes more rounds than   *)
(* the limit, whatever max_steps the client sends.                         *)
THEOREM TypeCorrect == Spec => []TypeOK
<1>1. Inv => TypeOK
  BY DEF Inv
<1> QED
  BY <1>1, InvHolds, PTL

-----------------------------------------------------------------------------
(* The refinement: each step of the loop is a step of the dialogue or       *)
(* leaves it as it is.                                                     *)

LEMMA DialogueInit == Init => Dialogue!Init
  BY EmptyIsKnown DEF Init, Dialogue!Init, Left

LEMMA BeginIsAsk ==
    ASSUME Inv, pc = "client", NEW ms \in Seq(Message), Known(ms), NEW n \in Asked, Begin(ms, n),
           OpenCalls(ms) \in {OpenCalls(client), {}}
    PROVE  Dialogue!Ask
<1>1. max_steps' \in Int /\ max_steps' <= StepLimit
  BY CappedIsSmall, AgentAssumption DEF Begin
<1>2. Left' \in 0..StepLimit
  BY <1>1, AgentAssumption DEF Begin, Left
<1>3. Inherited' = OpenCalls(ms) /\ OpenCalls(messages') = OpenCalls(ms)
  BY BeginKeepsInv DEF Begin
<1> QED
  BY <1>2, <1>3 DEF Begin, Dialogue!Ask

LEMMA ReturnIsEnd ==
    ASSUME NEW response, Return(response) PROVE Dialogue!End
  BY DEF Return, Dialogue!End, Left

LEMMA FailIsFail ==
    ASSUME pc # "client", Fail
    PROVE  Dialogue!Fail
  BY ReturnIsEnd DEF Fail, Dialogue!Fail

LEMMA DialogueStep == Inv /\ [Next]_vars => [Dialogue!Next]_(Dialogue!vars)
<1> SUFFICES ASSUME Inv, [Next]_vars PROVE [Dialogue!Next]_(Dialogue!vars)
  OBVIOUS
<1> USE AgentAssumption
<1>1. ASSUME NEW n \in Asked, PostQuery(n) PROVE Dialogue!Ask
  BY <1>1, BeginIsAsk, QueryIsClosed DEF PostQuery
<1>2. ASSUME NEW n \in Asked, PostMessages(n) PROVE Dialogue!Ask
  <2>1. /\ Append(client, Say("user")) \in Seq(Message)
        /\ Known(Append(client, Say("user")))
        /\ OpenCalls(Append(client, Say("user"))) = OpenCalls(client)
    BY SayKeepsOpen, SayIsMessage DEF Inv, TypeOK, Roles
  <2> QED
    BY <1>2, <2>1, BeginIsAsk DEF PostMessages
<1>3. CASE Refuse
  BY <1>3 DEF Refuse, Dialogue!vars, Left, Inherited
<1>4. CASE ModelFails
  BY <1>4, FailIsFail DEF ModelFails, Dialogue!Next
<1>5. CASE ModelAnswers
  <2>1. PICK n \in 0..MaxCalls :
           /\ Respond(Append(messages, AssistantTurn(messages, n)), {Len(messages) + 1}, step + 1)
           /\ AssistantTurn(messages, n).calls \subseteq CallIds
           /\ OpenCalls(client') = Inherited \cup AssistantTurn(messages, n).calls
           /\ Known(client')
    BY <1>5, AnswerTurn
  <2>2. /\ pc = "model" /\ OpenCalls(messages) = Inherited /\ step < max_steps
        /\ step \in Int /\ max_steps \in Int
    BY <1>5 DEF ModelAnswers, Inv, TypeOK, Rounds
  <2>3. Left > 0
    BY <2>2 DEF Left
  <2>4. Inherited \subseteq CallIds
    <3>1. \A i \in DOMAIN messages : messages[i] \in Message
      BY DEF Inv, TypeOK
    <3>2. \A i \in DOMAIN messages : messages[i].calls \subseteq CallIds
      BY <3>1 DEF Message
    <3> QED
      BY <2>2, <3>2 DEF OpenCalls, Made
  <2>5. Dialogue!End
    BY <2>1, ReturnIsEnd DEF Respond
  <2>6. Dialogue!Speak
    BY <2>1, <2>2, <2>3, <2>4, <2>5 DEF Dialogue!Speak
  <2> QED
    BY <2>6 DEF Dialogue!Next
<1>6. CASE ModelCalls
  <2>1. PICK n \in 1..MaxCalls :
           LET m == AssistantTurn(messages, n) IN
           /\ m.calls # {} /\ m.calls \subseteq CallIds
           /\ OpenCalls(messages') = Inherited \cup m.calls
           /\ Inherited \cap m.calls = {}
           /\ Inherited' = Inherited
    BY <1>6, CallsStep
  <2>2. /\ pc = "model" /\ pc' = "tools" /\ OpenCalls(messages) = Inherited /\ step < max_steps
        /\ step' = step /\ max_steps' = max_steps /\ client' = client
        /\ step \in Int /\ max_steps \in Int
    BY <1>6 DEF ModelCalls, Inv, TypeOK, Rounds
  <2>3. Left > 0 /\ Left' = Left
    BY <2>2 DEF Left
  <2>4. OpenCalls(messages') \ Inherited' = AssistantTurn(messages, n).calls
    BY <2>1
  <2>5. Dialogue!Speak
    BY <2>1, <2>2, <2>3, <2>4 DEF Dialogue!Speak
  <2> QED
    BY <2>5 DEF Dialogue!Next
<1>7. CASE RunTool
  <2> DEFINE c == Head(todo)
  <2>1. /\ pc = "tools" /\ client' = client
        /\ c \in Waiting /\ c \in OpenCalls(messages) \ Inherited
        /\ OpenCalls(messages') = OpenCalls(messages) \ {c}
        /\ Inherited' = Inherited /\ Waiting' = Waiting \ {c}
        /\ todo' = <<>> <=> Waiting' = {}
    BY <1>7, ToolStep
  <2> HIDE DEF c
  <2>2. /\ step < max_steps /\ step \in Nat /\ max_steps \in Int /\ max_steps' = max_steps
        /\ OpenCalls(messages) = Inherited \cup Waiting
        /\ Inherited \cap Waiting = {}
    BY <1>7, <2>1 DEF Inv, TypeOK, Rounds, RunTool
  <2>3. /\ OpenCalls(messages) \ Inherited = Waiting
        /\ OpenCalls(messages') \ Inherited' = Waiting \ {c}
    BY <2>1, <2>2
  <2>4. CASE todo' = <<>>
    <3>1. pc' = "model" /\ step' = step + 1
      BY <1>7, <2>4 DEF RunTool
    <3>2. Left' = Left - 1
      BY <2>1, <2>2, <3>1 DEF Left
    <3>3. Dialogue!Use
      BY <2>1, <2>3, <2>4, <3>1, <3>2 DEF Dialogue!Use
    <3> QED
      BY <3>3 DEF Dialogue!Next
  <2>5. CASE todo' # <<>>
    <3>1. pc' = "tools" /\ step' = step
      BY <1>7, <2>1, <2>5 DEF RunTool
    <3>2. Left' = Left
      BY <2>1, <2>2, <3>1 DEF Left
    <3>3. Dialogue!Use
      BY <2>1, <2>3, <2>5, <3>1, <3>2 DEF Dialogue!Use
    <3> QED
      BY <3>3 DEF Dialogue!Next
  <2> QED
    BY <2>4, <2>5
<1>8. CASE ToolRaises
  BY <1>8, FailIsFail DEF ToolRaises, Dialogue!Next
<1>9. CASE RunsOut
  <2>1. /\ pc = "model" /\ client' = messages /\ Left = 0
        /\ OpenCalls(messages) = Inherited
    BY <1>9 DEF RunsOut, Respond, Left, Inv, Rounds
  <2>2. Dialogue!End
    BY <1>9, ReturnIsEnd DEF RunsOut, Respond
  <2>3. Dialogue!Exhaust
    BY <2>1, <2>2 DEF Dialogue!Exhaust
  <2> QED
    BY <2>3 DEF Dialogue!Next
<1>10. CASE UNCHANGED vars
  BY <1>10 DEF vars, Dialogue!vars, Left, Inherited
<1> QED
  BY <1>1, <1>2, <1>3, <1>4, <1>5, <1>6, <1>7, <1>8, <1>9, <1>10
     DEF Next, Serve, Dialogue!Next

(* The handler implements the dialogue, for every limit, every max_steps    *)
(* and every number of calls per turn.                                     *)
THEOREM Implements == Spec => ImplementsDialogue
  BY DialogueInit, DialogueStep, InvHolds, PTL DEF Spec, Dialogue!Spec, ImplementsDialogue
-----------------------------------------------------------------------------
(* A conversation only grows at its end while a request is under way.      *)

\* One step of the handler: what it does to the list and where it leaves the client.
Growing ==
    pc # "client" =>
        IF pc' = "client"
        THEN IF reply'.status = "ok" THEN SamePrefix(client', messages, posted)
                                     ELSE client' = client
        ELSE posted' = posted /\ client' = client /\ SamePrefix(messages', messages, posted)

LEMMA FailGrows ==
    ASSUME Fail PROVE Growing
  BY DEF Fail, Return, Growing

LEMMA GrowStep == Inv /\ [Next]_vars => [Growing]_vars
<1> SUFFICES ASSUME Inv, [Next]_vars PROVE Growing
  OBVIOUS
<1>1. /\ messages \in Seq(Message) /\ posted \in Nat
      /\ Len(messages) \in Nat /\ posted <= Len(messages)
  BY DEF Inv, TypeOK, Rounds
<1>2. ASSUME NEW m \in Message PROVE SamePrefix(Append(messages, m), messages, posted)
  BY <1>1, PrefixOfAppend DEF SamePrefix
<1>3. CASE pc = "client"
  BY <1>3 DEF Growing
<1>4. CASE ModelFails \/ ToolRaises
  BY <1>4, FailGrows DEF ModelFails, ToolRaises
<1>5. CASE ModelAnswers
  <2>1. PICK m \in Message : client' = Append(messages, m)
    BY <1>5, AnswerTurn
  <2>2. pc' = "client" /\ reply'.status = "ok"
    BY <1>5 DEF ModelAnswers, Respond, Return
  <2> QED
    BY <1>2, <2>1, <2>2 DEF Growing
<1>6. CASE ModelCalls
  <2>1. PICK m \in Message : messages' = Append(messages, m)
    BY <1>6, CallsStep
  <2> QED
    BY <1>2, <1>6, <2>1 DEF ModelCalls, Growing
<1>7. CASE RunTool
  <2>1. PICK m \in Message : messages' = Append(messages, m)
    BY <1>7, ToolStep
  <2>2. pc' \in {"model", "tools"} /\ posted' = posted /\ client' = client
    BY <1>7 DEF RunTool
  <2> QED
    BY <1>2, <2>1, <2>2 DEF Growing
<1>8. CASE RunsOut
  <2>1. client' = messages /\ pc' = "client" /\ reply'.status = "ok"
    BY <1>8 DEF RunsOut, Respond, Return
  <2> QED
    BY <1>1, <2>1 DEF Growing, SamePrefix
<1>9. CASE UNCHANGED vars
  BY <1>1, <1>9 DEF vars, Growing, SamePrefix
<1> QED
  BY <1>3, <1>4, <1>5, <1>6, <1>7, <1>8, <1>9
     DEF Next, Serve, PostQuery, PostMessages, Refuse

(* What the client posted comes back untouched at the head of the response, *)
(* and an error leaves it what it had.                                     *)
THEOREM Grows == Spec => ConversationsGrow
<1>1. Inv /\ [Next]_vars => [Growing]_vars
  BY GrowStep
<1> QED
  BY <1>1, InvHolds, PTL DEF Spec, ConversationsGrow, Growing

-----------------------------------------------------------------------------
(* Results stand where they belong, and which turns have open calls.       *)

LEMMA Appended ==
    ASSUME NEW ms \in Seq(Message), NEW m \in Message
    PROVE  /\ DOMAIN Append(ms, m) = DOMAIN ms \cup {Len(ms) + 1}
           /\ Append(ms, m)[Len(ms) + 1] = m
           /\ \A i \in DOMAIN ms : Append(ms, m)[i] = ms[i]
           /\ DOMAIN ms = 1..Len(ms) /\ Len(ms) \in Nat
  OBVIOUS

\* What a result has to be to stand at the end of ms: an answer to a turn it follows.
Follows(ms, m) ==
    \E i \in DOMAIN ms :
        /\ m.call \in ms[i].calls
        /\ \A k \in (i + 1)..Len(ms) : ms[k].role = "tool" /\ ms[k].call # m.call

LEMMA FollowAppend ==
    ASSUME NEW ms \in Seq(Message), NEW m \in Message, ResultsFollowTheirTurn(ms),
           m.role = "tool" => Follows(ms, m)
    PROVE  ResultsFollowTheirTurn(Append(ms, m))
<1> DEFINE ns == Append(ms, m)
<1>1. /\ DOMAIN ns = DOMAIN ms \cup {Len(ms) + 1}
      /\ ns[Len(ms) + 1] = m
      /\ \A i \in DOMAIN ms : ns[i] = ms[i]
      /\ DOMAIN ms = 1..Len(ms) /\ Len(ms) \in Nat
  BY Appended
<1> HIDE DEF ns
<1>2. ASSUME NEW j \in DOMAIN ns, ns[j].role = "tool"
      PROVE  \E i \in 1..(j - 1) :
                /\ ns[j].call \in ns[i].calls
                /\ \A k \in (i + 1)..(j - 1) : ns[k].role = "tool" /\ ns[k].call # ns[j].call
  <2>1. CASE j \in DOMAIN ms
    <3>1. PICK i \in 1..(j - 1) :
             /\ ms[j].call \in ms[i].calls
             /\ \A k \in (i + 1)..(j - 1) : ms[k].role = "tool" /\ ms[k].call # ms[j].call
      BY <1>1, <1>2, <2>1 DEF ResultsFollowTheirTurn
    <3>2. i \in DOMAIN ms /\ \A k \in (i + 1)..(j - 1) : k \in DOMAIN ms
      BY <1>1, <2>1
    <3>3. \A k \in (i + 1)..(j - 1) : ns[k].role = "tool" /\ ns[k].call # ns[j].call
      BY <1>1, <2>1, <3>1, <3>2
    <3> QED
      BY <1>1, <2>1, <3>1, <3>2, <3>3
  <2>2. CASE j = Len(ms) + 1
    <3>1. PICK i \in DOMAIN ms :
             /\ m.call \in ms[i].calls
             /\ \A k \in (i + 1)..Len(ms) : ms[k].role = "tool" /\ ms[k].call # m.call
      BY <1>1, <1>2, <2>2 DEF Follows
    <3>2. j - 1 = Len(ms) /\ i \in 1..(j - 1) /\ i \in Nat /\ i > 0
      BY <1>1, <2>2
    <3>3. \A k \in (i + 1)..(j - 1) : k \in DOMAIN ms /\ k \in (i + 1)..Len(ms)
      BY <1>1, <3>2
    <3>4. \A k \in (i + 1)..(j - 1) : ns[k].role = "tool" /\ ns[k].call # ns[j].call
      BY <1>1, <2>2, <3>1, <3>3
    <3>5. ns[j].call \in ns[i].calls
      BY <1>1, <2>2, <3>1
    <3> QED
      BY <3>2, <3>4, <3>5
  <2> QED
    BY <1>1, <2>1, <2>2
<1>3. ResultsFollowTheirTurn(ns)
  BY <1>2 DEF ResultsFollowTheirTurn
<1> QED
  BY <1>3 DEF ns

\* Only the message that is added can be a turn that becomes open.
LEMMA OpenTurnsAppend ==
    ASSUME NEW ms \in Seq(Message), NEW m \in Message, m.calls \cap Made(ms) = {},
           OpenCalls(Append(ms, m)) \subseteq OpenCalls(ms) \cup m.calls
    PROVE  \A i \in OpenTurns(Append(ms, m)) :
              \/ i \in OpenTurns(ms)
              \/ i = Len(ms) + 1 /\ m.calls # {}
<1> DEFINE ns == Append(ms, m)
<1>1. /\ DOMAIN ns = DOMAIN ms \cup {Len(ms) + 1}
      /\ ns[Len(ms) + 1] = m
      /\ \A i \in DOMAIN ms : ns[i] = ms[i]
  BY Appended
<1> HIDE DEF ns
<1>2. \A i \in DOMAIN ms : ms[i].calls \cap m.calls = {}
  BY DEF Made
<1>3. OpenCalls(ns) \subseteq OpenCalls(ms) \cup m.calls
  BY DEF ns
<1>4. \A i \in OpenTurns(ns) : i \in OpenTurns(ms) \/ (i = Len(ms) + 1 /\ m.calls # {})
  BY <1>1, <1>2, <1>3 DEF OpenTurns
<1> QED
  BY <1>4 DEF ns

LEMMA StartsPlaced ==
    /\ ResultsFollowTheirTurn(<<>>) /\ OpenTurns(<<>>) = {}
    /\ ResultsFollowTheirTurn(<<Say("system"), Say("user")>>)
    /\ OpenTurns(<<Say("system"), Say("user")>>) = {}
<1> DEFINE ms == <<Say("system"), Say("user")>>
<1>1. DOMAIN <<>> = {}
  OBVIOUS
<1>2. \A i \in DOMAIN ms : ms[i].role # "tool" /\ ms[i].calls = {}
  BY DEF Say
<1> HIDE DEF ms
<1>3. ResultsFollowTheirTurn(ms) /\ OpenTurns(ms) = {}
  BY <1>2 DEF ResultsFollowTheirTurn, OpenTurns
<1> QED
  BY <1>1, <1>3 DEF ResultsFollowTheirTurn, OpenTurns, ms

(* The strengthening: while tools run, the calls that wait are those of one *)
(* turn, only results follow it, and none of them is for a waiting call;   *)
(* any other open turn is one the client went on from.                     *)
GoneOn(i) == i \in DOMAIN messages /\ i < posted /\ messages[i + 1].role = "user"

Round(t) ==
    /\ t \in DOMAIN messages /\ posted < t
    /\ Waiting \subseteq messages[t].calls
    /\ messages[t].calls \cap Inherited = {}
    /\ \A k \in (t + 1)..Len(messages) :
          messages[k].role = "tool" /\ messages[k].call \notin Waiting
    /\ \A i \in OpenTurns(messages) : i = t \/ GoneOn(i)

Placed ==
    /\ ResultsFollowTheirTurn(messages)
    /\ ResultsFollowTheirTurn(client)
    /\ \A i \in OpenTurns(client) : i = Len(client) \/ client[i + 1].role = "user"
    /\ pc = "model" => \A i \in OpenTurns(messages) : GoneOn(i)
    /\ pc = "tools" => \E t \in DOMAIN messages : Round(t)

LEMMA GoneOnStays ==
    ASSUME Inv, NEW m \in Message, messages' = Append(messages, m), posted' = posted,
           NEW i, GoneOn(i)
    PROVE  GoneOn(i)'
<1>1. messages \in Seq(Message) /\ posted \in Nat /\ posted <= Len(messages)
  BY DEF Inv, TypeOK, Rounds
<1>2. i + 1 \in DOMAIN messages /\ i \in DOMAIN messages
  BY <1>1 DEF GoneOn
<1>3. messages'[i + 1] = messages[i + 1] /\ i \in DOMAIN messages'
  BY <1>1, <1>2, Appended
<1> QED
  BY <1>3 DEF GoneOn

\* Every way out but the model's answer leaves the client one of two conversations.
LEMMA ReturnIsPlaced ==
    ASSUME Placed, NEW response, Return(response),
           ResultsFollowTheirTurn(client'),
           \A i \in OpenTurns(client') : i = Len(client') \/ client'[i + 1].role = "user"
    PROVE  Placed'
  BY StartsPlaced DEF Placed, Return

LEMMA CallsPlaced == ASSUME Inv, Placed, ModelCalls PROVE Placed'
<1>1. PICK n \in 1..MaxCalls :
         LET m == AssistantTurn(messages, n) IN
         /\ m \in Message
         /\ messages' = Append(messages, m)
         /\ m.calls \cap Made(messages) = {}
         /\ OpenCalls(messages') = Inherited \cup m.calls
         /\ Inherited \cap m.calls = {}
         /\ Inherited' = Inherited
         /\ Waiting' = m.calls
  BY CallsStep
<1> DEFINE m == AssistantTurn(messages, n)
           t == Len(messages) + 1
<1>2. m.role = "assistant"
  BY DEF AssistantTurn
<1> HIDE DEF m
<1>3. /\ messages \in Seq(Message) /\ posted \in Nat /\ posted <= Len(messages)
      /\ OpenCalls(messages) = Inherited /\ pc = "model" /\ pc' = "tools"
      /\ posted' = posted /\ client' = client
  BY DEF Inv, TypeOK, Rounds, ModelCalls
<1>4. m \in Message /\ messages' = Append(messages, m) /\ m.calls \cap Made(messages) = {}
      /\ OpenCalls(messages') = Inherited \cup m.calls
      /\ Inherited' \cap m.calls = {} /\ Waiting' = m.calls
  BY <1>1 DEF m
<1>5. ResultsFollowTheirTurn(messages')
  BY <1>2, <1>3, <1>4, FollowAppend DEF Placed
<1>6. /\ t \in DOMAIN messages' /\ messages'[t] = m /\ Len(messages') = t /\ posted' < t
      /\ t \in Nat
  BY <1>3, <1>4, Appended
<1>7. \A i \in OpenTurns(messages') : i \in OpenTurns(messages) \/ i = t
  BY <1>3, <1>4, OpenTurnsAppend
<1>8. \A i \in OpenTurns(messages') : i = t \/ GoneOn(i)'
  BY <1>3, <1>4, <1>7, GoneOnStays DEF Placed
<1>9. (t + 1)..Len(messages') = {}
  BY <1>6
<1>10. \E u \in DOMAIN messages' : Round(u)'
  <2>1. /\ t \in DOMAIN messages' /\ posted' < t
        /\ Waiting' \subseteq messages'[t].calls
        /\ messages'[t].calls \cap Inherited' = {}
        /\ \A k \in (t + 1)..Len(messages') :
              messages'[k].role = "tool" /\ messages'[k].call \notin Waiting'
        /\ \A i \in OpenTurns(messages') : i = t \/ GoneOn(i)'
    BY <1>4, <1>6, <1>8, <1>9
  <2> HIDE DEF t
  <2>2. \A u : (/\ u \in DOMAIN messages' /\ posted' < u
                /\ Waiting' \subseteq messages'[u].calls
                /\ messages'[u].calls \cap Inherited' = {}
                /\ \A k \in (u + 1)..Len(messages') :
                      messages'[k].role = "tool" /\ messages'[k].call \notin Waiting'
                /\ \A i \in OpenTurns(messages') : i = u \/ GoneOn(i)') => Round(u)'
    BY DEF Round
  <2> QED
    BY <2>1, <2>2
<1> QED
  BY <1>3, <1>5, <1>10 DEF Placed

LEMMA ToolPlaced == ASSUME Inv, Placed, RunTool PROVE Placed'
<1> DEFINE c == Head(todo)
           m == ToolResult(c)
<1>1. /\ pc = "tools" /\ client' = client
      /\ messages' = Append(messages, m) /\ m \in Message
      /\ c \in Waiting
      /\ OpenCalls(messages') = OpenCalls(messages) \ {c}
      /\ Inherited' = Inherited
      /\ Waiting' = Waiting \ {c}
      /\ todo' = <<>> <=> Waiting' = {}
  BY ToolStep
<1>2. m.role = "tool" /\ m.call = c /\ m.calls = {}
  BY DEF ToolResult
<1> HIDE DEF c, m
<1>3. /\ messages \in Seq(Message) /\ posted \in Nat /\ posted' = posted
      /\ OpenCalls(messages) = Inherited \cup Waiting
      /\ \/ todo' = <<>> /\ pc' = "model"
         \/ todo' # <<>> /\ pc' = "tools"
  BY <1>1 DEF Inv, TypeOK, Rounds, RunTool
<1>4. PICK t \in DOMAIN messages : Round(t)
  BY <1>1 DEF Placed
<1>5. /\ Waiting \subseteq messages[t].calls /\ posted < t
      /\ messages[t].calls \cap Inherited = {}
      /\ \A k \in (t + 1)..Len(messages) :
            messages[k].role = "tool" /\ messages[k].call \notin Waiting
      /\ \A i \in OpenTurns(messages) : i = t \/ GoneOn(i)
  BY <1>4 DEF Round
<1>6. /\ DOMAIN messages' = DOMAIN messages \cup {Len(messages) + 1}
      /\ messages'[Len(messages) + 1] = m
      /\ \A i \in DOMAIN messages : messages'[i] = messages[i]
      /\ DOMAIN messages = 1..Len(messages) /\ Len(messages) \in Nat
      /\ Len(messages') = Len(messages) + 1
  BY <1>1, <1>3, Appended
<1>7. ResultsFollowTheirTurn(messages')
  <2>1. Follows(messages, m)
    <3>1. m.call \in messages[t].calls
      BY <1>1, <1>2, <1>5
    <3>2. \A k \in (t + 1)..Len(messages) :
             messages[k].role = "tool" /\ messages[k].call # m.call
      BY <1>1, <1>2, <1>5
    <3> QED
      BY <3>1, <3>2 DEF Follows
  <2> QED
    BY <1>1, <1>3, <2>1, FollowAppend DEF Placed
<1>8. \A i \in OpenTurns(messages') : i \in OpenTurns(messages)
  <2>1. m.calls \cap Made(messages) = {}
        /\ OpenCalls(messages') \subseteq OpenCalls(messages) \cup m.calls
    BY <1>1, <1>2
  <2> QED
    BY <1>1, <1>2, <1>3, <2>1, OpenTurnsAppend
<1>9. \A i \in OpenTurns(messages') : i = t \/ GoneOn(i)'
  BY <1>1, <1>3, <1>5, <1>8, GoneOnStays
<1>10. CASE todo' = <<>>
  <2>1. pc' = "model" /\ OpenCalls(messages') \subseteq Inherited
    BY <1>1, <1>3, <1>10
  <2>2. messages'[t].calls \cap OpenCalls(messages') = {}
    BY <1>5, <1>6, <2>1
  <2>3. t \notin OpenTurns(messages')
    BY <2>2 DEF OpenTurns
  <2> QED
    BY <1>1, <1>7, <1>9, <2>1, <2>3 DEF Placed
<1>11. CASE todo' # <<>>
  <2>1. ASSUME NEW k \in (t + 1)..Len(messages')
        PROVE  messages'[k].role = "tool" /\ messages'[k].call \notin Waiting'
    <3>1. k \in (t + 1)..Len(messages) \/ k = Len(messages) + 1
      BY <1>6
    <3>2. CASE k = Len(messages) + 1
      BY <1>1, <1>2, <1>6, <3>2
    <3>3. CASE k \in (t + 1)..Len(messages)
      <4>1. k \in DOMAIN messages
        BY <1>6, <3>3
      <4> QED
        BY <1>1, <1>5, <1>6, <3>3, <4>1
    <3> QED
      BY <3>1, <3>2, <3>3
  <2>2. /\ t \in DOMAIN messages' /\ posted' < t
        /\ Waiting' \subseteq messages'[t].calls
        /\ messages'[t].calls \cap Inherited' = {}
    BY <1>1, <1>3, <1>5, <1>6
  <2>3. Round(t)'
    BY <1>9, <2>1, <2>2 DEF Round
  <2> QED
    BY <1>1, <1>3, <1>7, <1>11, <2>2, <2>3 DEF Placed
<1> QED
  BY <1>10, <1>11

LEMMA PlacedStep == Inv /\ Placed /\ [Next]_vars => Placed'
<1> SUFFICES ASSUME Inv, Placed, [Next]_vars PROVE Placed'
  OBVIOUS
<1>1. /\ messages \in Seq(Message) /\ client \in Seq(Message)
      /\ posted \in Nat /\ posted <= Len(messages)
  BY DEF Inv, TypeOK, Rounds
<1>2. ASSUME NEW n \in Asked, PostQuery(n) PROVE Placed'
  BY <1>2, StartsPlaced DEF Placed, PostQuery, Begin
<1>3. ASSUME NEW n \in Asked, PostMessages(n) PROVE Placed'
  <2> DEFINE m == Say("user")
  <2>1. m \in Message /\ m.role = "user" /\ m.calls = {}
    BY SayIsMessage DEF Roles, Say
  <2>2. messages' = Append(client, m) /\ posted' = Len(messages') /\ client' = client
        /\ pc' = "model"
    BY <1>3 DEF PostMessages, Begin
  <2>3. OpenCalls(messages') = OpenCalls(client)
    BY <1>1, <2>2, SayKeepsOpen DEF Inv
  <2> HIDE DEF m
  <2>4. ResultsFollowTheirTurn(messages')
    BY <1>1, <2>1, <2>2, FollowAppend DEF Placed
  <2>5. \A i \in OpenTurns(messages') : i \in OpenTurns(client)
    <3>1. m.calls \cap Made(client) = {}
          /\ OpenCalls(messages') \subseteq OpenCalls(client) \cup m.calls
      BY <2>1, <2>3
    <3> QED
      BY <1>1, <2>1, <2>2, <3>1, OpenTurnsAppend
  <2>6. /\ DOMAIN messages' = DOMAIN client \cup {Len(client) + 1}
        /\ messages'[Len(client) + 1] = m
        /\ \A i \in DOMAIN client : messages'[i] = client[i]
        /\ DOMAIN client = 1..Len(client) /\ Len(client) \in Nat
        /\ Len(messages') = Len(client) + 1
    BY <1>1, <2>1, <2>2, Appended
  <2>7. ASSUME NEW i \in OpenTurns(messages') PROVE GoneOn(i)'
    <3>1. i \in DOMAIN client /\ (i = Len(client) \/ client[i + 1].role = "user")
      BY <2>5, <2>7 DEF Placed, OpenTurns
    <3>2. i \in DOMAIN messages' /\ i < posted'
      BY <2>2, <2>6, <3>1
    <3>3. messages'[i + 1].role = "user"
      <4>1. CASE i = Len(client)
        BY <2>1, <2>6, <4>1
      <4>2. CASE i # Len(client)
        <5>1. i + 1 \in DOMAIN client
          BY <2>6, <3>1, <4>2
        <5> QED
          BY <2>6, <3>1, <4>2, <5>1
      <4> QED
        BY <4>1, <4>2
    <3> QED
      BY <3>2, <3>3 DEF GoneOn
  <2> QED
    BY <2>2, <2>4, <2>7 DEF Placed
<1>4. CASE Refuse
  BY <1>4 DEF Placed, Refuse, Round, GoneOn, Waiting, Inherited
<1>5. CASE ModelFails \/ ToolRaises
  BY <1>5, StartsPlaced DEF Placed, ModelFails, ToolRaises, Fail, Return
<1>6. CASE ModelAnswers
  <2>1. PICK n \in 0..MaxCalls :
           LET m == AssistantTurn(messages, n) IN
           /\ Respond(Append(messages, m), {Len(messages) + 1}, step + 1)
           /\ m \in Message
           /\ client' = Append(messages, m)
           /\ m.calls \cap Made(messages) = {}
           /\ OpenCalls(client') = Inherited \cup m.calls
    BY <1>6, AnswerTurn
  <2> DEFINE m == AssistantTurn(messages, n)
  <2>2. m \in Message /\ m.role = "assistant" /\ client' = Append(messages, m)
    BY <2>1 DEF AssistantTurn
  <2>3. pc = "model" /\ OpenCalls(messages) = Inherited
    BY <1>6 DEF ModelAnswers, Inv, Rounds
  <2>4. /\ m.calls \cap Made(messages) = {}
        /\ OpenCalls(client') \subseteq OpenCalls(messages) \cup m.calls
    BY <2>1, <2>3
  <2> HIDE DEF m
  <2>5. ResultsFollowTheirTurn(client')
    BY <1>1, <2>2, FollowAppend DEF Placed
  <2>6. \A i \in OpenTurns(client') : i \in OpenTurns(messages) \/ i = Len(messages) + 1
    BY <1>1, <2>2, <2>4, OpenTurnsAppend
  <2>7. /\ Len(client') = Len(messages) + 1
        /\ \A i \in DOMAIN messages : client'[i] = messages[i]
    BY <1>1, <2>2, Appended
  <2>8. ASSUME NEW i \in OpenTurns(client')
        PROVE  i = Len(client') \/ client'[i + 1].role = "user"
    <3>1. CASE i \in OpenTurns(messages)
      <4>1. GoneOn(i)
        BY <2>3, <3>1 DEF Placed
      <4>2. i + 1 \in DOMAIN messages /\ messages[i + 1].role = "user"
        BY <1>1, <4>1 DEF GoneOn
      <4> QED
        BY <2>7, <4>2
    <3> QED
      BY <2>6, <2>7, <3>1
  <2> QED
    BY <2>1, <2>5, <2>8, ReturnIsPlaced DEF Respond
<1>7. CASE ModelCalls
  BY <1>7, CallsPlaced
<1>8. CASE RunTool
  BY <1>8, ToolPlaced
<1>9. CASE RunsOut
  <2>1. pc = "model" /\ client' = messages
    BY <1>9 DEF RunsOut, Respond
  <2>2. ResultsFollowTheirTurn(client')
        /\ \A i \in OpenTurns(client') : i = Len(client') \/ client'[i + 1].role = "user"
    BY <2>1 DEF Placed, GoneOn
  <2> QED
    BY <1>9, <2>2, ReturnIsPlaced DEF RunsOut, Respond
<1>10. CASE UNCHANGED vars
  BY <1>10 DEF vars, Placed, Round, GoneOn, Waiting, Inherited
<1> QED
  BY <1>2, <1>3, <1>4, <1>5, <1>6, <1>7, <1>8, <1>9, <1>10 DEF Next, Serve

(* Whatever the turns, tools, failures and continued conversations were:   *)
(* each result stands right after the turn it answers, no turn the client  *)
(* holds is half answered, and the model is asked only when the open calls *)
(* are those of turns the client itself went on from.                      *)
THEOREM WellFormed == Spec => []ConversationsAreWellFormed
<1>1. Init => Placed
  BY StartsPlaced DEF Init, Placed
<1>2. Placed => ConversationsAreWellFormed
  BY DEF Placed, ConversationsAreWellFormed, GoneOn
<1> QED
  BY <1>1, <1>2, PlacedStep, InvHolds, PTL DEF Spec
-----------------------------------------------------------------------------
(* The turns of a conversation: how many there are, and the last one.      *)

LEMMA TurnsAppend ==
    ASSUME NEW ms \in Seq(Message), NEW m \in Message
    PROVE  /\ m.role = "assistant" => Turns(Append(ms, m)) = Turns(ms) \cup {Len(ms) + 1}
           /\ m.role # "assistant" => Turns(Append(ms, m)) = Turns(ms)
<1>1. DOMAIN Append(ms, m) = DOMAIN ms \cup {Len(ms) + 1}
  OBVIOUS
<1>2. \A i \in DOMAIN ms : Append(ms, m)[i] = ms[i] /\ i # Len(ms) + 1
  OBVIOUS
<1>3. Append(ms, m)[Len(ms) + 1] = m
  OBVIOUS
<1> QED
  BY <1>1, <1>2, <1>3 DEF Turns

LEMMA TurnsAreFinite ==
    ASSUME NEW ms \in Seq(Message)
    PROVE  /\ IsFiniteSet(Turns(ms)) /\ Cardinality(Turns(ms)) \in Nat
           /\ Turns(ms) \subseteq 1..Len(ms)
<1>1. Turns(ms) \subseteq 1..Len(ms)
  BY DEF Turns
<1>2. IsFiniteSet(1..Len(ms))
  BY FS_Interval
<1> QED
  BY <1>1, <1>2, FS_Subset, FS_CardinalityType

\* What is posted adds nothing, a turn of the model adds one.
LEMMA NothingAdded ==
    ASSUME NEW ms \in Seq(Message)
    PROVE  TurnsAdded(ms, Len(ms)) = 0
<1>1. SubSeq(ms, 1, Len(ms)) = ms
  OBVIOUS
<1>2. Cardinality(Turns(ms)) \in Int
  BY TurnsAreFinite
<1>3. TurnsAdded(ms, Len(ms)) = Cardinality(Turns(ms)) - Cardinality(Turns(ms))
  BY <1>1, Zenon DEF TurnsAdded
<1> QED
  BY <1>2, <1>3

LEMMA AddedAppend ==
    ASSUME NEW ms \in Seq(Message), NEW m \in Message, NEW n \in Nat, n <= Len(ms)
    PROVE  /\ TurnsAdded(ms, n) \in Int
           /\ m.role = "assistant" => TurnsAdded(Append(ms, m), n) = TurnsAdded(ms, n) + 1
           /\ m.role # "assistant" => TurnsAdded(Append(ms, m), n) = TurnsAdded(ms, n)
<1>1. SubSeq(Append(ms, m), 1, n) = SubSeq(ms, 1, n) /\ SubSeq(ms, 1, n) \in Seq(Message)
  BY PrefixOfAppend
<1>2. /\ Cardinality(Turns(ms)) \in Nat /\ Cardinality(Turns(SubSeq(ms, 1, n))) \in Nat
      /\ IsFiniteSet(Turns(ms)) /\ Len(ms) + 1 \notin Turns(ms)
  <2>1. Turns(ms) \subseteq 1..Len(ms) /\ Len(ms) \in Nat
    BY TurnsAreFinite
  <2>2. Len(ms) + 1 \notin Turns(ms)
    BY <2>1
  <2> QED
    BY <1>1, <2>2, TurnsAreFinite
<1>3. Cardinality(Turns(ms) \cup {Len(ms) + 1}) = Cardinality(Turns(ms)) + 1
  BY <1>2, FS_AddElement
<1> DEFINE c == Cardinality(Turns(ms))
           d == Cardinality(Turns(SubSeq(ms, 1, n)))
           ns == Append(ms, m)
<1>4. c \in Int /\ d \in Int
  BY <1>2
<1>5. TurnsAdded(ms, n) = c - d
  BY Zenon DEF TurnsAdded
<1>6. TurnsAdded(ns, n) = Cardinality(Turns(ns)) - d
  BY <1>1, Zenon DEF TurnsAdded
<1>7. /\ m.role = "assistant" => Cardinality(Turns(ns)) = c + 1
      /\ m.role # "assistant" => Cardinality(Turns(ns)) = c
  BY <1>3, TurnsAppend
<1> HIDE DEF c, d, ns
<1>8. /\ TurnsAdded(ms, n) \in Int
      /\ m.role = "assistant" => TurnsAdded(ns, n) = TurnsAdded(ms, n) + 1
      /\ m.role # "assistant" => TurnsAdded(ns, n) = TurnsAdded(ms, n)
  BY <1>4, <1>5, <1>6, <1>7
<1> QED
  BY <1>8 DEF ns

\* A turn of the model is the last one; no other message changes which one is.
LEMMA LastTurnAppend ==
    ASSUME NEW ms \in Seq(Message), NEW m \in Message
    PROVE  /\ m.role = "assistant" => LastTurn(Append(ms, m)) = {Len(ms) + 1}
           /\ m.role # "assistant" => LastTurn(Append(ms, m)) = LastTurn(ms)
<1>1. Turns(ms) \subseteq 1..Len(ms) /\ Len(ms) \in Nat
  BY TurnsAreFinite
<1>2. ASSUME m.role = "assistant" PROVE LastTurn(Append(ms, m)) = {Len(ms) + 1}
  <2>1. Turns(Append(ms, m)) = Turns(ms) \cup {Len(ms) + 1}
    BY <1>2, TurnsAppend
  <2>2. \A i \in Turns(ms) : i \in Nat /\ i < Len(ms) + 1
    BY <1>1
  <2>3. \A i \in Turns(ms) : ~(Len(ms) + 1 <= i)
    BY <1>1
  <2>4. \A j \in Turns(ms) \cup {Len(ms) + 1} : j <= Len(ms) + 1
    BY <1>1
  <2> QED
    BY <2>1, <2>3, <2>4 DEF LastTurn
<1> QED
  BY <1>2, TurnsAppend DEF LastTurn

-----------------------------------------------------------------------------
(* Rounds and turns go together: each round that is over has added one     *)
(* turn, and the round whose tools run has added its own.                  *)

Added == step + (IF pc = "tools" THEN 1 ELSE 0)
NewTurn(ms) == \E i \in LastTurn(ms) : i > posted

Turning ==
    pc # "client" =>
        /\ TurnsAdded(messages, posted) = Added
        /\ NewTurn(messages) <=> Added > 0
        /\ step > 0 => step <= max_steps

LEMMA TurningStep == Inv /\ Turning /\ [Next]_vars => Turning'
<1> SUFFICES ASSUME Inv, Turning, [Next]_vars PROVE Turning'
  OBVIOUS
<1>1. /\ messages \in Seq(Message) /\ client \in Seq(Message) /\ messages' \in Seq(Message)
      /\ posted \in Nat /\ Len(messages) \in Nat /\ step \in Nat /\ max_steps \in Int
      /\ posted <= Len(messages)
  BY InvStep DEF Inv, TypeOK, Rounds
<1>2. ASSUME NEW n \in Asked, PostQuery(n) \/ PostMessages(n) PROVE Turning'
  <2>1. posted' = Len(messages') /\ step' = 0 /\ pc' = "model"
    BY <1>2 DEF PostQuery, PostMessages, Begin
  <2>2. TurnsAdded(messages', posted') = 0
    BY <1>1, <2>1, NothingAdded
  <2>3. \A i \in Turns(messages') : ~(i > posted')
    BY <1>1, <2>1, TurnsAreFinite
  <2>4. ~(\E i \in LastTurn(messages') : i > posted')
    BY <2>3 DEF LastTurn
  <2> QED
    BY <2>1, <2>2, <2>4 DEF Turning, Added, NewTurn
<1>3. CASE pc' = "client"
  BY <1>3 DEF Turning
<1>4. CASE ModelCalls
  <2>1. PICK n \in 1..MaxCalls :
           /\ AssistantTurn(messages, n) \in Message
           /\ messages' = Append(messages, AssistantTurn(messages, n))
    BY <1>4, CallsStep
  <2> DEFINE m == AssistantTurn(messages, n)
  <2>2. m \in Message /\ m.role = "assistant" /\ messages' = Append(messages, m)
    BY <2>1 DEF AssistantTurn
  <2> HIDE DEF m
  <2>3. /\ pc = "model" /\ pc' = "tools" /\ step' = step /\ posted' = posted
        /\ max_steps' = max_steps
    BY <1>4 DEF ModelCalls
  <2>4. TurnsAdded(messages', posted) = TurnsAdded(messages, posted) + 1
    BY <1>1, <2>2, AddedAppend
  <2>5. LastTurn(messages') = {Len(messages) + 1} /\ Len(messages) + 1 > posted
    BY <1>1, <2>2, LastTurnAppend
  <2> QED
    BY <1>1, <2>3, <2>4, <2>5 DEF Turning, Added, NewTurn
<1>5. CASE RunTool
  <2> DEFINE m == ToolResult(Head(todo))
  <2>1. /\ m \in Message /\ m.role # "assistant" /\ messages' = Append(messages, m)
        /\ pc = "tools"
    BY <1>5, ToolStep DEF ToolResult
  <2> HIDE DEF m
  <2>2. /\ posted' = posted /\ max_steps' = max_steps /\ step < max_steps
        /\ \/ pc' = "tools" /\ step' = step
           \/ pc' = "model" /\ step' = step + 1
    BY <1>5, <2>1 DEF RunTool, Inv, Rounds
  <2>3. TurnsAdded(messages', posted) = TurnsAdded(messages, posted)
    BY <1>1, <2>1, AddedAppend
  <2>4. LastTurn(messages') = LastTurn(messages)
    BY <1>1, <2>1, LastTurnAppend
  <2>5. Added' = Added /\ Added \in Nat
    BY <1>1, <2>1, <2>2 DEF Added
  <2>6. step' <= max_steps'
    BY <1>1, <2>2
  <2> QED
    BY <2>1, <2>2, <2>3, <2>4, <2>5, <2>6 DEF Turning, NewTurn
<1>6. CASE UNCHANGED vars
  BY <1>6 DEF vars, Turning, Added, NewTurn
<1>7. Refuse \/ ModelFails \/ ModelAnswers \/ ToolRaises \/ RunsOut => pc' = "client"
  BY DEF Refuse, ModelFails, ModelAnswers, ToolRaises, RunsOut, Fail, Respond, Return
<1> QED
  BY <1>2, <1>3, <1>4, <1>5, <1>6, <1>7 DEF Next, Serve

LEMMA TurningHolds == Spec => []Turning
<1>1. Init => Turning
  BY DEF Init, Turning
<1> QED
  BY <1>1, TurningStep, InvHolds, PTL DEF Spec

\* The two ways to a response, and what they say of it.
LEMMA AnswerStep ==
    ASSUME Inv, Turning, ModelAnswers \/ RunsOut
    PROVE  /\ reply'.steps <= max_steps /\ max_steps <= StepLimit
           /\ reply'.steps >= 0 => TurnsAdded(client', posted) = reply'.steps
           /\ reply'.steps < 0 => TurnsAdded(client', posted) = 0 /\ reply'.steps = max_steps
           /\ reply'.steps < max_steps => client'[Len(client')].role = "assistant"
           /\ reply'.answer = LastTurn(client')
           /\ (\E i \in reply'.answer : i > posted) <=> reply'.steps > 0
<1>1. /\ messages \in Seq(Message) /\ posted \in Nat /\ Len(messages) \in Nat
      /\ step \in Nat /\ max_steps \in Int /\ max_steps <= StepLimit /\ StepLimit \in Nat
  BY AgentAssumption DEF Inv, TypeOK
<1>2. /\ pc = "model" /\ posted <= Len(messages)
      /\ TurnsAdded(messages, posted) = step
      /\ NewTurn(messages) <=> step > 0
      /\ step > 0 => step <= max_steps
  BY <1>1 DEF ModelAnswers, RunsOut, Inv, Rounds, Turning, Added
<1>3. CASE ModelAnswers
  <2>1. PICK n \in 0..MaxCalls :
           /\ Respond(Append(messages, AssistantTurn(messages, n)), {Len(messages) + 1}, step + 1)
           /\ AssistantTurn(messages, n) \in Message
    BY <1>3, AnswerTurn
  <2> DEFINE m == AssistantTurn(messages, n)
  <2>2. /\ client' = Append(messages, m)
        /\ reply'.answer = {Len(messages) + 1} /\ reply'.steps = step + 1
    BY <2>1 DEF Respond, Return
  <2>3. m \in Message /\ m.role = "assistant"
    BY <2>1 DEF AssistantTurn
  <2>4. step < max_steps
    BY <1>3 DEF ModelAnswers
  <2> HIDE DEF m
  <2>5. TurnsAdded(client', posted) = step + 1
    BY <1>1, <1>2, <2>2, <2>3, AddedAppend
  <2>6. LastTurn(client') = {Len(messages) + 1}
    BY <1>1, <2>2, <2>3, LastTurnAppend
  <2>7. client'[Len(client')].role = "assistant"
    BY <1>1, <2>2, <2>3
  <2> QED
    BY <1>1, <1>2, <2>2, <2>4, <2>5, <2>6, <2>7
<1>4. CASE RunsOut
  <2>1. /\ client' = messages /\ step >= max_steps
        /\ reply'.answer = LastTurn(messages) /\ reply'.steps = max_steps
    BY <1>4 DEF RunsOut, Respond, Return
  <2>2. max_steps < 0 => step = 0
    BY <1>1, <1>2
  <2>3. max_steps >= 0 => step = max_steps
    BY <1>1, <1>2, <2>1
  <2> QED
    BY <1>1, <1>2, <2>1, <2>2, <2>3 DEF NewTurn
<1> QED
  BY <1>3, <1>4

LEMMA OkIsAnswer ==
    ASSUME [Next]_vars, pc = "model", pc' = "client", reply'.status = "ok"
    PROVE  ModelAnswers \/ RunsOut
<1>1. ~ModelFails
  BY DEF ModelFails, Fail, Return
<1> QED
  BY <1>1 DEF Next, Serve, PostQuery, PostMessages, Refuse, ModelCalls, RunTool, ToolRaises, vars

(* "steps" is the number of turns the request added, by either way out and *)
(* for every limit and max_steps: a negative one adds none and is given    *)
(* back as it is.                                                          *)
THEOREM StepsAreTurns == Spec => StepsCountTurns
<1> DEFINE Counts ==
        (pc = "model" /\ pc' = "client" /\ reply'.status = "ok") =>
            /\ reply'.steps <= max_steps /\ max_steps <= StepLimit
            /\ reply'.steps >= 0 => TurnsAdded(client', posted) = reply'.steps
            /\ reply'.steps < 0 => TurnsAdded(client', posted) = 0 /\ reply'.steps = max_steps
            /\ reply'.steps < max_steps => client'[Len(client')].role = "assistant"
<1>1. Inv /\ Turning /\ [Next]_vars => [Counts]_vars
  BY OkIsAnswer, AnswerStep
<1> QED
  BY <1>1, InvHolds, TurningHolds, PTL DEF Spec, StepsCountTurns

(* The answer is the last turn of the returned conversation, and a new one *)
(* unless the request allowed no step.                                     *)
THEOREM AnswersAreLast == Spec => AnswerIsTheLastTurn
<1> DEFINE Last == (pc = "model" /\ pc' = "client" /\ reply'.status = "ok") =>
                       /\ reply'.answer =
                              {i \in Turns(client') : \A j \in Turns(client') : j <= i}
                       /\ (\E i \in reply'.answer : i > posted) <=> reply'.steps > 0
<1>1. Inv /\ Turning /\ [Next]_vars => [Last]_vars
  BY OkIsAnswer, AnswerStep DEF LastTurn
<1> QED
  BY <1>1, InvHolds, TurningHolds, PTL DEF Spec, AnswerIsTheLastTurn
-----------------------------------------------------------------------------
(* Why a request ends.                                                     *)

\* One step nearer to the response.
Nearer ==
    \/ Left' \in Nat /\ Left' < Left
    \/ Left' = Left /\ RoundLeft' \in Nat /\ RoundLeft' < RoundLeft

\* A handler that returns has no round left.
LEMMA ReturnIsNearer ==
    ASSUME Inv, pc # "client", NEW response, Return(response) PROVE Nearer
<1>1. Left' = 0 /\ RoundLeft' = 0
  BY DEF Return, Left, RoundLeft
<1>2. Left \in Nat
  BY AgentAssumption DEF Inv, TypeOK, Left
<1>3. RoundLeft \in Nat /\ RoundLeft > 0
  <2>1. pc = "tools" => Len(todo) \in Nat /\ Len(todo) > 0
    BY DEF Inv, TypeOK, Rounds
  <2> QED
    BY <2>1, AgentAssumption DEF Inv, TypeOK, RoundLeft
<1> QED
  BY <1>1, <1>2, <1>3 DEF Nearer

\* Calls are part of the round; the result of the last one ends it.
LEMMA CallsAreNearer == ASSUME Inv, ModelCalls PROVE Nearer
<1>1. PICK n \in 1..MaxCalls : Len(todo') = n
  BY CallsStep
<1>2. RoundLeft = MaxCalls + 1 /\ RoundLeft' = n
  BY <1>1 DEF ModelCalls, RoundLeft
<1>3. Left' = Left
  BY DEF ModelCalls, Left
<1> QED
  BY <1>1, <1>2, <1>3, AgentAssumption DEF Nearer

LEMMA ResultIsNearer == ASSUME Inv, RunTool PROVE Nearer
<1>1. /\ step \in Nat /\ max_steps \in Int /\ step < max_steps
      /\ todo \in Seq(CallIds) /\ todo # <<>> /\ pc = "tools"
  BY DEF Inv, TypeOK, Rounds, RunTool
<1>2. Len(todo) \in Nat /\ Len(todo) > 0 /\ Len(todo') = Len(todo) - 1
  BY <1>1, ToolStep
<1>3. CASE todo' = <<>>
  <2>1. pc' = "model" /\ step' = step + 1 /\ max_steps' = max_steps
    BY <1>3 DEF RunTool
  <2> QED
    BY <1>1, <2>1 DEF Left, Nearer
<1>4. CASE todo' # <<>>
  <2>1. pc' = pc /\ step' = step /\ max_steps' = max_steps
    BY <1>4 DEF RunTool
  <2>2. Left' = Left
    BY <2>1 DEF Left
  <2>3. RoundLeft = Len(todo) /\ RoundLeft' = Len(todo')
    BY <1>1, <2>1 DEF RoundLeft
  <2> QED
    BY <1>2, <2>2, <2>3 DEF Nearer
<1> QED
  BY <1>3, <1>4

(* Every step of the handler leaves fewer rounds, or less of the round it  *)
(* is in, for any limit of steps, any max_steps a client sends and any     *)
(* number of calls in a turn.                                              *)
THEOREM RequestsComeNearer == Spec => RequestsAdvance
<1>1. Inv /\ [Next]_vars => [pc # "client" => Nearer]_vars
  <2> SUFFICES ASSUME Inv, Next, pc # "client" PROVE Nearer
    OBVIOUS
  <2>1. ASSUME NEW response, Return(response) PROVE Nearer
    BY <2>1, ReturnIsNearer
  <2>2. CASE ModelFails
    BY <2>1, <2>2 DEF ModelFails, Fail
  <2>3. CASE ModelAnswers
    BY <2>1, <2>3 DEF ModelAnswers, Respond
  <2>4. CASE ModelCalls
    BY <2>4, CallsAreNearer
  <2>5. CASE RunTool
    BY <2>5, ResultIsNearer
  <2>6. CASE ToolRaises
    BY <2>1, <2>6 DEF ToolRaises, Fail
  <2>7. CASE RunsOut
    BY <2>1, <2>7 DEF RunsOut, Respond
  <2> QED
    BY <2>2, <2>3, <2>4, <2>5, <2>6, <2>7
       DEF Next, Serve, PostQuery, PostMessages, Refuse
<1>2. RequestsAdvance <=> [][pc # "client" => Nearer]_vars
  BY DEF RequestsAdvance, Nearer
<1> QED
  BY <1>1, <1>2, InvHolds, PTL DEF Spec
=============================================================================
