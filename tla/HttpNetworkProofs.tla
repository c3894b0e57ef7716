-------------------------- MODULE HttpNetworkProofs --------------------------
(* Proofs about HttpNetwork, for every number of calls, routes and retries. *)
EXTENDS HttpNetwork, TLAPS

(* TypeOK, by what the variables are about. *)
LEMMA NetworkTypesNext ==
  ASSUME NetworkTypes, [Next]_vars
  PROVE  NetworkTypes'
<1>1. CASE UNCHANGED vars
  BY <1>1, NetworkAssumption
  DEF NetworkTypes, Client, vars, netVars, jobVars, streamVars
<1>2. ASSUME NEW c \in Calls, Submit(c) \/ Loop(c) \/ Upstream(c) \/ Thread(c) \/ Leave(c)
      PROVE  NetworkTypes'
  <2>1. CASE Submit(c)
    BY <2>1, NetworkAssumption
    DEF NetworkTypes, Client, Submit, netVars, jobVars, streamVars
  <2>2. CASE GetClient(c)
    <3>1. made' \in [0 .. Routes - 1 -> Nat] /\ turn \in 0 .. Routes - 1
      BY <2>2 DEF NetworkTypes, GetClient, Unusable
    <3>2. <<turn, made'[turn]>> \in Client
      BY <3>1 DEF Client
    <3>3. turn' \in 0 .. Routes - 1
      BY <2>2, <3>1, NetworkAssumption DEF GetClient
    <3>. QED
      BY <2>2, <3>1, <3>2, <3>3 DEF NetworkTypes, GetClient
  <2>3. CASE Closed(c)
    BY <2>3, NetworkAssumption
    DEF NetworkTypes, Client, Closed, netVars, jobVars, streamVars
  <2>4. CASE Aclose(c)
    BY <2>4, NetworkAssumption
    DEF NetworkTypes, Client, Aclose, netVars, jobVars, streamVars
  <2>5. CASE ReadClosed(c)
    BY <2>5, NetworkAssumption
    DEF NetworkTypes, Client, ReadClosed, Finish, Enqueue, netVars, jobVars,
        streamVars
  <2>6. ASSUME NEW answer \in Answers, Answer(c, answer)
        PROVE  NetworkTypes'
    BY <2>6, NetworkAssumption
    DEF NetworkTypes, Client, Answer, Answers, IsValid, Patched, Retry, Again,
        Finish, netVars, jobVars, streamVars
  <2>7. CASE Fail(c)
    BY <2>7, NetworkAssumption
    DEF NetworkTypes, Client, Fail, Retry, Again, Finish, netVars, jobVars,
        streamVars
  <2>8. CASE Disconnect(c)
    BY <2>8, NetworkAssumption
    DEF NetworkTypes, Client, Disconnect, Retry, Again, Finish, netVars,
        jobVars, streamVars
  <2>9. CASE Open(c)
    BY <2>9, NetworkAssumption
    DEF NetworkTypes, Client, Open, Enqueue, netVars, jobVars, streamVars
  <2>10. CASE Chunk(c)
    BY <2>10, NetworkAssumption
    DEF NetworkTypes, Client, Chunk, Enqueue, netVars, jobVars, streamVars
  <2>11. CASE EndOfBody(c)
    BY <2>11, NetworkAssumption
    DEF NetworkTypes, Client, EndOfBody, Finish, Enqueue, netVars, jobVars,
        streamVars
  <2>12. CASE Break(c)
    BY <2>12, NetworkAssumption
    DEF NetworkTypes, Client, Break, Finish, Enqueue, netVars, jobVars,
        streamVars
  <2>13. CASE Result(c)
    BY <2>13, NetworkAssumption
    DEF NetworkTypes, Client, Result, Raised, Ends, netVars, jobVars,
        streamVars
  <2>14. CASE Timeout(c)
    BY <2>14, NetworkAssumption
    DEF NetworkTypes, Client, Timeout, Ends, netVars, jobVars, streamVars
  <2>15. CASE TakeResponse(c)
    BY <2>15, NetworkAssumption
    DEF NetworkTypes, Client, TakeResponse, Take, Close, Ends, netVars,
        jobVars, streamVars
  <2>16. CASE TakeChunk(c)
    BY <2>16, NetworkAssumption
    DEF NetworkTypes, Client, TakeChunk, Take, netVars, jobVars, streamVars
  <2>17. CASE TakeEnd(c)
    BY <2>17, NetworkAssumption
    DEF NetworkTypes, Client, TakeEnd, Take, Ends, netVars, jobVars, streamVars
  <2>18. CASE TakeError(c)
    BY <2>18, NetworkAssumption
    DEF NetworkTypes, Client, TakeError, Take, Ends, netVars, jobVars,
        streamVars
  <2>19. CASE Drain(c)
    BY <2>19, NetworkAssumption
    DEF NetworkTypes, Client, Drain, Take, Ends, netVars, jobVars, streamVars
  <2>20. CASE Leave(c)
    BY <2>20, NetworkAssumption
    DEF NetworkTypes, Client, Leave, Close, Ends, netVars, jobVars, streamVars
  <2>21. CASE GetClientRaises(c)
    <3>1. turn \in 0 .. Routes - 1 /\ made' \in [0 .. Routes - 1 -> Nat]
      BY <2>21 DEF NetworkTypes, GetClientRaises
    <3>2. turn' \in 0 .. Routes - 1
      BY <2>21, <3>1, NetworkAssumption DEF GetClientRaises
    <3>. QED
      BY <2>21, <3>1, <3>2 DEF NetworkTypes, GetClientRaises
  <2>22. CASE Fault(c)
    BY <2>22 DEF NetworkTypes, Fault, netVars
  <2>. QED
    BY <1>2, <2>1, <2>2, <2>3, <2>4, <2>5, <2>6, <2>7, <2>8, <2>9, <2>10,
       <2>11, <2>12, <2>13, <2>14, <2>15, <2>16, <2>17, <2>18, <2>19, <2>20,
     <2>21, <2>22
    DEF Loop, Upstream, Thread
<1>3. CASE Quiet
  BY <1>1, <1>3 DEF Quiet
<1>. QED
  BY <1>1, <1>2, <1>3 DEF Next

LEMMA TaskTypesNext ==
  ASSUME TaskTypes, [Next]_vars
  PROVE  TaskTypes'
<1>1. CASE UNCHANGED vars
  BY <1>1, NetworkAssumption DEF TaskTypes, vars, netVars, jobVars, streamVars
<1>2. ASSUME NEW c \in Calls, Submit(c) \/ Loop(c) \/ Upstream(c) \/ Thread(c) \/ Leave(c)
      PROVE  TaskTypes'
  <2>1. CASE Submit(c)
    BY <2>1, NetworkAssumption
    DEF TaskTypes, Submit, netVars, jobVars, streamVars
  <2>2. CASE GetClient(c)
    BY <2>2, NetworkAssumption
    DEF TaskTypes, GetClient, Unusable, netVars, jobVars, streamVars
  <2>3. CASE Closed(c)
    BY <2>3, NetworkAssumption
    DEF TaskTypes, Closed, netVars, jobVars, streamVars
  <2>4. CASE Aclose(c)
    BY <2>4, NetworkAssumption
    DEF TaskTypes, Aclose, netVars, jobVars, streamVars
  <2>5. CASE ReadClosed(c)
    BY <2>5, NetworkAssumption
    DEF TaskTypes, ReadClosed, Finish, Enqueue, netVars, jobVars, streamVars
  <2>6. ASSUME NEW answer \in Answers, Answer(c, answer)
        PROVE  TaskTypes'
    BY <2>6, NetworkAssumption
    DEF TaskTypes, Answer, Answers, IsValid, Patched, Retry, Again, Finish,
        netVars, jobVars, streamVars
  <2>7. CASE Fail(c)
    BY <2>7, NetworkAssumption
    DEF TaskTypes, Fail, Retry, Again, Finish, netVars, jobVars, streamVars
  <2>8. CASE Disconnect(c)
    <3>1. CASE dropped[c]
      BY <2>8, <3>1, NetworkAssumption
      DEF TaskTypes, Disconnect, Retry, Again, Finish
    <3>2. CASE ~dropped[c]
      BY <2>8, <3>2 DEF TaskTypes, Disconnect
    <3>. QED
      BY <3>1, <3>2
  <2>9. CASE Open(c)
    BY <2>9, NetworkAssumption
    DEF TaskTypes, Open, Enqueue, netVars, jobVars, streamVars
  <2>10. CASE Chunk(c)
    BY <2>10, NetworkAssumption
    DEF TaskTypes, Chunk, Enqueue, netVars, jobVars, streamVars
  <2>11. CASE EndOfBody(c)
    BY <2>11, NetworkAssumption
    DEF TaskTypes, EndOfBody, Finish, Enqueue, netVars, jobVars, streamVars
  <2>12. CASE Break(c)
    BY <2>12, NetworkAssumption
    DEF TaskTypes, Break, Finish, Enqueue, netVars, jobVars, streamVars
  <2>13. CASE Result(c)
    BY <2>13, NetworkAssumption
    DEF TaskTypes, Result, Raised, Ends, netVars, jobVars, streamVars
  <2>14. CASE Timeout(c)
    BY <2>14, NetworkAssumption
    DEF TaskTypes, Timeout, Ends, netVars, jobVars, streamVars
  <2>15. CASE TakeResponse(c)
    BY <2>15, NetworkAssumption
    DEF TaskTypes, TakeResponse, Take, Close, Ends, netVars, jobVars,
        streamVars
  <2>16. CASE TakeChunk(c)
    BY <2>16, NetworkAssumption
    DEF TaskTypes, TakeChunk, Take, netVars, jobVars, streamVars
  <2>17. CASE TakeEnd(c)
    BY <2>17, NetworkAssumption
    DEF TaskTypes, TakeEnd, Take, Ends, netVars, jobVars, streamVars
  <2>18. CASE TakeError(c)
    BY <2>18, NetworkAssumption
    DEF TaskTypes, TakeError, Take, Ends, netVars, jobVars, streamVars
  <2>19. CASE Drain(c)
    BY <2>19, NetworkAssumption
    DEF TaskTypes, Drain, Take, Ends, netVars, jobVars, streamVars
  <2>20. CASE Leave(c)
    BY <2>20, NetworkAssumption
    DEF TaskTypes, Leave, Close, Ends, netVars, jobVars, streamVars
  <2>21. CASE GetClientRaises(c)
    BY <2>21, NetworkAssumption
    DEF TaskTypes, GetClientRaises, Finish, Enqueue, netVars, jobVars, streamVars
  <2>22. CASE Fault(c)
    BY <2>22, NetworkAssumption
    DEF TaskTypes, Fault, Finish, netVars, jobVars, streamVars
  <2>. QED
    BY <1>2, <2>1, <2>2, <2>3, <2>4, <2>5, <2>6, <2>7, <2>8, <2>9, <2>10,
       <2>11, <2>12, <2>13, <2>14, <2>15, <2>16, <2>17, <2>18, <2>19, <2>20,
     <2>21, <2>22
    DEF Loop, Upstream, Thread
<1>3. CASE Quiet
  BY <1>1, <1>3 DEF Quiet
<1>. QED
  BY <1>1, <1>2, <1>3 DEF Next

LEMMA ThreadTypesNext ==
  ASSUME ThreadTypes, [Next]_vars
  PROVE  ThreadTypes'
<1>1. CASE UNCHANGED vars
  BY <1>1, NetworkAssumption
  DEF ThreadTypes, vars, netVars, jobVars, streamVars
<1>2. ASSUME NEW c \in Calls, Submit(c) \/ Loop(c) \/ Upstream(c) \/ Thread(c) \/ Leave(c)
      PROVE  ThreadTypes'
  <2>1. CASE Submit(c)
    BY <2>1, NetworkAssumption
    DEF ThreadTypes, Submit, netVars, jobVars, streamVars
  <2>2. CASE GetClient(c)
    BY <2>2, NetworkAssumption
    DEF ThreadTypes, GetClient, Unusable, netVars, jobVars, streamVars
  <2>3. CASE Closed(c)
    BY <2>3, NetworkAssumption
    DEF ThreadTypes, Closed, netVars, jobVars, streamVars
  <2>4. CASE Aclose(c)
    BY <2>4, NetworkAssumption
    DEF ThreadTypes, Aclose, netVars, jobVars, streamVars
  <2>5. CASE ReadClosed(c)
    BY <2>5, NetworkAssumption
    DEF ThreadTypes, ReadClosed, Finish, Enqueue, netVars, jobVars, streamVars
  <2>6. ASSUME NEW answer \in Answers, Answer(c, answer)
        PROVE  ThreadTypes'
    BY <2>6, NetworkAssumption
    DEF ThreadTypes, Answer, Answers, IsValid, Patched, Retry, Again, Finish,
        netVars, jobVars, streamVars
  <2>7. CASE Fail(c)
    BY <2>7, NetworkAssumption
    DEF ThreadTypes, Fail, Retry, Again, Finish, netVars, jobVars, streamVars
  <2>8. CASE Disconnect(c)
    BY <2>8, NetworkAssumption
    DEF ThreadTypes, Disconnect, Retry, Again, Finish, netVars, jobVars,
        streamVars
  <2>9. CASE Open(c)
    BY <2>9, NetworkAssumption
    DEF ThreadTypes, Open, Enqueue, netVars, jobVars, streamVars
  <2>10. CASE Chunk(c)
    BY <2>10, NetworkAssumption
    DEF ThreadTypes, Chunk, Enqueue, netVars, jobVars, streamVars
  <2>11. CASE EndOfBody(c)
    BY <2>11, NetworkAssumption
    DEF ThreadTypes, EndOfBody, Finish, Enqueue, netVars, jobVars, streamVars
  <2>12. CASE Break(c)
    BY <2>12, NetworkAssumption
    DEF ThreadTypes, Break, Finish, Enqueue, netVars, jobVars, streamVars
  <2>13. CASE Result(c)
    BY <2>13, NetworkAssumption
    DEF ThreadTypes, Result, Raised, Ends, netVars, jobVars, streamVars
  <2>14. CASE Timeout(c)
    BY <2>14, NetworkAssumption
    DEF ThreadTypes, Timeout, Ends, netVars, jobVars, streamVars
  <2>15. CASE TakeResponse(c)
    BY <2>15, NetworkAssumption
    DEF ThreadTypes, TakeResponse, Take, Close, Ends, netVars, jobVars,
        streamVars
  <2>16. CASE TakeChunk(c)
    BY <2>16, NetworkAssumption
    DEF ThreadTypes, TakeChunk, Take, netVars, jobVars, streamVars
  <2>17. CASE TakeEnd(c)
    BY <2>17, NetworkAssumption
    DEF ThreadTypes, TakeEnd, Take, Ends, netVars, jobVars, streamVars
  <2>18. CASE TakeError(c)
    BY <2>18, NetworkAssumption
    DEF ThreadTypes, TakeError, Take, Ends, netVars, jobVars, streamVars
  <2>19. CASE Drain(c)
    BY <2>19, NetworkAssumption
    DEF ThreadTypes, Drain, Take, Ends, netVars, jobVars, streamVars
  <2>20. CASE Leave(c)
    BY <2>20, NetworkAssumption
    DEF ThreadTypes, Leave, Close, Ends, netVars, jobVars, streamVars
  <2>21. CASE GetClientRaises(c)
    BY <2>21, NetworkAssumption
    DEF ThreadTypes, GetClientRaises, Finish, Enqueue, netVars, jobVars, streamVars
  <2>22. CASE Fault(c)
    BY <2>22, NetworkAssumption
    DEF ThreadTypes, Fault, Finish, netVars, jobVars, streamVars
  <2>. QED
    BY <1>2, <2>1, <2>2, <2>3, <2>4, <2>5, <2>6, <2>7, <2>8, <2>9, <2>10,
       <2>11, <2>12, <2>13, <2>14, <2>15, <2>16, <2>17, <2>18, <2>19, <2>20,
     <2>21, <2>22
    DEF Loop, Upstream, Thread
<1>3. CASE Quiet
  BY <1>1, <1>3 DEF Quiet
<1>. QED
  BY <1>1, <1>2, <1>3 DEF Next

LEMMA QueueTypesNext ==
  ASSUME QueueTypes, [Next]_vars
  PROVE  QueueTypes'
<1>1. CASE UNCHANGED vars
  BY <1>1, NetworkAssumption DEF QueueTypes, vars, netVars, jobVars, streamVars
<1>2. ASSUME NEW c \in Calls, Submit(c) \/ Loop(c) \/ Upstream(c) \/ Thread(c) \/ Leave(c)
      PROVE  QueueTypes'
  <2>1. CASE Submit(c)
    BY <2>1, NetworkAssumption
    DEF QueueTypes, Submit, netVars, jobVars, streamVars
  <2>2. CASE GetClient(c)
    BY <2>2, NetworkAssumption
    DEF QueueTypes, GetClient, Unusable, netVars, jobVars, streamVars
  <2>3. CASE Closed(c)
    BY <2>3, NetworkAssumption
    DEF QueueTypes, Closed, netVars, jobVars, streamVars
  <2>4. CASE Aclose(c)
    BY <2>4, NetworkAssumption
    DEF QueueTypes, Aclose, netVars, jobVars, streamVars
  <2>5. CASE ReadClosed(c)
    BY <2>5, NetworkAssumption
    DEF QueueTypes, ReadClosed, Finish, Enqueue, netVars, jobVars, streamVars
  <2>6. ASSUME NEW answer \in Answers, Answer(c, answer)
        PROVE  QueueTypes'
    BY <2>6, NetworkAssumption
    DEF QueueTypes, Answer, Answers, IsValid, Patched, Retry, Again, Finish,
        netVars, jobVars, streamVars
  <2>7. CASE Fail(c)
    BY <2>7, NetworkAssumption
    DEF QueueTypes, Fail, Retry, Again, Finish, netVars, jobVars, streamVars
  <2>8. CASE Disconnect(c)
    BY <2>8, NetworkAssumption
    DEF QueueTypes, Disconnect, Retry, Again, Finish, netVars, jobVars,
        streamVars
  <2>9. CASE Open(c)
    BY <2>9, NetworkAssumption
    DEF QueueTypes, Open, Enqueue, netVars, jobVars, streamVars
  <2>10. CASE Chunk(c)
    BY <2>10, NetworkAssumption
    DEF QueueTypes, Chunk, Enqueue, netVars, jobVars, streamVars
  <2>11. CASE EndOfBody(c)
    BY <2>11, NetworkAssumption
    DEF QueueTypes, EndOfBody, Finish, Enqueue, netVars, jobVars, streamVars
  <2>12. CASE Break(c)
    BY <2>12, NetworkAssumption
    DEF QueueTypes, Break, Finish, Enqueue, netVars, jobVars, streamVars
  <2>13. CASE Result(c)
    BY <2>13, NetworkAssumption
    DEF QueueTypes, Result, Raised, Ends, netVars, jobVars, streamVars
  <2>14. CASE Timeout(c)
    BY <2>14, NetworkAssumption
    DEF QueueTypes, Timeout, Ends, netVars, jobVars, streamVars
  <2>15. CASE TakeResponse(c)
    BY <2>15, NetworkAssumption
    DEF QueueTypes, TakeResponse, Take, Close, Ends, netVars, jobVars,
        streamVars
  <2>16. CASE TakeChunk(c)
    BY <2>16, NetworkAssumption
    DEF QueueTypes, TakeChunk, Take, netVars, jobVars, streamVars
  <2>17. CASE TakeEnd(c)
    BY <2>17, NetworkAssumption
    DEF QueueTypes, TakeEnd, Take, Ends, netVars, jobVars, streamVars
  <2>18. CASE TakeError(c)
    BY <2>18, NetworkAssumption
    DEF QueueTypes, TakeError, Take, Ends, netVars, jobVars, streamVars
  <2>19. CASE Drain(c)
    <3>1. queue[c] # <<>> /\ queue' = [queue EXCEPT ![c] = Tail(@)] /\ put' = put
      BY <2>19 DEF Drain, Take, streamVars
    <3>. QED
      BY <3>1 DEF QueueTypes
  <2>20. CASE Leave(c)
    BY <2>20, NetworkAssumption
    DEF QueueTypes, Leave, Close, Ends, netVars, jobVars, streamVars
  <2>21. CASE GetClientRaises(c)
    <3>1. <<"error", "end">> \in Seq({"response", "chunk", "error", "end"})
      OBVIOUS
    <3>2. /\ put' = put
          /\ \/ queue' = [queue EXCEPT ![c] = @ \o <<"error", "end">>]
             \/ queue' = queue
      BY <2>21 DEF GetClientRaises, Enqueue
    <3>3. queue[c] \o <<"error", "end">> \in Seq({"response", "chunk", "error", "end"})
      BY <3>1 DEF QueueTypes
    <3>4. queue' \in [Calls -> Seq({"response", "chunk", "error", "end"})]
      BY <3>2, <3>3 DEF QueueTypes
    <3>. QED
      BY <3>2, <3>4 DEF QueueTypes
  <2>22. CASE Fault(c)
    BY <2>22, NetworkAssumption
    DEF QueueTypes, Fault, Finish, netVars, jobVars, streamVars
  <2>. QED
    BY <1>2, <2>1, <2>2, <2>3, <2>4, <2>5, <2>6, <2>7, <2>8, <2>9, <2>10,
       <2>11, <2>12, <2>13, <2>14, <2>15, <2>16, <2>17, <2>18, <2>19, <2>20,
     <2>21, <2>22
    DEF Loop, Upstream, Thread
<1>3. CASE Quiet
  BY <1>1, <1>3 DEF Quiet
<1>. QED
  BY <1>1, <1>2, <1>3 DEF Next

\* Every state has the types TypeOK declares, for any number of calls,
\* routes and retries.
THEOREM TypeCorrect == Spec => []TypeOK
<1>1. Init => TypeOK
  BY NetworkAssumption DEF Init, TypeOK, NetworkTypes, TaskTypes, ThreadTypes,
     QueueTypes, Client, NoClient
<1>2. TypeOK /\ [Next]_vars => TypeOK'
  BY NetworkTypesNext, TaskTypesNext, ThreadTypesNext, QueueTypesNext
  DEF TypeOK
<1>. QED
  BY <1>1, <1>2, PTL DEF Spec

-----------------------------------------------------------------------------
(* The attempts of a fetch.                                                *)

\* What a fetch has left and has used add up, unless an exception that is not
\* retried has ended it, and it ends badly only when nothing is left.
BudgetOf(c) ==
    /\ out[c] # "fault" =>
          tries[c] + left[c] =
             Retries + (IF dropped[c] THEN 1 ELSE 0)
                     + (IF job[c] \in {"none", "ready", "closing"} THEN 0 ELSE 1)
    /\ tries[c] <= Retries + 2
    /\ job[c] # "streaming"
    /\ caller[c] = "idle" => job[c] = "none"
    /\ job[c] # "done" => out[c] = "none"
    /\ Retriable(c) => left[c] = 0
    /\ out[c] # "nothing"

Budget == \A c \in Fetches : BudgetOf(c)

\* An attempt that has ended, in whatever way, takes a retry or ends the call,
\* and ends it in a way that is retried only if there is no retry to take.
AttemptEnds(c) ==
    \/ /\ left[c] >= 1
       /\ left' = [left EXCEPT ![c] = @ - 1]
       /\ job' = [job EXCEPT ![c] = "ready"]
       /\ out' = out
    \/ /\ \E r \in {"fine", "denied", "failure", "error", "fault"} :
             /\ out' = [out EXCEPT ![c] = r]
             /\ (r = "error" \/ r \in RetryOn \/ (r = "failure" /\ c \notin Lenient))
                   => left[c] = 0
       /\ job' = [job EXCEPT ![c] = "done"]
       /\ left' = left

LEMMA FailEnds ==
  ASSUME TypeOK, NEW c \in Fetches, Retry(c, "error")
  PROVE  AttemptEnds(c)
BY DEF TypeOK, TaskTypes, Calls, Retry, Again, Finish, AttemptEnds

LEMMA FaultEnds ==
  ASSUME TypeOK, NEW c \in Fetches, Fault(c)
  PROVE  AttemptEnds(c)
BY NetworkAssumption DEF Fault, Finish, AttemptEnds

LEMMA AnswerEnds ==
  ASSUME TypeOK, NEW c \in Calls, NEW answer \in Answers, Answer(c, answer)
  PROVE  AttemptEnds(c)
<1>1. c \in Fetches /\ left[c] \in 0 .. Retries
  BY DEF Answer, TypeOK, TaskTypes
<1>2. CASE left[c] = 0
  <2>1. Finish(c, answer)
    BY <1>2 DEF Answer, Patched, Retry
  <2>. QED
    BY <1>2, <2>1 DEF Finish, AttemptEnds, Answers
<1>3. CASE left[c] >= 1
  <2>1. \/ Again(c)
        \/ /\ Finish(c, answer)
           /\ answer \notin RetryOn
           /\ ~(answer = "failure" /\ c \notin Lenient)
    BY <1>3, NetworkAssumption DEF Answer, IsValid, Patched, Retry
  <2>2. CASE Again(c)
    BY <1>3, <2>2 DEF Again, AttemptEnds
  <2>3. CASE Finish(c, answer) /\ answer \notin RetryOn /\ ~(answer = "failure" /\ c \notin Lenient)
    BY <2>3 DEF Finish, AttemptEnds, Answers
  <2>. QED
    BY <2>1, <2>2, <2>3
<1>. QED
  BY <1>1, <1>2, <1>3, NetworkAssumption

LEMMA AttemptKeepsBudget ==
  ASSUME TypeOK, Budget, NEW c \in Fetches, job[c] = "sent", AttemptEnds(c),
         UNCHANGED <<tries, dropped, caller>>
  PROVE  Budget'
<1>. SUFFICES ASSUME NEW d \in Fetches
              PROVE  BudgetOf(d)'
  BY DEF Budget
<1>0. BudgetOf(c) /\ BudgetOf(d) /\ c \in Calls /\ d \in Calls
  BY DEF Budget, Calls
<1>1. CASE d # c
  BY <1>0, <1>1 DEF BudgetOf, AttemptEnds, TypeOK, TaskTypes, Retriable
<1>2. CASE d = c
  <2>1. /\ tries[c] \in Nat /\ left[c] \in 0 .. Retries
        /\ tries'[c] = tries[c] /\ dropped'[c] = dropped[c] /\ caller'[c] = caller[c]
        /\ caller[c] # "idle" /\ out[c] = "none"
        /\ tries[c] + left[c] = Retries + (IF dropped[c] THEN 1 ELSE 0) + 1
    BY <1>0 DEF BudgetOf, TypeOK, NetworkTypes, TaskTypes
  <2>2. CASE out' = out
    <3>1. left[c] >= 1 /\ left'[c] = left[c] - 1 /\ job'[c] = "ready" /\ out'[c] = "none"
      BY <1>0, <2>1, <2>2 DEF AttemptEnds, TypeOK, TaskTypes
    <3>. QED
      BY <1>2, <2>1, <3>1, NetworkAssumption DEF BudgetOf, Retriable
  <2>3. CASE out' # out
    <3>1. /\ job'[c] = "done" /\ left'[c] = left[c]
          /\ out'[c] \in {"fine", "denied", "failure", "error", "fault"}
          /\ Retriable(c)' => left[c] = 0
      BY <1>0, <2>3 DEF AttemptEnds, TypeOK, TaskTypes, Retriable
    <3>. QED
      BY <1>2, <2>1, <3>1, NetworkAssumption DEF BudgetOf
  <2>. QED
    BY <2>2, <2>3
<1>. QED
  BY <1>1, <1>2

LEMMA BudgetNext ==
  ASSUME TypeOK, Budget, [Next]_vars
  PROVE  Budget'
<1>1. CASE UNCHANGED vars
  BY <1>1, NetworkAssumption
  DEF TypeOK, NetworkTypes, TaskTypes, ThreadTypes, Budget, BudgetOf, Calls,
      Retriable, vars, netVars, jobVars, streamVars
<1>2. ASSUME NEW c \in Calls, Submit(c) \/ Loop(c) \/ Upstream(c) \/ Thread(c) \/ Leave(c)
      PROVE  Budget'
  <2>1. CASE Submit(c)
    BY <2>1, NetworkAssumption
    DEF TypeOK, NetworkTypes, TaskTypes, ThreadTypes, Budget, BudgetOf, Calls,
        Retriable, Submit, netVars, jobVars, streamVars
  <2>2. CASE GetClient(c)
    <3>1. /\ job[c] = "ready" /\ job' = [job EXCEPT ![c] = "sent"]
          /\ tries' = [tries EXCEPT ![c] = @ + 1]
          /\ UNCHANGED <<left, dropped, out, caller>>
      BY <2>2 DEF GetClient
    <3>2. ASSUME NEW d \in Fetches, d # c
          PROVE  BudgetOf(d)'
      BY <3>1, <3>2
      DEF TypeOK, NetworkTypes, TaskTypes, Budget, BudgetOf, Calls, Retriable
    <3>3. c \in Fetches => BudgetOf(c)'
      <4>. SUFFICES ASSUME c \in Fetches
                    PROVE  BudgetOf(c)'
        OBVIOUS
      <4>1. /\ job'[c] = "sent" /\ tries'[c] = tries[c] + 1
            /\ tries[c] \in Nat /\ left[c] \in 0 .. Retries
            /\ UNCHANGED <<left[c], dropped[c], out[c], caller[c]>>
        BY <3>1 DEF TypeOK, NetworkTypes, TaskTypes
      <4>2. BudgetOf(c) /\ out[c] = "none"
        BY <3>1 DEF Budget, BudgetOf
      <4>. QED
        BY <3>1, <4>1, <4>2, NetworkAssumption DEF BudgetOf, Retriable
    <3>. QED
      BY <3>2, <3>3 DEF Budget
  <2>3. CASE Closed(c)
    BY <2>3, NetworkAssumption
    DEF TypeOK, NetworkTypes, TaskTypes, ThreadTypes, Budget, BudgetOf, Calls,
        Retriable, Closed, netVars, jobVars, streamVars
  <2>4. CASE Aclose(c)
    BY <2>4, NetworkAssumption
    DEF TypeOK, NetworkTypes, TaskTypes, ThreadTypes, Budget, BudgetOf, Calls,
        Retriable, Aclose, netVars, jobVars, streamVars
  <2>5. CASE ReadClosed(c)
    BY <2>5, NetworkAssumption
    DEF TypeOK, NetworkTypes, TaskTypes, ThreadTypes, Budget, BudgetOf, Calls,
        Retriable, ReadClosed, Finish, Enqueue, netVars, jobVars, streamVars
  <2>6. ASSUME NEW answer \in Answers, Answer(c, answer)
        PROVE  Budget'
    BY <2>6, AnswerEnds, AttemptKeepsBudget DEF Answer
  <2>7. CASE Fail(c)
    BY <2>7, FailEnds, AttemptKeepsBudget DEF Fail
  <2>8. CASE Disconnect(c)
    <3>1. CASE dropped[c]
      BY <2>8, <3>1, FailEnds, AttemptKeepsBudget DEF Disconnect
    <3>2. CASE ~dropped[c]
      <4>1. /\ dropped' = [dropped EXCEPT ![c] = TRUE]
            /\ job' = [job EXCEPT ![c] = "closing"]
            /\ job[c] = "sent"
            /\ UNCHANGED <<left, out, tries, caller>>
        BY <2>8, <3>2 DEF Disconnect
      <4>2. ASSUME NEW d \in Fetches, d # c
            PROVE  BudgetOf(d)'
        BY <4>1, <4>2 DEF TypeOK, TaskTypes, Budget, BudgetOf, Calls, Retriable
      <4>3. c \in Fetches => BudgetOf(c)'
        <5>. SUFFICES ASSUME c \in Fetches
                      PROVE  BudgetOf(c)'
          OBVIOUS
        <5>1. /\ tries'[c] = tries[c] /\ left'[c] = left[c] /\ out'[c] = out[c]
              /\ caller'[c] = caller[c] /\ dropped'[c] = TRUE /\ job'[c] = "closing"
              /\ tries[c] \in Nat /\ left[c] \in 0 .. Retries
          BY <4>1 DEF TypeOK, NetworkTypes, TaskTypes
        <5>2. BudgetOf(c)
          BY DEF Budget
        <5>. QED
          BY <3>2, <4>1, <5>1, <5>2, NetworkAssumption DEF BudgetOf, Retriable
      <4>. QED
        BY <4>2, <4>3 DEF Budget
    <3>. QED
      BY <3>1, <3>2
  <2>9. CASE Open(c)
    BY <2>9, NetworkAssumption
    DEF TypeOK, NetworkTypes, TaskTypes, ThreadTypes, Budget, BudgetOf, Calls,
        Retriable, Open, Enqueue, netVars, jobVars, streamVars
  <2>10. CASE Chunk(c)
    BY <2>10, NetworkAssumption
    DEF TypeOK, NetworkTypes, TaskTypes, ThreadTypes, Budget, BudgetOf, Calls,
        Retriable, Chunk, Enqueue, netVars, jobVars, streamVars
  <2>11. CASE EndOfBody(c)
    BY <2>11, NetworkAssumption
    DEF TypeOK, NetworkTypes, TaskTypes, ThreadTypes, Budget, BudgetOf, Calls,
        Retriable, EndOfBody, Finish, Enqueue, netVars, jobVars, streamVars
  <2>12. CASE Break(c)
    BY <2>12, NetworkAssumption
    DEF TypeOK, NetworkTypes, TaskTypes, ThreadTypes, Budget, BudgetOf, Calls,
        Retriable, Break, Finish, Enqueue, netVars, jobVars, streamVars
  <2>13. CASE Result(c)
    BY <2>13, NetworkAssumption
    DEF TypeOK, NetworkTypes, TaskTypes, ThreadTypes, Budget, BudgetOf, Calls,
        Retriable, Result, Raised, Ends, netVars, jobVars, streamVars
  <2>14. CASE Timeout(c)
    BY <2>14, NetworkAssumption
    DEF TypeOK, NetworkTypes, TaskTypes, ThreadTypes, Budget, BudgetOf, Calls,
        Retriable, Timeout, Ends, netVars, jobVars, streamVars
  <2>15. CASE TakeResponse(c)
    BY <2>15, NetworkAssumption
    DEF TypeOK, NetworkTypes, TaskTypes, ThreadTypes, Budget, BudgetOf, Calls,
        Retriable, TakeResponse, Take, Close, Ends, netVars, jobVars,
        streamVars
  <2>16. CASE TakeChunk(c)
    BY <2>16, NetworkAssumption
    DEF TypeOK, NetworkTypes, TaskTypes, ThreadTypes, Budget, BudgetOf, Calls,
        Retriable, TakeChunk, Take, netVars, jobVars, streamVars
  <2>17. CASE TakeEnd(c)
    BY <2>17, NetworkAssumption
    DEF TypeOK, NetworkTypes, TaskTypes, ThreadTypes, Budget, BudgetOf, Calls,
        Retriable, TakeEnd, Take, Ends, netVars, jobVars, streamVars
  <2>18. CASE TakeError(c)
    BY <2>18, NetworkAssumption
    DEF TypeOK, NetworkTypes, TaskTypes, ThreadTypes, Budget, BudgetOf, Calls,
        Retriable, TakeError, Take, Ends, netVars, jobVars, streamVars
  <2>19. CASE Drain(c)
    BY <2>19, NetworkAssumption
    DEF TypeOK, NetworkTypes, TaskTypes, ThreadTypes, Budget, BudgetOf, Calls,
        Retriable, Drain, Take, Ends, netVars, jobVars, streamVars
  <2>20. CASE Leave(c)
    BY <2>20, NetworkAssumption
    DEF TypeOK, NetworkTypes, TaskTypes, ThreadTypes, Budget, BudgetOf, Calls,
        Retriable, Leave, Close, Ends, netVars, jobVars, streamVars
  <2>21. CASE GetClientRaises(c)
    <3>1. /\ job[c] = "ready" /\ job' = [job EXCEPT ![c] = "done"]
          /\ out' = [out EXCEPT ![c] = "fault"]
          /\ UNCHANGED <<tries, left, dropped, caller>>
      BY <2>21 DEF GetClientRaises, Finish
    <3>2. ASSUME NEW d \in Fetches, d # c
          PROVE  BudgetOf(d)'
      BY <3>1, <3>2 DEF TypeOK, TaskTypes, Budget, BudgetOf, Calls, Retriable
    <3>3. c \in Fetches => BudgetOf(c)'
      <4>. SUFFICES ASSUME c \in Fetches
                    PROVE  BudgetOf(c)'
        OBVIOUS
      <4>1. /\ job'[c] = "done" /\ out'[c] = "fault"
            /\ UNCHANGED <<tries[c], caller[c]>>
        BY <3>1 DEF TypeOK, TaskTypes
      <4>2. ~Retriable(c)'
        BY <4>1, NetworkAssumption DEF Retriable
      <4>. QED
        BY <3>1, <4>1, <4>2 DEF Budget, BudgetOf
    <3>. QED
      BY <3>2, <3>3 DEF Budget
  <2>22. CASE Fault(c)
    BY <2>22, FaultEnds, AttemptKeepsBudget DEF Fault
  <2>. QED
    BY <1>2, <2>1, <2>2, <2>3, <2>4, <2>5, <2>6, <2>7, <2>8, <2>9, <2>10,
       <2>11, <2>12, <2>13, <2>14, <2>15, <2>16, <2>17, <2>18, <2>19, <2>20,
     <2>21, <2>22
    DEF Loop, Upstream, Thread
<1>3. CASE Quiet
  BY <1>1, <1>3 DEF Quiet
<1>. QED
  BY <1>1, <1>2, <1>3 DEF Next

\* What a fetch has used and has left adds up in every state.
THEOREM BudgetHolds == Spec => []Budget
<1>1. Init => Budget
  BY NetworkAssumption DEF Init, Budget, BudgetOf, Calls, Retriable
<1>2. TypeOK /\ Budget /\ [Next]_vars => Budget'
  BY BudgetNext
<1>. QED
  BY <1>1, <1>2, TypeCorrect, PTL DEF Spec

\* However errors, lost connections and answers follow one another, a fetch
\* makes its retries and no more, fails in a way that is retried only after the
\* last, and returns something or raises: for any number of retries and calls.
THEOREM RetriesKept == Spec => []RetriesAreKept
<1>1. TypeOK /\ Budget => RetriesAreKept
  <2>. SUFFICES ASSUME TypeOK, Budget, NEW c \in Fetches
                PROVE  /\ tries[c] <= Retries + 2
                       /\ Retriable(c) => tries[c] > Retries
                       /\ out[c] # "nothing"
    BY DEF RetriesAreKept
  <2>1. /\ BudgetOf(c)
        /\ tries[c] \in Nat
        /\ left[c] \in 0 .. Retries
    BY DEF Budget, TypeOK, NetworkTypes, TaskTypes, Calls
  <2>2. tries[c] <= Retries + 2
    BY <2>1, NetworkAssumption DEF BudgetOf
  <2>3. Retriable(c) => tries[c] > Retries
    <3>1. Retriable(c) => job[c] = "done" /\ out[c] # "fault"
      BY <2>1, NetworkAssumption DEF BudgetOf, Retriable
    <3>. QED
      BY <2>1, <3>1, NetworkAssumption DEF BudgetOf
  <2>. QED
    BY <2>1, <2>2, <2>3 DEF BudgetOf
<1>. QED
  BY <1>1, TypeCorrect, BudgetHolds, PTL

-----------------------------------------------------------------------------
(* The clients.                                                            *)

\* Of the clients made for a route all but the last are closed, those to come
\* are not, and an attempt under way is on one that was made.
ClientsOK ==
    /\ \A r \in 0 .. Routes - 1 : \A n \in Nat :
           /\ n >= 1 /\ n < made[r] => <<r, n>> \in closed
           /\ n > made[r] => <<r, n>> \notin closed
    /\ \A c \in Calls : job[c] = "sent" => on[c][2] <= made[on[c][1]]

\* What all other steps leave as it is.
NetworkKept ==
    /\ UNCHANGED <<netVars, on, tries>>
    /\ \A d \in Calls : job'[d] = "sent" => job[d] = "sent"

LEMMA NetworkStep ==
  ASSUME TypeOK, [Next]_vars
  PROVE  NetworkKept \/ (\E d \in Calls : GetClient(d) \/ GetClientRaises(d) \/ Disconnect(d))
<1>1. CASE UNCHANGED vars
  BY <1>1
  DEF TypeOK, TaskTypes, NetworkKept, vars, netVars, jobVars, streamVars
<1>2. ASSUME NEW c \in Calls, Submit(c) \/ Loop(c) \/ Upstream(c) \/ Thread(c) \/ Leave(c)
      PROVE  NetworkKept \/ (\E d \in Calls : GetClient(d) \/ GetClientRaises(d) \/ Disconnect(d))
  <2>1. CASE Submit(c)
    BY <2>1
    DEF TypeOK, TaskTypes, NetworkKept, Submit, netVars, jobVars, streamVars
  <2>2. CASE GetClient(c)
    BY <2>2
  <2>3. CASE Closed(c)
    BY <2>3
    DEF TypeOK, TaskTypes, NetworkKept, Closed, netVars, jobVars, streamVars
  <2>4. CASE Aclose(c)
    BY <2>4
    DEF TypeOK, TaskTypes, NetworkKept, Aclose, netVars, jobVars, streamVars
  <2>5. CASE ReadClosed(c)
    BY <2>5
    DEF TypeOK, TaskTypes, NetworkKept, ReadClosed, Finish, Enqueue, netVars,
        jobVars, streamVars
  <2>6. ASSUME NEW answer \in Answers, Answer(c, answer)
        PROVE  NetworkKept \/ (\E d \in Calls : GetClient(d) \/ GetClientRaises(d) \/ Disconnect(d))
    BY <2>6
    DEF TypeOK, TaskTypes, NetworkKept, Answer, Answers, IsValid, Patched,
        Retry, Again, Finish, netVars, jobVars, streamVars
  <2>7. CASE Fail(c)
    BY <2>7
    DEF TypeOK, TaskTypes, NetworkKept, Fail, Retry, Again, Finish, netVars,
        jobVars, streamVars
  <2>8. CASE Disconnect(c)
    BY <2>8
  <2>9. CASE Open(c)
    BY <2>9
    DEF TypeOK, TaskTypes, NetworkKept, Open, Enqueue, netVars, jobVars,
        streamVars
  <2>10. CASE Chunk(c)
    BY <2>10
    DEF TypeOK, TaskTypes, NetworkKept, Chunk, Enqueue, netVars, jobVars,
        streamVars
  <2>11. CASE EndOfBody(c)
    BY <2>11
    DEF TypeOK, TaskTypes, NetworkKept, EndOfBody, Finish, Enqueue, netVars,
        jobVars, streamVars
  <2>12. CASE Break(c)
    BY <2>12
    DEF TypeOK, TaskTypes, NetworkKept, Break, Finish, Enqueue, netVars,
        jobVars, streamVars
  <2>13. CASE Result(c)
    BY <2>13
    DEF TypeOK, TaskTypes, NetworkKept, Result, Raised, Ends, netVars, jobVars,
        streamVars
  <2>14. CASE Timeout(c)
    BY <2>14
    DEF TypeOK, TaskTypes, NetworkKept, Timeout, Ends, netVars, jobVars,
        streamVars
  <2>15. CASE TakeResponse(c)
    BY <2>15
    DEF TypeOK, TaskTypes, NetworkKept, TakeResponse, Take, Close, Ends,
        netVars, jobVars, streamVars
  <2>16. CASE TakeChunk(c)
    BY <2>16
    DEF TypeOK, TaskTypes, NetworkKept, TakeChunk, Take, netVars, jobVars,
        streamVars
  <2>17. CASE TakeEnd(c)
    BY <2>17
    DEF TypeOK, TaskTypes, NetworkKept, TakeEnd, Take, Ends, netVars, jobVars,
        streamVars
  <2>18. CASE TakeError(c)
    BY <2>18
    DEF TypeOK, TaskTypes, NetworkKept, TakeError, Take, Ends, netVars,
        jobVars, streamVars
  <2>19. CASE Drain(c)
    BY <2>19
    DEF TypeOK, TaskTypes, NetworkKept, Drain, Take, Ends, netVars, jobVars,
        streamVars
  <2>20. CASE Leave(c)
    BY <2>20
    DEF TypeOK, TaskTypes, NetworkKept, Leave, Close, Ends, netVars, jobVars,
        streamVars
  <2>21. CASE GetClientRaises(c)
    BY <2>21
  <2>22. CASE Fault(c)
    BY <2>22 DEF TypeOK, TaskTypes, NetworkKept, Fault, Finish, netVars
  <2>. QED
    BY <1>2, <2>1, <2>2, <2>3, <2>4, <2>5, <2>6, <2>7, <2>8, <2>9, <2>10,
       <2>11, <2>12, <2>13, <2>14, <2>15, <2>16, <2>17, <2>18, <2>19, <2>20,
     <2>21, <2>22
    DEF Loop, Upstream, Thread
<1>3. CASE Quiet
  BY <1>1, <1>3 DEF Quiet
<1>. QED
  BY <1>1, <1>2, <1>3 DEF Next

LEMMA ClientsNext ==
  ASSUME TypeOK, ClientsOK, [Next]_vars
  PROVE  ClientsOK'
<1>1. CASE NetworkKept
  BY <1>1 DEF NetworkKept, ClientsOK, netVars
<1>2. ASSUME NEW c \in Calls, GetClient(c)
      PROVE  ClientsOK'
  <2>1. /\ turn \in 0 .. Routes - 1
        /\ made \in [0 .. Routes - 1 -> Nat]
        /\ on \in [Calls -> Client]
        /\ job \in [Calls -> {"none", "ready", "sent", "closing", "streaming", "done"}]
        /\ closed' = closed
        /\ on' = [on EXCEPT ![c] = <<turn, made'[turn]>>]
        /\ job' = [job EXCEPT ![c] = "sent"]
    BY <1>2 DEF GetClient, TypeOK, NetworkTypes, TaskTypes
  <2>2. \/ /\ Unusable(turn)
           /\ made' = [made EXCEPT ![turn] = @ + 1]
        \/ made' = made
    BY <1>2 DEF GetClient
  <2>3. \A r \in 0 .. Routes - 1 : made'[r] \in Nat /\ made[r] \in Nat /\ made[r] <= made'[r]
    <3>. SUFFICES ASSUME NEW r \in 0 .. Routes - 1
                  PROVE  made'[r] \in Nat /\ made[r] \in Nat /\ made[r] <= made'[r]
      OBVIOUS
    <3>1. made[r] \in Nat /\ made[turn] \in Nat
      BY <2>1
    <3>2. made'[r] = made[r] \/ made'[r] = made[r] + 1
      BY <2>1, <2>2
    <3>. QED
      BY <3>1, <3>2
  <2>4. \A r \in 0 .. Routes - 1 : \A n \in Nat :
           /\ n >= 1 /\ n < made'[r] => <<r, n>> \in closed'
           /\ n > made'[r] => <<r, n>> \notin closed'
    <3>. SUFFICES ASSUME NEW r \in 0 .. Routes - 1, NEW n \in Nat
                  PROVE  /\ n >= 1 /\ n < made'[r] => <<r, n>> \in closed
                         /\ n > made'[r] => <<r, n>> \notin closed
      BY <2>1
    <3>1. CASE made'[r] = made[r]
      BY <3>1 DEF ClientsOK
    <3>2. CASE made'[r] # made[r]
      <4>1. r = turn /\ made'[r] = made[r] + 1 /\ Unusable(r)
        BY <2>1, <2>2, <3>2
      <4>2. n < made'[r] => n < made[r] \/ n = made[r]
        BY <2>3, <4>1
      <4>3. n > made'[r] => n > made[r]
        BY <2>3, <4>1
      <4>. QED
        BY <4>1, <4>2, <4>3 DEF ClientsOK, Unusable
    <3>. QED
      BY <3>1, <3>2
  <2>5. ASSUME NEW d \in Calls, job'[d] = "sent"
        PROVE  on'[d][2] <= made'[on'[d][1]]
    <3>1. CASE d = c
      BY <2>1, <2>3, <3>1
    <3>2. CASE d # c
      <4>1. on'[d] = on[d] /\ job[d] = "sent" /\ on[d][1] \in 0 .. Routes - 1 /\ on[d][2] \in Nat
        BY <2>1, <2>5, <3>2 DEF Client
      <4>. QED
        BY <2>3, <4>1 DEF ClientsOK
    <3>. QED
      BY <3>1, <3>2
  <2>. QED
    BY <2>4, <2>5 DEF ClientsOK
<1>3. ASSUME NEW c \in Calls, Disconnect(c), closed' = closed \cup {on[c]}
      PROVE  ClientsOK'
  <2>1. /\ made' = made /\ on' = on
        /\ on[c] \in Client
        /\ on[c][2] <= made[on[c][1]]
        /\ made \in [0 .. Routes - 1 -> Nat]
    BY <1>3 DEF Disconnect, ClientsOK, TypeOK, NetworkTypes
  <2>2. \A d \in Calls : job'[d] = "sent" => job[d] = "sent"
    BY <1>3 DEF Disconnect, Retry, Again, Finish, TypeOK, TaskTypes
  <2>3. \A r \in 0 .. Routes - 1 : \A n \in Nat :
           n > made[r] => <<r, n>> # on[c]
    BY <2>1 DEF Client
  <2>4. \A r \in 0 .. Routes - 1 : \A n \in Nat :
           /\ n >= 1 /\ n < made'[r] => <<r, n>> \in closed'
           /\ n > made'[r] => <<r, n>> \notin closed'
    BY <1>3, <2>1, <2>3 DEF ClientsOK
  <2>. QED
    BY <2>1, <2>2, <2>4 DEF ClientsOK
<1>4. ASSUME NEW c \in Calls, Disconnect(c), closed' = closed
      PROVE  ClientsOK'
  <2>1. \A d \in Calls : job'[d] = "sent" => job[d] = "sent"
    BY <1>4 DEF Disconnect, Retry, Again, Finish, TypeOK, TaskTypes
  <2>. QED
    BY <1>4, <2>1 DEF Disconnect, ClientsOK
<1>5. \A c \in Calls : Disconnect(c) => closed' = closed \cup {on[c]} \/ closed' = closed
  BY DEF Disconnect
<1>6. ASSUME NEW c \in Calls, GetClientRaises(c)
      PROVE  ClientsOK'
  <2>1. /\ closed' = closed /\ on' = on
        /\ \A d \in Calls : job'[d] = "sent" => job[d] = "sent"
    BY <1>6 DEF GetClientRaises, Finish, TypeOK, TaskTypes
  <2>2. \/ /\ Unusable(turn)
           /\ made' = [made EXCEPT ![turn] = @ + 1]
        \/ made' = made
    BY <1>6 DEF GetClientRaises
  <2>3. CASE made' = made
    BY <2>1, <2>3 DEF ClientsOK
  <2>4. CASE Unusable(turn) /\ made' = [made EXCEPT ![turn] = @ + 1]
    <3>1. \A r \in 0 .. Routes - 1 :
             /\ made[r] \in Nat
             /\ \/ made'[r] = made[r]
                \/ Unusable(r) /\ made'[r] = made[r] + 1
      BY <2>4 DEF TypeOK, NetworkTypes
    <3>2. ASSUME NEW r \in 0 .. Routes - 1, NEW n \in Nat
          PROVE  /\ n >= 1 /\ n < made'[r] => <<r, n>> \in closed'
                 /\ n > made'[r] => <<r, n>> \notin closed'
      <4>1. CASE made'[r] = made[r]
        BY <2>1, <4>1 DEF ClientsOK
      <4>2. CASE Unusable(r) /\ made'[r] = made[r] + 1
        <5>1. n < made'[r] => n < made[r] \/ n = made[r]
          BY <3>1, <4>2
        <5>2. n > made'[r] => n > made[r]
          BY <3>1, <4>2
        <5>. QED
          BY <2>1, <4>2, <5>1, <5>2 DEF ClientsOK, Unusable
      <4>. QED
        BY <3>1, <4>1, <4>2
    <3>3. ASSUME NEW d \in Calls, job'[d] = "sent"
          PROVE  on'[d][2] <= made'[on'[d][1]]
      <4>1. on[d][1] \in 0 .. Routes - 1 /\ on[d][2] \in Nat
        BY DEF TypeOK, NetworkTypes, Client
      <4>2. on[d][2] <= made[on[d][1]]
        BY <2>1, <3>3 DEF ClientsOK
      <4>. QED
        BY <2>1, <3>1, <4>1, <4>2
    <3>. QED
      BY <3>2, <3>3 DEF ClientsOK
  <2>. QED
    BY <2>2, <2>3, <2>4
<1>. QED
  BY <1>1, <1>2, <1>3, <1>4, <1>5, <1>6, NetworkStep

\* Every attempt starts on the one open client of its route, whatever other
\* calls have closed: for any number of routes and calls.
THEOREM OneClient == Spec => AttemptsShareOneClient
<1>1. Init => ClientsOK
  BY NetworkAssumption DEF Init, ClientsOK
<1>2. TypeOK /\ ClientsOK /\ [Next]_vars => ClientsOK'
  BY ClientsNext
<1>3. ASSUME TypeOK, ClientsOK, [Next]_vars
      PROVE  \A c \in Calls : tries'[c] # tries[c] =>
                 \A n \in 1 .. made'[on'[c][1]] :
                     (<<on'[c][1], n>> \notin closed') <=> (n = on'[c][2])
  <2>1. SUFFICES ASSUME NEW c \in Calls, GetClient(c)
                 PROVE  \A n \in 1 .. made'[on'[c][1]] :
                            (<<on'[c][1], n>> \notin closed') <=> (n = on'[c][2])
    <3>1. \A c \in Calls : tries'[c] # tries[c] => GetClient(c)
      <4>1. \A d \in Calls : GetClient(d) => \A c \in Calls \ {d} : tries'[c] = tries[c]
        BY DEF GetClient, TypeOK, NetworkTypes
      <4>2. \A d \in Calls : Disconnect(d) => tries' = tries
        BY DEF Disconnect
      <4>3. \A d \in Calls : GetClientRaises(d) => tries' = tries
        BY DEF GetClientRaises
      <4>. QED
        BY <1>3, <4>1, <4>2, <4>3, NetworkStep DEF NetworkKept
    <3>. QED
      BY <3>1
  <2>2. /\ turn \in 0 .. Routes - 1
        /\ made \in [0 .. Routes - 1 -> Nat]
        /\ closed' = closed
        /\ on'[c] = <<turn, made'[turn]>>
        /\ made' = IF Unusable(turn) THEN [made EXCEPT ![turn] = @ + 1] ELSE made
    BY <1>3, <2>1 DEF GetClient, TypeOK, NetworkTypes
  <2>3. SUFFICES ASSUME NEW n \in 1 .. made'[turn]
                 PROVE  (<<turn, n>> \notin closed) <=> (n = made'[turn])
    BY <2>2
  <2>4. CASE Unusable(turn)
    <3>1. made'[turn] = made[turn] + 1 /\ made[turn] \in Nat /\ n \in Nat
      BY <2>2, <2>4
    <3>2. n = made'[turn] => n > made[turn]
      BY <3>1
    <3>3. n # made'[turn] => n = made[turn] \/ (n >= 1 /\ n < made[turn])
      BY <2>3, <3>1
    <3>. QED
      BY <1>3, <2>2, <2>4, <3>1, <3>2, <3>3 DEF ClientsOK, Unusable
  <2>5. CASE ~Unusable(turn)
    <3>1. made'[turn] = made[turn] /\ made[turn] \in Nat /\ n \in Nat /\ n >= 1
      BY <2>2, <2>3, <2>5
    <3>2. n # made'[turn] => n < made[turn]
      BY <2>3, <3>1
    <3>. QED
      BY <1>3, <2>2, <2>5, <3>1, <3>2 DEF ClientsOK, Unusable
  <2>. QED
    BY <2>4, <2>5
<1>. QED
  BY <1>1, <1>2, <1>3, TypeCorrect, PTL DEF Spec, AttemptsShareOneClient

-----------------------------------------------------------------------------
(* The queue of a stream.                                                  *)

Item == {"response", "chunk", "error", "end"}

\* A queue of n chunks, with the response before them (first = 1) or without,
\* and with nothing, the end, or exception and end (last = 0, 1, 2) after them.
Shape(q, first, n, last) ==
    /\ Len(q) = first + n + last
    /\ first = 1 => q[1] = "response"
    /\ \A i \in 1 .. Len(q) : first < i /\ i <= first + n => q[i] = "chunk"
    /\ last = 1 => q[Len(q)] = "end"
    /\ last = 2 => q[Len(q) - 1] = "error" /\ q[Len(q)] = "end"

\* What follows the chunks once the task of a stream has ended by itself.
LastOf(c) == IF job[c] # "done" THEN 0 ELSE IF out[c] = "fine" THEN 1 ELSE 2

StreamOK(c) ==
    /\ caller[c] = "idle" => job[c] = "none"
    /\ job[c] # "closing"
    /\ job[c] # "done" => out[c] = "none"
    /\ job[c] = "done" => out[c] \in {"fine", "error", "fault"}
    /\ job[c] \in {"none", "ready", "sent"} =>
           /\ caller[c] \in {"idle", "waiting"}
           /\ put[c] = 0
           /\ queue[c] = <<>>
    /\ caller[c] \in {"idle", "waiting"} => got[c] = 0
    /\ caller[c] \in {"idle", "waiting", "reading"} => cut[c] = "no"
    /\ got[c] <= put[c]
    /\ caller[c] = "waiting" /\ job[c] \in {"streaming", "done"} =>
           \/ Shape(queue[c], 1, put[c], LastOf(c))
           \/ job[c] = "done" /\ queue[c] = <<"error", "end">>
    /\ caller[c] = "reading" => Shape(queue[c], 0, put[c] - got[c], LastOf(c))
    /\ caller[c] = "answered" => job[c] = "done" /\ out[c] = "fine" /\ got[c] = put[c]

StreamsOK == \A c \in Streams : StreamOK(c)

LEMMA ShapeTail ==
  ASSUME NEW q \in Seq(Item), NEW n \in Nat, NEW last \in 0 .. 2, Shape(q, 1, n, last)
  PROVE  Shape(Tail(q), 0, n, last)
BY DEF Shape

\* Only a chunk that is there can be taken, and the end comes after the last.
LEMMA ShapeHead ==
  ASSUME NEW q \in Seq(Item), NEW n \in Nat, NEW last \in 0 .. 2,
         Shape(q, 0, n, last), q # <<>>
  PROVE  /\ Head(q) = "chunk" => n >= 1 /\ Shape(Tail(q), 0, n - 1, last)
         /\ Head(q) = "end" => n = 0 /\ last = 1
<1>1. Head(q) = q[1] /\ Len(q) >= 1
  OBVIOUS
<1>2. n >= 1 => q[1] = "chunk"
  BY <1>1 DEF Shape
<1>3. n = 0 /\ last = 1 => q[1] = "end"
  BY DEF Shape
<1>4. n = 0 /\ last = 2 => q[1] = "error"
  BY DEF Shape
<1>5. n = 0 => last # 0
  BY <1>1 DEF Shape
<1>6. Head(q) = "chunk" => n >= 1
  BY <1>1, <1>3, <1>4, <1>5
<1>7. n >= 1 => Shape(Tail(q), 0, n - 1, last)
  BY <1>1 DEF Shape
<1>. QED
  BY <1>1, <1>2, <1>4, <1>5, <1>6, <1>7

LEMMA ShapeGrows ==
  ASSUME NEW q \in Seq(Item), NEW n \in Nat, NEW first \in 0 .. 1, Shape(q, first, n, 0)
  PROVE  /\ Shape(q \o <<"chunk">>, first, n + 1, 0)
         /\ Shape(q \o <<"end">>, first, n, 1)
         /\ Shape(q \o <<"error", "end">>, first, n, 2)
<1>1. /\ Len(q) = first + n /\ Len(q) \in Nat
      /\ first = 1 => q[1] = "response"
      /\ \A i \in 1 .. Len(q) : first < i => q[i] = "chunk"
  BY DEF Shape
<1>2. Shape(q \o <<"chunk">>, first, n + 1, 0)
  <2>. DEFINE r == q \o <<"chunk">>
  <2>1. /\ Len(r) = Len(q) + 1 /\ r[Len(q) + 1] = "chunk"
        /\ \A i \in 1 .. Len(q) : r[i] = q[i]
    OBVIOUS
  <2>. HIDE DEF r
  <2>2. Shape(r, first, n + 1, 0)
    BY <1>1, <2>1 DEF Shape
  <2>. QED
    BY <2>2 DEF r
<1>3. Shape(q \o <<"end">>, first, n, 1)
  <2>. DEFINE r == q \o <<"end">>
  <2>1. /\ Len(r) = Len(q) + 1 /\ r[Len(q) + 1] = "end"
        /\ \A i \in 1 .. Len(q) : r[i] = q[i]
    OBVIOUS
  <2>. HIDE DEF r
  <2>2. Shape(r, first, n, 1)
    BY <1>1, <2>1 DEF Shape
  <2>. QED
    BY <2>2 DEF r
<1>4. Shape(q \o <<"error", "end">>, first, n, 2)
  <2>. DEFINE r == q \o <<"error", "end">>
  <2>1. /\ Len(r) = Len(q) + 2 /\ r[Len(q) + 1] = "error" /\ r[Len(q) + 2] = "end"
        /\ \A i \in 1 .. Len(q) : r[i] = q[i]
    OBVIOUS
  <2>. HIDE DEF r
  <2>2. Shape(r, first, n, 2)
    BY <1>1, <2>1 DEF Shape
  <2>. QED
    BY <2>2 DEF r
<1>. QED
  BY <1>2, <1>3, <1>4

\* A step of one call leaves the others' streams alone.
SameStream(d) ==
    /\ job'[d] = job[d] /\ out'[d] = out[d] /\ caller'[d] = caller[d]
    /\ queue'[d] = queue[d] /\ put'[d] = put[d] /\ got'[d] = got[d] /\ cut'[d] = cut[d]

LEMMA OthersKeep ==
  ASSUME TypeOK, NEW c \in Calls, NEW d \in Calls, d # c,
         Submit(c) \/ Loop(c) \/ Upstream(c) \/ Thread(c) \/ Leave(c)
  PROVE  SameStream(d)
<1>1. CASE Submit(c)
  BY <1>1
  DEF SameStream, TypeOK, TaskTypes, ThreadTypes, QueueTypes, Submit, netVars,
      jobVars, streamVars
<1>2. CASE GetClient(c)
  BY <1>2
  DEF SameStream, TypeOK, TaskTypes, ThreadTypes, QueueTypes, GetClient,
      Unusable, netVars, jobVars, streamVars
<1>3. CASE Closed(c)
  BY <1>3
  DEF SameStream, TypeOK, TaskTypes, ThreadTypes, QueueTypes, Closed, netVars,
      jobVars, streamVars
<1>4. CASE Aclose(c)
  BY <1>4
  DEF SameStream, TypeOK, TaskTypes, ThreadTypes, QueueTypes, Aclose, netVars,
      jobVars, streamVars
<1>5. CASE ReadClosed(c)
  BY <1>5
  DEF SameStream, TypeOK, TaskTypes, ThreadTypes, QueueTypes, ReadClosed,
      Finish, Enqueue, netVars, jobVars, streamVars
<1>6. ASSUME NEW answer \in Answers, Answer(c, answer)
      PROVE  SameStream(d)
  BY <1>6
  DEF SameStream, TypeOK, TaskTypes, ThreadTypes, QueueTypes, Answer, Answers,
      IsValid, Patched, Retry, Again, Finish, netVars, jobVars, streamVars
<1>7. CASE Fail(c)
  BY <1>7
  DEF SameStream, TypeOK, TaskTypes, ThreadTypes, QueueTypes, Fail, Retry,
      Again, Finish, netVars, jobVars, streamVars
<1>8. CASE Disconnect(c)
  BY <1>8
  DEF SameStream, TypeOK, TaskTypes, ThreadTypes, QueueTypes, Disconnect,
      Retry, Again, Finish, netVars, jobVars, streamVars
<1>9. CASE Open(c)
  BY <1>9
  DEF SameStream, TypeOK, TaskTypes, ThreadTypes, QueueTypes, Open, Enqueue,
      netVars, jobVars, streamVars
<1>10. CASE Chunk(c)
  BY <1>10
  DEF SameStream, TypeOK, TaskTypes, ThreadTypes, QueueTypes, Chunk, Enqueue,
      netVars, jobVars, streamVars
<1>11. CASE EndOfBody(c)
  BY <1>11
  DEF SameStream, TypeOK, TaskTypes, ThreadTypes, QueueTypes, EndOfBody,
      Finish, Enqueue, netVars, jobVars, streamVars
<1>12. CASE Break(c)
  BY <1>12
  DEF SameStream, TypeOK, TaskTypes, ThreadTypes, QueueTypes, Break, Finish,
      Enqueue, netVars, jobVars, streamVars
<1>13. CASE Result(c)
  BY <1>13
  DEF SameStream, TypeOK, TaskTypes, ThreadTypes, QueueTypes, Result, Raised,
      Ends, netVars, jobVars, streamVars
<1>14. CASE Timeout(c)
  BY <1>14
  DEF SameStream, TypeOK, TaskTypes, ThreadTypes, QueueTypes, Timeout, Ends,
      netVars, jobVars, streamVars
<1>15. CASE TakeResponse(c)
  BY <1>15
  DEF SameStream, TypeOK, TaskTypes, ThreadTypes, QueueTypes, TakeResponse,
      Take, Close, Ends, netVars, jobVars, streamVars
<1>16. CASE TakeChunk(c)
  BY <1>16
  DEF SameStream, TypeOK, TaskTypes, ThreadTypes, QueueTypes, TakeChunk, Take,
      netVars, jobVars, streamVars
<1>17. CASE TakeEnd(c)
  BY <1>17
  DEF SameStream, TypeOK, TaskTypes, ThreadTypes, QueueTypes, TakeEnd, Take,
      Ends, netVars, jobVars, streamVars
<1>18. CASE TakeError(c)
  BY <1>18
  DEF SameStream, TypeOK, TaskTypes, ThreadTypes, QueueTypes, TakeError, Take,
      Ends, netVars, jobVars, streamVars
<1>19. CASE Drain(c)
  BY <1>19
  DEF SameStream, TypeOK, TaskTypes, ThreadTypes, QueueTypes, Drain, Take,
      Ends, netVars, jobVars, streamVars
<1>20. CASE Leave(c)
  BY <1>20
  DEF SameStream, TypeOK, TaskTypes, ThreadTypes, QueueTypes, Leave, Close,
      Ends, netVars, jobVars, streamVars
<1>21. CASE GetClientRaises(c)
  BY <1>21
  DEF SameStream, TypeOK, TaskTypes, ThreadTypes, QueueTypes, GetClientRaises,
      Finish, Enqueue
<1>22. CASE Fault(c)
  BY <1>22
  DEF SameStream, TypeOK, TaskTypes, ThreadTypes, QueueTypes, Fault, Finish,
      netVars, streamVars
<1>. QED
  BY <1>1, <1>2, <1>3, <1>4, <1>5, <1>6, <1>7, <1>8, <1>9, <1>10, <1>11, <1>12,
     <1>13, <1>14, <1>15, <1>16, <1>17, <1>18, <1>19, <1>20,
   <1>21, <1>22
  DEF Loop, Upstream, Thread

LEMMA Typed ==
  ASSUME TypeOK, StreamsOK, NEW c \in Streams
  PROVE  /\ c \in Calls /\ c \notin Fetches
         /\ StreamOK(c)
         /\ queue[c] \in Seq(Item)
         /\ put[c] \in Nat /\ got[c] \in Nat /\ put[c] - got[c] \in Nat
         /\ LastOf(c) \in 0 .. 2
         /\ job[c] # "done" => LastOf(c) = 0
BY NetworkAssumption
DEF TypeOK, ThreadTypes, QueueTypes, Item, StreamsOK, StreamOK, Calls, LastOf

LEMMA StreamNext ==
  ASSUME TypeOK, StreamsOK, NEW c \in Streams,
         Submit(c) \/ Loop(c) \/ Upstream(c) \/ Thread(c) \/ Leave(c)
  PROVE  StreamOK(c)'
<1>1. CASE Submit(c)
  <2>1. /\ caller[c] = "idle"
        /\ job'[c] = "ready"
        /\ out'[c] = out[c]
        /\ caller'[c] = "waiting"
        /\ queue'[c] = queue[c]
        /\ put'[c] = put[c]
        /\ got'[c] = got[c]
        /\ cut'[c] = cut[c]
    BY <1>1, Typed
    DEF Submit, TypeOK, TaskTypes, ThreadTypes, QueueTypes, netVars, jobVars,
        streamVars
  <2>. QED
    BY <2>1, Typed DEF StreamOK, LastOf
<1>2. CASE GetClient(c)
  <2>1. /\ job[c] = "ready"
        /\ job'[c] = "sent"
        /\ out'[c] = out[c]
        /\ caller'[c] = caller[c]
        /\ queue'[c] = queue[c]
        /\ put'[c] = put[c]
        /\ got'[c] = got[c]
        /\ cut'[c] = cut[c]
    BY <1>2, Typed
    DEF GetClient, TypeOK, TaskTypes, ThreadTypes, QueueTypes, netVars,
        jobVars, streamVars
  <2>. QED
    BY <2>1, Typed DEF StreamOK, LastOf
<1>3. CASE Closed(c)
  <2>1. FALSE
    BY <1>3, Typed DEF Closed, StreamOK, netVars, jobVars, streamVars
  <2>. QED
    BY <2>1, Typed DEF StreamOK, LastOf
<1>4. CASE Aclose(c)
  <2>1. /\ cut[c] = "asked"
        /\ job'[c] = job[c]
        /\ out'[c] = out[c]
        /\ caller'[c] = caller[c]
        /\ queue'[c] = queue[c]
        /\ put'[c] = put[c]
        /\ got'[c] = got[c]
        /\ cut'[c] = "run"
    BY <1>4, Typed
    DEF Aclose, TypeOK, TaskTypes, ThreadTypes, QueueTypes, netVars, jobVars,
        streamVars
  <2>. QED
    BY <2>1, Typed DEF StreamOK, LastOf
<1>5. CASE ReadClosed(c)
  <2>1. /\ job[c] = "streaming" /\ cut[c] = "run"
        /\ job'[c] = "done"
        /\ out'[c] = "error"
        /\ caller'[c] = caller[c]
        /\ queue'[c] = queue[c] \o <<"end">>
        /\ put'[c] = put[c]
        /\ got'[c] = got[c]
        /\ cut'[c] = cut[c]
    BY <1>5, Typed
    DEF ReadClosed, Finish, Enqueue, TypeOK, TaskTypes, ThreadTypes,
        QueueTypes, netVars, jobVars, streamVars
  <2>. QED
    BY <2>1, Typed DEF StreamOK, LastOf
<1>6. ASSUME NEW answer \in Answers, Answer(c, answer)
      PROVE  StreamOK(c)'
  <2>1. FALSE
    BY <1>6, Typed DEF Answer, netVars, jobVars, streamVars
  <2>. QED
    BY <2>1, Typed DEF StreamOK, LastOf
<1>7. CASE Fail(c)
  <2>1. FALSE
    BY <1>7, Typed DEF Fail, netVars, jobVars, streamVars
  <2>. QED
    BY <2>1, Typed DEF StreamOK, LastOf
<1>8. CASE Disconnect(c)
  <2>1. FALSE
    BY <1>8, Typed DEF Disconnect, netVars, jobVars, streamVars
  <2>. QED
    BY <2>1, Typed DEF StreamOK, LastOf
<1>9. CASE Open(c)
  <2>1. /\ job[c] = "sent"
        /\ job'[c] = "streaming"
        /\ out'[c] = out[c]
        /\ caller'[c] = caller[c]
        /\ queue'[c] = queue[c] \o <<"response">>
        /\ put'[c] = put[c]
        /\ got'[c] = got[c]
        /\ cut'[c] = cut[c]
    BY <1>9, Typed
    DEF Open, Enqueue, TypeOK, TaskTypes, ThreadTypes, QueueTypes, netVars,
        jobVars, streamVars
  <2>. QED
    BY <2>1, Typed DEF StreamOK, LastOf, Shape
<1>10. CASE Chunk(c)
  <2>1. /\ job[c] = "streaming"
        /\ job'[c] = job[c]
        /\ out'[c] = out[c]
        /\ caller'[c] = caller[c]
        /\ queue'[c] = queue[c] \o <<"chunk">>
        /\ put'[c] = put[c] + 1
        /\ got'[c] = got[c]
        /\ cut'[c] = cut[c]
    BY <1>10, Typed
    DEF Chunk, Enqueue, TypeOK, TaskTypes, ThreadTypes, QueueTypes, netVars,
        jobVars, streamVars
  <2>2. CASE caller[c] = "waiting" /\ job[c] = "streaming"
    <3>1. Shape(queue[c], 1, put[c], 0)
      BY <2>2, Typed DEF StreamOK
    <3>2. Shape(queue[c] \o <<"chunk">>, 1, put[c] + 1, 0)
      BY <3>1, Typed, ShapeGrows
    <3>. QED
      BY <2>1, <2>2, <3>2, Typed DEF StreamOK, LastOf
  <2>3. CASE caller[c] = "reading" /\ job[c] = "streaming"
    <3>1. Shape(queue[c], 0, put[c] - got[c], 0)
      BY <2>3, Typed DEF StreamOK
    <3>2. Shape(queue[c] \o <<"chunk">>, 0, put[c] - got[c] + 1, 0)
      BY <3>1, Typed, ShapeGrows
    <3>3. put'[c] - got'[c] = put[c] - got[c] + 1
      BY <2>1, Typed
    <3>. QED
      BY <2>1, <2>3, <3>2, <3>3, Typed DEF StreamOK, LastOf
  <2>. QED
    BY <2>1, <2>2, <2>3, Typed DEF StreamOK, LastOf
<1>11. CASE EndOfBody(c)
  <2>1. /\ job[c] = "streaming"
        /\ job'[c] = "done"
        /\ out'[c] = "fine"
        /\ caller'[c] = caller[c]
        /\ queue'[c] = queue[c] \o <<"end">>
        /\ put'[c] = put[c]
        /\ got'[c] = got[c]
        /\ cut'[c] = cut[c]
    BY <1>11, Typed
    DEF EndOfBody, Finish, Enqueue, TypeOK, TaskTypes, ThreadTypes, QueueTypes,
        netVars, jobVars, streamVars
  <2>2. CASE caller[c] = "waiting" /\ job[c] = "streaming"
    <3>1. Shape(queue[c], 1, put[c], 0)
      BY <2>2, Typed DEF StreamOK
    <3>2. Shape(queue[c] \o <<"end">>, 1, put[c], 1)
      BY <3>1, Typed, ShapeGrows
    <3>. QED
      BY <2>1, <2>2, <3>2, Typed DEF StreamOK, LastOf
  <2>3. CASE caller[c] = "reading" /\ job[c] = "streaming"
    <3>1. Shape(queue[c], 0, put[c] - got[c], 0)
      BY <2>3, Typed DEF StreamOK
    <3>2. Shape(queue[c] \o <<"end">>, 0, put[c] - got[c], 1)
      BY <3>1, Typed, ShapeGrows
    <3>3. put'[c] - got'[c] = put[c] - got[c]
      BY <2>1, Typed
    <3>. QED
      BY <2>1, <2>3, <3>2, <3>3, Typed DEF StreamOK, LastOf
  <2>. QED
    BY <2>1, <2>2, <2>3, Typed DEF StreamOK, LastOf
<1>12. CASE Break(c)
  <2>1. /\ job[c] \in {"sent", "streaming"}
        /\ job'[c] = "done"
        /\ out'[c] = "error"
        /\ caller'[c] = caller[c]
        /\ queue'[c] = queue[c] \o <<"error", "end">>
        /\ put'[c] = put[c]
        /\ got'[c] = got[c]
        /\ cut'[c] = cut[c]
    BY <1>12, Typed
    DEF Break, Finish, Enqueue, TypeOK, TaskTypes, ThreadTypes, QueueTypes,
        netVars, jobVars, streamVars
  <2>2. CASE caller[c] = "waiting" /\ job[c] = "streaming"
    <3>1. Shape(queue[c], 1, put[c], 0)
      BY <2>2, Typed DEF StreamOK
    <3>2. Shape(queue[c] \o <<"error", "end">>, 1, put[c], 2)
      BY <3>1, Typed, ShapeGrows
    <3>. QED
      BY <2>1, <2>2, <3>2, Typed DEF StreamOK, LastOf
  <2>3. CASE caller[c] = "reading" /\ job[c] = "streaming"
    <3>1. Shape(queue[c], 0, put[c] - got[c], 0)
      BY <2>3, Typed DEF StreamOK
    <3>2. Shape(queue[c] \o <<"error", "end">>, 0, put[c] - got[c], 2)
      BY <3>1, Typed, ShapeGrows
    <3>3. put'[c] - got'[c] = put[c] - got[c]
      BY <2>1, Typed
    <3>. QED
      BY <2>1, <2>3, <3>2, <3>3, Typed DEF StreamOK, LastOf
  <2>4. CASE job[c] = "sent"
    <3>1. queue[c] \o <<"error", "end">> = <<"error", "end">>
      <4>1. <<>> \o <<"error", "end">> = <<"error", "end">>
        OBVIOUS
      <4>2. queue[c] = <<>>
        BY <2>4, Typed DEF StreamOK
      <4>. QED
        BY <4>1, <4>2
    <3>. QED
      BY <2>1, <2>4, <3>1, Typed DEF StreamOK, LastOf
  <2>. QED
    BY <2>1, <2>2, <2>3, <2>4, Typed DEF StreamOK, LastOf
<1>13. CASE Result(c)
  <2>1. FALSE
    BY <1>13, Typed DEF Result, netVars, jobVars, streamVars
  <2>. QED
    BY <2>1, Typed DEF StreamOK, LastOf
<1>14. CASE Timeout(c)
  <2>1. FALSE
    BY <1>14, Typed DEF Timeout, netVars, jobVars, streamVars
  <2>. QED
    BY <2>1, Typed DEF StreamOK, LastOf
<1>15. CASE TakeResponse(c)
  <2>1. /\ caller[c] = "waiting" /\ queue[c] # <<>> /\ Head(queue[c]) = "response"
        /\ job'[c] = job[c]
        /\ out'[c] = out[c]
        /\ queue'[c] = Tail(queue[c])
        /\ put'[c] = put[c]
        /\ got'[c] = got[c]
        /\ \/ caller'[c] = "reading" /\ cut'[c] = cut[c]
           \/ caller'[c] = "draining"
    BY <1>15, Typed
    DEF TakeResponse, Take, Close, Ends, TypeOK, TaskTypes, ThreadTypes,
        QueueTypes, netVars, jobVars, streamVars
  <2>2. caller'[c] = "reading" => Shape(Tail(queue[c]), 0, put[c], LastOf(c))
    <3>1. Head(<<"error", "end">>) = "error"
      OBVIOUS
    <3>2. Shape(queue[c], 1, put[c], LastOf(c))
      <4>1. job[c] \in {"streaming", "done"}
        BY <2>1, Typed DEF StreamOK, TypeOK, TaskTypes
      <4>2. queue[c] # <<"error", "end">>
        <5>1. Head(queue[c]) = "response"
          BY <2>1
        <5>. QED
          BY <3>1, <5>1
      <4>. QED
        BY <2>1, <4>1, <4>2, Typed DEF StreamOK
    <3>. QED
      BY <3>2, Typed, ShapeTail
  <2>3. LastOf(c)' = LastOf(c)
    BY <2>1 DEF LastOf
  <2>4. job[c] \notin {"none", "ready", "sent"} /\ got[c] = 0
    BY <2>1, Typed DEF StreamOK
  <2>. QED
    BY <2>1, <2>2, <2>3, <2>4, Typed DEF StreamOK
<1>16. CASE TakeChunk(c)
  <2>1. /\ caller[c] = "reading" /\ queue[c] # <<>> /\ Head(queue[c]) = "chunk"
        /\ job'[c] = job[c]
        /\ out'[c] = out[c]
        /\ caller'[c] = caller[c]
        /\ queue'[c] = Tail(queue[c])
        /\ put'[c] = put[c]
        /\ got'[c] = got[c] + 1
        /\ cut'[c] = cut[c]
    BY <1>16, Typed
    DEF TakeChunk, Take, TypeOK, TaskTypes, ThreadTypes, QueueTypes, netVars,
        jobVars, streamVars
  <2>. QED
    BY <2>1, Typed, ShapeHead DEF StreamOK, LastOf
<1>17. CASE TakeEnd(c)
  <2>1. /\ caller[c] = "reading" /\ queue[c] # <<>> /\ Head(queue[c]) = "end"
        /\ job'[c] = job[c]
        /\ out'[c] = out[c]
        /\ caller'[c] = "answered"
        /\ queue'[c] = Tail(queue[c])
        /\ put'[c] = put[c]
        /\ got'[c] = got[c]
        /\ cut'[c] = cut[c]
    BY <1>17, Typed
    DEF TakeEnd, Take, Ends, TypeOK, TaskTypes, ThreadTypes, QueueTypes,
        netVars, jobVars, streamVars
  <2>. QED
    BY <2>1, Typed, ShapeHead DEF StreamOK, LastOf
<1>18. CASE TakeError(c)
  <2>1. /\ caller[c] \in {"waiting", "reading"} /\ queue[c] # <<>>
        /\ job'[c] = job[c]
        /\ out'[c] = out[c]
        /\ caller'[c] = "raised"
        /\ queue'[c] = Tail(queue[c])
        /\ put'[c] = put[c]
        /\ got'[c] = got[c]
        /\ cut'[c] = cut[c]
    BY <1>18, Typed
    DEF TakeError, Take, Ends, TypeOK, TaskTypes, ThreadTypes, QueueTypes,
        netVars, jobVars, streamVars
  <2>. QED
    BY <2>1, Typed DEF StreamOK, LastOf
<1>19. CASE Drain(c)
  <2>1. /\ caller[c] = "draining" /\ queue[c] # <<>>
        /\ job'[c] = job[c]
        /\ out'[c] = out[c]
        /\ queue'[c] = Tail(queue[c])
        /\ put'[c] = put[c]
        /\ got'[c] = got[c]
        /\ cut'[c] = cut[c]
        /\ caller'[c] \in {"draining", "refused"}
    BY <1>19, Typed
    DEF Drain, Take, Ends, TypeOK, TaskTypes, ThreadTypes, QueueTypes, netVars,
        jobVars, streamVars
  <2>. QED
    BY <2>1, Typed DEF StreamOK, LastOf
<1>20. CASE Leave(c)
  <2>1. /\ caller[c] = "reading"
        /\ job'[c] = job[c]
        /\ out'[c] = out[c]
        /\ caller'[c] = "draining"
        /\ queue'[c] = queue[c]
        /\ put'[c] = put[c]
        /\ got'[c] = got[c]
        /\ cut'[c] = "asked"
    BY <1>20, Typed
    DEF Leave, Close, Ends, TypeOK, TaskTypes, ThreadTypes, QueueTypes,
        netVars, jobVars, streamVars
  <2>. QED
    BY <2>1, Typed DEF StreamOK, LastOf
<1>21. CASE GetClientRaises(c)
  <2>1. /\ job[c] = "ready"
        /\ job'[c] = "done"
        /\ out'[c] = "fault"
        /\ caller'[c] = caller[c]
        /\ queue'[c] = queue[c] \o <<"error", "end">>
        /\ put'[c] = put[c]
        /\ got'[c] = got[c]
        /\ cut'[c] = cut[c]
    BY <1>21, Typed
    DEF GetClientRaises, Finish, Enqueue, TypeOK, TaskTypes, ThreadTypes,
        QueueTypes
  <2>2. queue'[c] = <<"error", "end">>
    <3>1. <<>> \o <<"error", "end">> = <<"error", "end">>
      OBVIOUS
    <3>2. queue[c] = <<>>
      BY <2>1, Typed DEF StreamOK
    <3>. QED
      BY <2>1, <3>1, <3>2
  <2>. QED
    BY <2>1, <2>2, Typed DEF StreamOK, LastOf
<1>22. CASE Fault(c)
  <2>1. FALSE
    BY <1>22, Typed DEF Fault
  <2>. QED
    BY <2>1
<1>. QED
  BY <1>1, <1>2, <1>3, <1>4, <1>5, <1>6, <1>7, <1>8, <1>9, <1>10, <1>11, <1>12,
     <1>13, <1>14, <1>15, <1>16, <1>17, <1>18, <1>19, <1>20,
   <1>21, <1>22
  DEF Loop, Upstream, Thread

LEMMA StreamsStay ==
  ASSUME TypeOK, StreamsOK, [Next]_vars
  PROVE  StreamsOK'
<1>. SUFFICES ASSUME NEW d \in Streams
              PROVE  StreamOK(d)'
  BY DEF StreamsOK
<1>0. StreamOK(d) /\ d \in Calls
  BY DEF StreamsOK, Calls
<1>1. CASE UNCHANGED vars
  BY <1>0, <1>1 DEF StreamOK, LastOf, vars, jobVars, streamVars
<1>2. ASSUME NEW c \in Calls, Submit(c) \/ Loop(c) \/ Upstream(c) \/ Thread(c) \/ Leave(c)
      PROVE  StreamOK(d)'
  <2>1. CASE d = c
    BY <1>2, <2>1, StreamNext
  <2>2. CASE d # c
    <3>1. SameStream(d)
      BY <1>0, <1>2, <2>2, OthersKeep
    <3>. QED
      BY <1>0, <3>1 DEF StreamOK, LastOf, SameStream
  <2>. QED
    BY <2>1, <2>2
<1>3. CASE Quiet
  BY <1>1, <1>3 DEF Quiet
<1>. QED
  BY <1>1, <1>2, <1>3 DEF Next

\* What StreamOK says of a stream holds of each of them in every state.
THEOREM StreamsHold == Spec => []StreamsOK
<1>1. Init => StreamsOK
  BY NetworkAssumption DEF Init, StreamsOK, StreamOK, Calls, LastOf
<1>2. TypeOK /\ StreamsOK /\ [Next]_vars => StreamsOK'
  BY StreamsStay
<1>. QED
  BY <1>1, <1>2, TypeCorrect, PTL DEF Spec

-----------------------------------------------------------------------------
(* The delivery.                                                           *)

\* A step that changes nothing the browser sees is a stutter.
LEMMA UnseenStep ==
  ASSUME NEW c \in Streams, Phase(c)' = Phase(c),
         put'[c] = put[c], got'[c] = got[c], (out'[c] = "fine") = (out[c] = "fine")
  PROVE  UNCHANGED Delivery(c)!vars
BY DEF Delivery!vars

\* A step of a stream's own is a step of the delivery, or leaves it alone.
LEMMA StreamStep ==
  ASSUME TypeOK, StreamsOK, NEW c \in Streams,
         Submit(c) \/ Loop(c) \/ Upstream(c) \/ Thread(c) \/ Leave(c)
  PROVE  Delivery(c)!Next \/ UNCHANGED Delivery(c)!vars
<1>1. CASE Submit(c)
  <2>1. /\ caller[c] = "idle"
        /\ caller'[c] = "waiting"
        /\ put'[c] = put[c]
        /\ out'[c] = out[c]
        /\ got'[c] = got[c]
    BY <1>1, Typed
    DEF Submit, TypeOK, TaskTypes, ThreadTypes, QueueTypes, netVars, jobVars, streamVars
  <2>. QED
    BY <2>1 DEF Phase, StreamOK, Delivery!Next, Delivery!Ask
<1>2. CASE GetClient(c)
  <2>1. /\ put'[c] = put[c]
        /\ out'[c] = out[c]
        /\ got'[c] = got[c]
        /\ caller'[c] = caller[c]
    BY <1>2, Typed
    DEF GetClient, TypeOK, TaskTypes, ThreadTypes, QueueTypes, netVars, jobVars, streamVars
  <2>. QED
    BY <2>1, Typed, UnseenStep DEF Phase, StreamOK
<1>3. CASE Closed(c)
  BY <1>3, Typed DEF Closed, StreamOK
<1>4. CASE Aclose(c)
  <2>1. /\ put'[c] = put[c]
        /\ out'[c] = out[c]
        /\ got'[c] = got[c]
        /\ caller'[c] = caller[c]
    BY <1>4, Typed
    DEF Aclose, TypeOK, TaskTypes, ThreadTypes, QueueTypes, netVars, jobVars, streamVars
  <2>. QED
    BY <2>1, Typed, UnseenStep DEF Phase, StreamOK
<1>5. CASE ReadClosed(c)
  <2>1. /\ job[c] = "streaming"
        /\ out'[c] = "error"
        /\ cut[c] = "run"
        /\ put'[c] = put[c]
        /\ got'[c] = got[c]
        /\ caller'[c] = caller[c]
    BY <1>5, Typed
    DEF ReadClosed, Finish, Enqueue, TypeOK, TaskTypes, ThreadTypes, QueueTypes, netVars, jobVars, streamVars
  <2>. QED
    BY <2>1, Typed, UnseenStep DEF Phase, StreamOK
<1>6. ASSUME NEW answer \in Answers, Answer(c, answer)
      PROVE  FALSE
  BY <1>6, Typed DEF Answer
<1>7. CASE Fail(c) \/ Disconnect(c)
  BY <1>7, Typed DEF Fail, Disconnect, StreamOK
<1>8. CASE Open(c)
  <2>1. /\ put'[c] = put[c]
        /\ out'[c] = out[c]
        /\ got'[c] = got[c]
        /\ caller'[c] = caller[c]
    BY <1>8, Typed
    DEF Open, Enqueue, TypeOK, TaskTypes, ThreadTypes, QueueTypes, netVars, jobVars, streamVars
  <2>. QED
    BY <2>1, Typed, UnseenStep DEF Phase, StreamOK
<1>9. CASE Chunk(c)
  <2>1. /\ job[c] = "streaming"
        /\ put'[c] = put[c] + 1
        /\ out'[c] = out[c]
        /\ got'[c] = got[c]
        /\ caller'[c] = caller[c]
    BY <1>9, Typed
    DEF Chunk, Enqueue, TypeOK, TaskTypes, ThreadTypes, QueueTypes, netVars, jobVars, streamVars
  <2>2. out[c] # "fine" /\ Phase(c) \in {"open", "cut"}
    BY <2>1, Typed DEF StreamOK, Phase
  <2>. QED
    BY <2>1, <2>2 DEF Phase, StreamOK, Delivery!Next, Delivery!Grow
<1>10. CASE EndOfBody(c)
  <2>1. /\ job[c] = "streaming"
        /\ out'[c] = "fine"
        /\ put'[c] = put[c]
        /\ got'[c] = got[c]
        /\ caller'[c] = caller[c]
    BY <1>10, Typed
    DEF EndOfBody, Finish, Enqueue, TypeOK, TaskTypes, ThreadTypes, QueueTypes, netVars, jobVars, streamVars
  <2>2. out[c] # "fine" /\ Phase(c) \in {"open", "cut"}
    BY <2>1, Typed DEF StreamOK, Phase
  <2>. QED
    BY <2>1, <2>2 DEF Phase, StreamOK, Delivery!Next, Delivery!Grow
<1>11. CASE Break(c)
  <2>1. /\ job[c] \in {"sent", "streaming"}
        /\ out'[c] = "error"
        /\ put'[c] = put[c]
        /\ got'[c] = got[c]
        /\ caller'[c] = caller[c]
    BY <1>11, Typed
    DEF Break, Finish, Enqueue, TypeOK, TaskTypes, ThreadTypes, QueueTypes, netVars, jobVars, streamVars
  <2>. QED
    BY <2>1, Typed, UnseenStep DEF Phase, StreamOK
<1>12. CASE Result(c) \/ Timeout(c)
  BY <1>12, Typed DEF Result, Timeout, StreamOK
<1>13. CASE TakeResponse(c)
  <2>1. /\ caller[c] = "waiting"
        /\ caller'[c] \in {"reading", "draining"}
        /\ put'[c] = put[c]
        /\ out'[c] = out[c]
        /\ got'[c] = got[c]
    BY <1>13, Typed
    DEF TakeResponse, Take, Close, Ends, TypeOK, TaskTypes, ThreadTypes, QueueTypes, netVars, jobVars, streamVars
  <2>. QED
    BY <2>1 DEF Phase, StreamOK, Delivery!Next, Delivery!Cut, Delivery!vars
<1>14. CASE TakeChunk(c)
  <2>1. /\ caller[c] = "reading"
        /\ queue[c] # <<>> /\ Head(queue[c]) = "chunk"
        /\ got'[c] = got[c] + 1
        /\ put'[c] = put[c]
        /\ out'[c] = out[c]
        /\ caller'[c] = caller[c]
    BY <1>14, Typed
    DEF TakeChunk, Take, TypeOK, TaskTypes, ThreadTypes, QueueTypes, netVars, jobVars, streamVars
  <2>2. got[c] < put[c]
    <3>1. Shape(queue[c], 0, put[c] - got[c], LastOf(c))
      BY <2>1, Typed DEF StreamOK
    <3>. QED
      BY <2>1, <3>1, Typed, ShapeHead
  <2>. QED
    BY <2>1, <2>2 DEF Phase, StreamOK, Delivery!Next, Delivery!Deliver
<1>15. CASE TakeEnd(c)
  <2>1. /\ caller[c] = "reading"
        /\ queue[c] # <<>> /\ Head(queue[c]) = "end"
        /\ caller'[c] = "answered"
        /\ put'[c] = put[c]
        /\ out'[c] = out[c]
        /\ got'[c] = got[c]
    BY <1>15, Typed
    DEF TakeEnd, Take, Ends, TypeOK, TaskTypes, ThreadTypes, QueueTypes, netVars, jobVars, streamVars
  <2>2. out[c] = "fine" /\ got[c] = put[c]
    <3>1. Shape(queue[c], 0, put[c] - got[c], LastOf(c))
      BY <2>1, Typed DEF StreamOK
    <3>2. put[c] - got[c] = 0 /\ LastOf(c) = 1
      BY <2>1, <3>1, Typed, ShapeHead
    <3>. QED
      BY <3>2, Typed DEF LastOf
  <2>. QED
    BY <2>1, <2>2 DEF Phase, StreamOK, Delivery!Next, Delivery!Complete
<1>16. CASE TakeError(c)
  <2>1. /\ caller[c] \in {"waiting", "reading"}
        /\ caller'[c] = "raised"
        /\ put'[c] = put[c]
        /\ out'[c] = out[c]
        /\ got'[c] = got[c]
    BY <1>16, Typed
    DEF TakeError, Take, Ends, TypeOK, TaskTypes, ThreadTypes, QueueTypes, netVars, jobVars, streamVars
  <2>. QED
    BY <2>1 DEF Phase, StreamOK, Delivery!Next, Delivery!Cut
<1>17. CASE Drain(c)
  <2>1. /\ caller[c] = "draining"
        /\ caller'[c] \in {"draining", "refused"}
        /\ put'[c] = put[c]
        /\ out'[c] = out[c]
        /\ got'[c] = got[c]
    BY <1>17, Typed
    DEF Drain, Take, Ends, TypeOK, TaskTypes, ThreadTypes, QueueTypes, netVars, jobVars, streamVars
  <2>. QED
    BY <2>1, Typed, UnseenStep DEF Phase, StreamOK
<1>18. CASE Leave(c)
  <2>1. /\ caller[c] = "reading"
        /\ caller'[c] = "draining"
        /\ put'[c] = put[c]
        /\ out'[c] = out[c]
        /\ got'[c] = got[c]
    BY <1>18, Typed
    DEF Leave, Close, Ends, TypeOK, TaskTypes, ThreadTypes, QueueTypes, netVars, jobVars, streamVars
  <2>. QED
    BY <2>1 DEF Phase, StreamOK, Delivery!Next, Delivery!Cut
<1>19. CASE GetClientRaises(c)
  <2>1. /\ job[c] = "ready"
        /\ out'[c] = "fault"
        /\ put'[c] = put[c]
        /\ got'[c] = got[c]
        /\ caller'[c] = caller[c]
    BY <1>19, Typed DEF GetClientRaises, Finish, TypeOK, TaskTypes
  <2>. QED
    BY <2>1, Typed, UnseenStep DEF Phase, StreamOK
<1>20. CASE Fault(c)
  BY <1>20, Typed DEF Fault
<1>. QED
  BY <1>1, <1>2, <1>3, <1>4, <1>5, <1>6, <1>7, <1>8, <1>9, <1>10, <1>11, <1>12,
     <1>13, <1>14, <1>15, <1>16, <1>17, <1>18,
   <1>19, <1>20
  DEF Loop, Upstream, Thread

\* The image proxy implements the delivery, for any number of calls, images of
\* any length and whatever the upstreams and browsers do.
THEOREM Delivers == Spec => ImplementsDelivery
<1>1. Init => \A c \in Streams : Delivery(c)!Init
  BY DEF Init, Delivery!Init, Phase, Calls
<1>2. ASSUME TypeOK, StreamsOK, [Next]_vars, NEW d \in Streams
      PROVE  Delivery(d)!Next \/ UNCHANGED Delivery(d)!vars
  <2>1. CASE UNCHANGED vars
    <3>1. /\ put'[d] = put[d] /\ out'[d] = out[d] /\ got'[d] = got[d]
          /\ caller'[d] = caller[d]
      BY <2>1 DEF vars, jobVars, streamVars
    <3>. QED
      BY <3>1, UnseenStep DEF Phase
  <2>2. ASSUME NEW c \in Calls, Submit(c) \/ Loop(c) \/ Upstream(c) \/ Thread(c) \/ Leave(c)
        PROVE  Delivery(d)!Next \/ UNCHANGED Delivery(d)!vars
    <3>1. CASE d = c
      BY <1>2, <2>2, <3>1, StreamStep
    <3>2. CASE d # c
      <4>1. SameStream(d)
        BY <1>2, <2>2, <3>2, OthersKeep DEF Calls
      <4>. QED
        BY <4>1, UnseenStep DEF SameStream, Phase
    <3>. QED
      BY <3>1, <3>2
  <2>3. CASE Quiet
    BY <2>1, <2>3 DEF Quiet
  <2>. QED
    BY <1>2, <2>1, <2>2, <2>3 DEF Next
<1>3. TypeOK /\ StreamsOK /\ [Next]_vars
         => [\A c \in Streams : Delivery(c)!Next \/ UNCHANGED Delivery(c)!vars]_vars
  BY <1>2
<1>. QED
  BY <1>1, <1>3, TypeCorrect, StreamsHold, PTL DEF Spec, ImplementsDelivery

-----------------------------------------------------------------------------
(* The threads of streams.                                                 *)

\* A call that was made has a task.  A thread that lets its response go has
\* asked for it to be closed, and finds no other response in the queue but,
\* once the task has ended, the end.
WaitOK(c) ==
    /\ caller[c] # "idle" => job[c] # "none"
    /\ caller[c] = "draining" =>
           /\ cut[c] # "no"
           /\ \A i \in 1 .. Len(queue[c]) : queue[c][i] # "response"
           /\ job[c] = "done" =>
                  Len(queue[c]) >= 1 /\ queue[c][Len(queue[c])] = "end"

WaitsOK == \A c \in Streams : WaitOK(c)

\* What the thread still has to drop.
LEMMA ShapeDropped ==
  ASSUME NEW q \in Seq(Item), NEW n \in Nat, NEW last \in 0 .. 2, Shape(q, 0, n, last)
  PROVE  /\ \A i \in 1 .. Len(q) : q[i] # "response"
         /\ last # 0 => Len(q) >= 1 /\ q[Len(q)] = "end"
<1>1. Len(q) = n + last
  BY DEF Shape
<1>2. ASSUME NEW i \in 1 .. Len(q)
      PROVE  q[i] # "response"
  <2>1. CASE i <= n
    BY <2>1 DEF Shape
  <2>2. CASE i > n
    <3>1. \/ last = 1 /\ i = Len(q)
          \/ last = 2 /\ (i = Len(q) \/ i = Len(q) - 1)
      BY <1>1, <2>2
    <3>. QED
      BY <3>1 DEF Shape
  <2>. QED
    BY <2>1, <2>2
<1>3. last # 0 => Len(q) >= 1 /\ q[Len(q)] = "end"
  BY <1>1 DEF Shape
<1>. QED
  BY <1>2, <1>3

\* What is put in behind it does not change that.
LEMMA DroppedGrows ==
  ASSUME NEW q \in Seq(Item), NEW e \in Seq(Item \ {"response"}),
         \A i \in 1 .. Len(q) : q[i] # "response"
  PROVE  /\ \A i \in 1 .. Len(q \o e) : (q \o e)[i] # "response"
         /\ Len(e) >= 1 => /\ Len(q \o e) >= 1
                           /\ (q \o e)[Len(q \o e)] = e[Len(e)]
<1>. DEFINE r == q \o e
<1>1. /\ Len(r) = Len(q) + Len(e)
      /\ \A i \in 1 .. Len(q) : r[i] = q[i]
      /\ \A i \in 1 .. Len(e) : r[Len(q) + i] = e[i]
  OBVIOUS
<1>2. ASSUME NEW i \in 1 .. Len(r)
      PROVE  r[i] # "response"
  <2>1. CASE i <= Len(q)
    BY <1>1, <2>1
  <2>2. CASE i > Len(q)
    <3>1. i - Len(q) \in 1 .. Len(e) /\ i = Len(q) + (i - Len(q))
      BY <1>1, <2>2
    <3>2. r[i] = e[i - Len(q)]
      BY <1>1, <3>1
    <3>3. e[i - Len(q)] \in Item \ {"response"}
      BY <3>1
    <3>. QED
      BY <3>2, <3>3
  <2>. QED
    BY <2>1, <2>2
<1>3. Len(e) >= 1 => Len(r) >= 1 /\ r[Len(r)] = e[Len(e)]
  BY <1>1
<1>. QED
  BY <1>2, <1>3

LEMMA WaitNext ==
  ASSUME TypeOK, StreamsOK, WaitsOK, NEW c \in Streams,
         Submit(c) \/ Loop(c) \/ Upstream(c) \/ Thread(c) \/ Leave(c)
  PROVE  WaitOK(c)'
<1>0. WaitOK(c)
  BY DEF WaitsOK
<1>1. CASE Submit(c)
  <2>1. /\ job'[c] = "ready"
        /\ caller'[c] = "waiting"
        /\ queue'[c] = queue[c]
        /\ cut'[c] = cut[c]
    BY <1>1, Typed
    DEF Submit, TypeOK, TaskTypes, ThreadTypes, QueueTypes, netVars, jobVars, streamVars
  <2>. QED
    BY <1>0, <2>1, Typed DEF WaitOK, StreamOK
<1>2. CASE GetClient(c)
  <2>1. /\ job[c] = "ready"
        /\ job'[c] = "sent"
        /\ caller'[c] = caller[c]
        /\ queue'[c] = queue[c]
        /\ cut'[c] = cut[c]
    BY <1>2, Typed
    DEF GetClient, TypeOK, TaskTypes, ThreadTypes, QueueTypes, netVars, jobVars, streamVars
  <2>. QED
    BY <1>0, <2>1, Typed DEF WaitOK, StreamOK
<1>3. CASE Closed(c)
  BY <1>3, Typed DEF Closed, StreamOK
<1>4. CASE Aclose(c)
  <2>1. /\ job'[c] = job[c]
        /\ caller'[c] = caller[c]
        /\ queue'[c] = queue[c]
        /\ cut'[c] = "run"
    BY <1>4, Typed
    DEF Aclose, TypeOK, TaskTypes, ThreadTypes, QueueTypes, netVars, jobVars, streamVars
  <2>. QED
    BY <1>0, <2>1, Typed DEF WaitOK, StreamOK
<1>5. CASE ReadClosed(c)
  <2>1. /\ job'[c] = "done"
        /\ caller'[c] = caller[c]
        /\ queue'[c] = queue[c] \o <<"end">>
        /\ cut'[c] = cut[c]
    BY <1>5, Typed
    DEF ReadClosed, Finish, Enqueue, TypeOK, TaskTypes, ThreadTypes, QueueTypes, netVars, jobVars, streamVars
  <2>2. <<"end">> \in Seq(Item \ {"response"})
    BY DEF Item
  <2>3. caller[c] = "draining" =>
           /\ \A i \in 1 .. Len(queue'[c]) : queue'[c][i] # "response"
           /\ Len(queue'[c]) >= 1
           /\ queue'[c][Len(queue'[c])] = <<"end">>[Len(<<"end">>)]
    BY <1>0, <2>1, <2>2, Typed, DroppedGrows DEF WaitOK
  <2>. QED
    BY <1>0, <2>1, <2>3 DEF WaitOK
<1>6. ASSUME NEW answer \in Answers, Answer(c, answer)
      PROVE  FALSE
  BY <1>6, Typed DEF Answer
<1>7. CASE Fail(c) \/ Disconnect(c)
  BY <1>7, Typed DEF Fail, Disconnect, StreamOK
<1>8. CASE Open(c)
  <2>1. /\ job[c] = "sent"
        /\ job'[c] = "streaming"
        /\ caller'[c] = caller[c]
        /\ cut'[c] = cut[c]
    BY <1>8, Typed
    DEF Open, Enqueue, TypeOK, TaskTypes, ThreadTypes, QueueTypes, netVars, jobVars, streamVars
  <2>. QED
    BY <1>0, <2>1, Typed DEF WaitOK, StreamOK
<1>9. CASE Chunk(c)
  <2>1. /\ job[c] = "streaming"
        /\ job'[c] = job[c]
        /\ caller'[c] = caller[c]
        /\ queue'[c] = queue[c] \o <<"chunk">>
        /\ cut'[c] = cut[c]
    BY <1>9, Typed
    DEF Chunk, Enqueue, TypeOK, TaskTypes, ThreadTypes, QueueTypes, netVars, jobVars, streamVars
  <2>2. <<"chunk">> \in Seq(Item \ {"response"})
    BY DEF Item
  <2>3. caller[c] = "draining" =>
           /\ \A i \in 1 .. Len(queue'[c]) : queue'[c][i] # "response"
           /\ Len(queue'[c]) >= 1
           /\ queue'[c][Len(queue'[c])] = <<"chunk">>[Len(<<"chunk">>)]
    BY <1>0, <2>1, <2>2, Typed, DroppedGrows DEF WaitOK
  <2>. QED
    BY <1>0, <2>1, <2>3 DEF WaitOK
<1>10. CASE EndOfBody(c)
  <2>1. /\ job'[c] = "done"
        /\ caller'[c] = caller[c]
        /\ queue'[c] = queue[c] \o <<"end">>
        /\ cut'[c] = cut[c]
    BY <1>10, Typed
    DEF EndOfBody, Finish, Enqueue, TypeOK, TaskTypes, ThreadTypes, QueueTypes, netVars, jobVars, streamVars
  <2>2. <<"end">> \in Seq(Item \ {"response"})
    BY DEF Item
  <2>3. caller[c] = "draining" =>
           /\ \A i \in 1 .. Len(queue'[c]) : queue'[c][i] # "response"
           /\ Len(queue'[c]) >= 1
           /\ queue'[c][Len(queue'[c])] = <<"end">>[Len(<<"end">>)]
    BY <1>0, <2>1, <2>2, Typed, DroppedGrows DEF WaitOK
  <2>. QED
    BY <1>0, <2>1, <2>3 DEF WaitOK
<1>11. CASE Break(c)
  <2>1. /\ job'[c] = "done"
        /\ caller'[c] = caller[c]
        /\ queue'[c] = queue[c] \o <<"error", "end">>
        /\ cut'[c] = cut[c]
    BY <1>11, Typed
    DEF Break, Finish, Enqueue, TypeOK, TaskTypes, ThreadTypes, QueueTypes, netVars, jobVars, streamVars
  <2>2. <<"error", "end">> \in Seq(Item \ {"response"})
    BY DEF Item
  <2>3. caller[c] = "draining" =>
           /\ \A i \in 1 .. Len(queue'[c]) : queue'[c][i] # "response"
           /\ Len(queue'[c]) >= 1
           /\ queue'[c][Len(queue'[c])] = <<"error", "end">>[Len(<<"error", "end">>)]
    BY <1>0, <2>1, <2>2, Typed, DroppedGrows DEF WaitOK
  <2>. QED
    BY <1>0, <2>1, <2>3 DEF WaitOK
<1>12. CASE Result(c) \/ Timeout(c)
  BY <1>12, Typed DEF Result, Timeout, StreamOK
<1>13. CASE TakeResponse(c)
  <2>1. /\ caller[c] = "waiting"
        /\ queue[c] # <<>> /\ Head(queue[c]) = "response"
        /\ caller'[c] = "reading" \/ (caller'[c] = "draining" /\ cut'[c] = "asked")
        /\ job'[c] = job[c]
        /\ queue'[c] = Tail(queue[c])
    BY <1>13, Typed
    DEF TakeResponse, Take, Close, Ends, TypeOK, TaskTypes, ThreadTypes, QueueTypes, netVars, jobVars, streamVars
  <2>2. job[c] \in {"streaming", "done"}
    BY <2>1, Typed DEF StreamOK, TypeOK, TaskTypes
  <2>3. Head(<<"error", "end">>) = "error"
    OBVIOUS
  <2>4. queue[c] # <<"error", "end">>
    BY <2>1, <2>3
  <2>5. Shape(queue[c], 1, put[c], LastOf(c))
    BY <2>1, <2>2, <2>4, Typed DEF StreamOK
  <2>6. Shape(Tail(queue[c]), 0, put[c], LastOf(c)) /\ Tail(queue[c]) \in Seq(Item)
    BY <2>1, <2>5, Typed, ShapeTail
  <2>7. job[c] = "done" => LastOf(c) # 0
    BY DEF LastOf
  <2>. QED
    BY <2>1, <2>2, <2>6, <2>7, Typed, ShapeDropped DEF WaitOK
<1>14. CASE TakeChunk(c)
  <2>1. /\ caller[c] = "reading"
        /\ job'[c] = job[c]
        /\ caller'[c] = caller[c]
        /\ queue'[c] = Tail(queue[c])
        /\ cut'[c] = cut[c]
    BY <1>14, Typed
    DEF TakeChunk, Take, TypeOK, TaskTypes, ThreadTypes, QueueTypes, netVars, jobVars, streamVars
  <2>. QED
    BY <1>0, <2>1 DEF WaitOK
<1>15. CASE TakeEnd(c)
  <2>1. /\ caller[c] = "reading"
        /\ job'[c] = job[c]
        /\ caller'[c] = "answered"
        /\ queue'[c] = Tail(queue[c])
        /\ cut'[c] = cut[c]
    BY <1>15, Typed
    DEF TakeEnd, Take, Ends, TypeOK, TaskTypes, ThreadTypes, QueueTypes, netVars, jobVars, streamVars
  <2>. QED
    BY <1>0, <2>1 DEF WaitOK
<1>16. CASE TakeError(c)
  <2>1. /\ caller[c] \in {"waiting", "reading"}
        /\ job'[c] = job[c]
        /\ caller'[c] = "raised"
        /\ queue'[c] = Tail(queue[c])
        /\ cut'[c] = cut[c]
    BY <1>16, Typed
    DEF TakeError, Take, Ends, TypeOK, TaskTypes, ThreadTypes, QueueTypes, netVars, jobVars, streamVars
  <2>. QED
    BY <1>0, <2>1 DEF WaitOK
<1>17. CASE Drain(c)
  <2>1. /\ caller[c] = "draining"
        /\ queue[c] # <<>>
        /\ caller'[c] = "refused" \/ (caller'[c] = "draining" /\ Head(queue[c]) = "chunk")
        /\ job'[c] = job[c]
        /\ queue'[c] = Tail(queue[c])
        /\ cut'[c] = cut[c]
    BY <1>17, Typed
    DEF Drain, Take, Ends, TypeOK, TaskTypes, ThreadTypes, QueueTypes, netVars, jobVars, streamVars
  <2>2. /\ Len(queue[c]) >= 1 /\ Head(queue[c]) = queue[c][1]
        /\ Len(Tail(queue[c])) = Len(queue[c]) - 1
        /\ \A i \in 1 .. Len(queue[c]) - 1 : Tail(queue[c])[i] = queue[c][i + 1]
    BY <2>1, Typed
  <2>3. \A i \in 1 .. Len(Tail(queue[c])) : Tail(queue[c])[i] # "response"
    BY <1>0, <2>1, <2>2, Typed DEF WaitOK
  <2>4. ASSUME job[c] = "done", Head(queue[c]) = "chunk"
        PROVE  /\ Len(Tail(queue[c])) >= 1
               /\ Tail(queue[c])[Len(Tail(queue[c]))] = "end"
    <3>1. queue[c][Len(queue[c])] = "end" /\ Len(queue[c]) \in Nat
      BY <1>0, <2>1, <2>4, Typed DEF WaitOK
    <3>2. Len(queue[c]) # 1
      BY <2>2, <2>4, <3>1
    <3>3. Len(queue[c]) - 1 \in 1 .. Len(queue[c]) - 1
      <4>1. Len(queue[c]) \in Nat /\ Len(queue[c]) >= 1 /\ Len(queue[c]) # 1
        BY <2>2, <3>1, <3>2
      <4>2. \A n \in Nat : n >= 1 /\ n # 1 => n - 1 \in 1 .. (n - 1)
        OBVIOUS
      <4>. QED
        BY <4>1, <4>2
    <3>4. Tail(queue[c])[Len(queue[c]) - 1] = queue[c][Len(queue[c]) - 1 + 1]
      BY <2>2, <3>3
    <3>. QED
      BY <2>2, <3>1, <3>3, <3>4
  <2>. QED
    BY <1>0, <2>1, <2>3, <2>4 DEF WaitOK
<1>18. CASE Leave(c)
  <2>1. /\ caller[c] = "reading"
        /\ job'[c] = job[c]
        /\ caller'[c] = "draining"
        /\ queue'[c] = queue[c]
        /\ cut'[c] = "asked"
    BY <1>18, Typed
    DEF Leave, Close, Ends, TypeOK, TaskTypes, ThreadTypes, QueueTypes, netVars, jobVars, streamVars
  <2>2. Shape(queue[c], 0, put[c] - got[c], LastOf(c))
    BY <2>1, Typed DEF StreamOK
  <2>3. job[c] = "done" => LastOf(c) # 0
    BY DEF LastOf
  <2>. QED
    BY <1>0, <2>1, <2>2, <2>3, Typed, ShapeDropped DEF WaitOK
<1>19. CASE GetClientRaises(c)
  <2>1. job[c] = "ready" /\ caller'[c] = caller[c] /\ job'[c] = "done"
    BY <1>19, Typed DEF GetClientRaises, Finish, TypeOK, TaskTypes
  <2>. QED
    BY <1>0, <2>1, Typed DEF WaitOK, StreamOK
<1>20. CASE Fault(c)
  BY <1>20, Typed DEF Fault
<1>. QED
  BY <1>1, <1>2, <1>3, <1>4, <1>5, <1>6, <1>7, <1>8, <1>9, <1>10, <1>11, <1>12,
     <1>13, <1>14, <1>15, <1>16, <1>17, <1>18,
   <1>19, <1>20
  DEF Loop, Upstream, Thread

\* The head of the queue can be read where the thread is.
LEMMA HeadIsReadable ==
  ASSUME TypeOK, StreamsOK, WaitsOK, NEW c \in Streams, queue[c] # <<>>,
         caller[c] \in {"waiting", "reading", "draining"}
  PROVE  Head(queue[c]) \in Readable(c)
<1>1. queue[c] \in Seq(Item) /\ Len(queue[c]) >= 1 /\ Head(queue[c]) = queue[c][1]
  BY Typed
<1>2. queue[c][1] \in Item
  BY <1>1
<1>3. CASE caller[c] = "waiting"
  <2>1. job[c] \in {"streaming", "done"}
    BY <1>3, Typed DEF StreamOK, TypeOK, TaskTypes
  <2>2. CASE queue[c] = <<"error", "end">>
    BY <1>1, <1>3, <2>2 DEF Readable
  <2>3. CASE queue[c] # <<"error", "end">>
    <3>1. Shape(queue[c], 1, put[c], LastOf(c))
      BY <1>3, <2>1, <2>3, Typed DEF StreamOK
    <3>2. queue[c][1] = "response"
      BY <3>1 DEF Shape
    <3>. QED
      BY <1>1, <1>3, <3>2 DEF Readable
  <2>. QED
    BY <2>2, <2>3
<1>4. CASE caller[c] = "reading"
  <2>1. Shape(queue[c], 0, put[c] - got[c], LastOf(c))
    BY <1>4, Typed DEF StreamOK
  <2>2. queue[c][1] # "response"
    BY <1>1, <2>1, Typed, ShapeDropped
  <2>. QED
    BY <1>1, <1>2, <1>4, <2>2 DEF Readable, Item
<1>5. CASE caller[c] = "draining"
  <2>1. queue[c][1] # "response"
    BY <1>1, <1>5 DEF WaitsOK, WaitOK
  <2>. QED
    BY <1>1, <1>2, <1>5, <2>1 DEF Readable, Item
<1>. QED
  BY <1>3, <1>4, <1>5

\* An empty queue has a task that will put something in.
LEMMA EmptyIsFilled ==
  ASSUME TypeOK, StreamsOK, WaitsOK, NEW c \in Streams, queue[c] = <<>>,
         caller[c] \in {"waiting", "reading", "draining"}
  PROVE  job[c] \in {"ready", "sent", "streaming"}
<1>1. WaitOK(c) /\ Len(queue[c]) = 0
  BY DEF WaitsOK
<1>2. job[c] \in {"ready", "sent", "streaming", "done"}
  BY <1>1, Typed DEF WaitOK, StreamOK, TypeOK, TaskTypes
<1>3. CASE caller[c] = "waiting" /\ job[c] = "done"
  <2>1. Len(<<"error", "end">>) = 2
    OBVIOUS
  <2>2. Shape(queue[c], 1, put[c], LastOf(c))
    BY <1>1, <1>3, <2>1, Typed DEF StreamOK
  <2>. QED
    BY <1>1, <2>2, Typed DEF Shape
<1>4. CASE caller[c] = "reading" /\ job[c] = "done"
  <2>1. Shape(queue[c], 0, put[c] - got[c], LastOf(c)) /\ LastOf(c) # 0
    BY <1>4, Typed DEF StreamOK, LastOf
  <2>. QED
    BY <1>1, <2>1, Typed DEF Shape
<1>5. CASE caller[c] = "draining" /\ job[c] = "done"
  BY <1>1, <1>5 DEF WaitOK
<1>. QED
  BY <1>2, <1>3, <1>4, <1>5

\* No thread of a stream waits for what nobody will send, for any number of
\* calls and chunks.
THEOREM NoVainWait == Spec => []NobodyWaitsInVain
<1>1. Init => WaitsOK
  BY DEF Init, WaitsOK, WaitOK, Calls
<1>2. ASSUME TypeOK, StreamsOK, WaitsOK, [Next]_vars
      PROVE  WaitsOK'
  <2>. SUFFICES ASSUME NEW d \in Streams
                PROVE  WaitOK(d)'
    BY DEF WaitsOK
  <2>0. WaitOK(d)
    BY <1>2 DEF WaitsOK
  <2>1. CASE UNCHANGED vars
    BY <2>0, <2>1 DEF WaitOK, vars, jobVars, streamVars
  <2>2. ASSUME NEW c \in Calls, Submit(c) \/ Loop(c) \/ Upstream(c) \/ Thread(c) \/ Leave(c)
        PROVE  WaitOK(d)'
    <3>1. CASE d = c
      BY <1>2, <2>2, <3>1, WaitNext
    <3>2. CASE d # c
      <4>1. SameStream(d)
        BY <1>2, <2>2, <3>2, OthersKeep DEF Calls
      <4>. QED
        BY <2>0, <4>1 DEF WaitOK, SameStream
    <3>. QED
      BY <3>1, <3>2
  <2>3. CASE Quiet
    BY <2>1, <2>3 DEF Quiet
  <2>. QED
    BY <1>2, <2>1, <2>2, <2>3 DEF Next
<1>3. TypeOK /\ StreamsOK /\ WaitsOK => NobodyWaitsInVain
  <2>1. TypeOK /\ StreamsOK /\ WaitsOK =>
           \A c \in Streams : caller[c] = "draining" /\ job[c] = "streaming" => cut[c] # "no"
    BY DEF WaitsOK, WaitOK
  <2>. QED
    BY <2>1, HeadIsReadable, EmptyIsFilled DEF NobodyWaitsInVain
<1>. QED
  BY <1>1, <1>2, <1>3, TypeCorrect, StreamsHold, PTL DEF Spec

-----------------------------------------------------------------------------
(* The end of the tasks.                                                   *)

SameTask(c) ==
    job'[c] = job[c] /\ left'[c] = left[c] /\ dropped'[c] = dropped[c]

LEMMA RemainingIsNat ==
  ASSUME TypeOK, NEW c \in Calls
  PROVE  Remaining(c) \in Nat
BY NetworkAssumption DEF TypeOK, TaskTypes, Remaining

\* An attempt that ends takes a retry, or the whole of what remains.
LEMMA AttemptAdvances ==
  ASSUME TypeOK, NEW c \in Fetches, job[c] = "sent", AttemptEnds(c), UNCHANGED dropped
  PROVE  Remaining(c)' < Remaining(c)
<1>1. c \in Calls /\ left[c] \in Nat /\ dropped'[c] = dropped[c]
  BY NetworkAssumption DEF Calls, TypeOK, TaskTypes
<1>2. \/ left[c] >= 1 /\ left'[c] = left[c] - 1 /\ job'[c] = "ready"
      \/ left'[c] = left[c] /\ job'[c] = "done"
  BY <1>1 DEF AttemptEnds, TypeOK, TaskTypes
<1>. QED
  BY <1>1, <1>2 DEF Remaining

\* A step of a call is one of its task's, which advances, or leaves all tasks
\* alone.
LEMMA TaskStep ==
  ASSUME TypeOK, NEW c \in Calls, NEW d \in Fetches,
         Submit(c) \/ Loop(c) \/ Upstream(c) \/ Thread(c) \/ Leave(c),
         caller[d] = "idle" => job[d] = "none"
  PROVE  SameTask(d) \/ Remaining(d)' < Remaining(d)
<1>0. d \in Calls /\ d \notin Streams /\ left[d] \in Nat
  BY NetworkAssumption DEF Calls, TypeOK, TaskTypes
<1>1. CASE Submit(c)
  <2>1. d # c => SameTask(d)
    BY <1>0, <1>1
    DEF SameTask, Submit, TypeOK, TaskTypes, netVars, jobVars, streamVars
  <2>2. d = c => /\ job[c] = "none"
                 /\ job'[c] = "ready"
                 /\ left'[c] = left[c] /\ dropped'[c] = dropped[c]
    BY <1>0, <1>1 DEF Submit, TypeOK, TaskTypes, netVars, jobVars, streamVars
  <2>. QED
    BY <1>0, <2>1, <2>2 DEF Remaining
<1>2. CASE GetClient(c)
  <2>1. d # c => SameTask(d)
    BY <1>0, <1>2
    DEF SameTask, GetClient, TypeOK, TaskTypes, netVars, jobVars, streamVars
  <2>2. d = c => /\ job[c] = "ready"
                 /\ job'[c] = "sent"
                 /\ left'[c] = left[c] /\ dropped'[c] = dropped[c]
    BY <1>0, <1>2
    DEF GetClient, TypeOK, TaskTypes, netVars, jobVars, streamVars
  <2>. QED
    BY <1>0, <2>1, <2>2 DEF Remaining
<1>3. CASE Closed(c)
  <2>1. d # c => SameTask(d)
    BY <1>0, <1>3
    DEF SameTask, Closed, TypeOK, TaskTypes, netVars, jobVars, streamVars
  <2>2. d = c => /\ job[c] = "closing"
                 /\ job'[c] = "ready"
                 /\ left'[c] = left[c] /\ dropped'[c] = dropped[c]
    BY <1>0, <1>3 DEF Closed, TypeOK, TaskTypes, netVars, jobVars, streamVars
  <2>. QED
    BY <1>0, <2>1, <2>2 DEF Remaining
<1>4. CASE Aclose(c)
  BY <1>4 DEF SameTask, Aclose, TypeOK, TaskTypes, netVars, jobVars, streamVars
<1>5. CASE ReadClosed(c)
  <2>1. d # c => SameTask(d)
    BY <1>0, <1>5
    DEF SameTask, ReadClosed, Finish, Enqueue, TypeOK, TaskTypes, netVars,
        jobVars, streamVars
  <2>2. d = c => /\ job[c] = "streaming"
                 /\ job'[c] = "done"
                 /\ left'[c] = left[c] /\ dropped'[c] = dropped[c]
    BY <1>0, <1>5
    DEF ReadClosed, Finish, Enqueue, TypeOK, TaskTypes, netVars, jobVars,
        streamVars
  <2>. QED
    BY <1>0, <2>1, <2>2 DEF Remaining
<1>6. ASSUME NEW answer \in Answers, Answer(c, answer)
      PROVE  SameTask(d) \/ Remaining(d)' < Remaining(d)
  <2>1. CASE d # c
    <3>1. AttemptEnds(c) /\ UNCHANGED dropped
      BY <1>6, AnswerEnds DEF Answer
    <3>. QED
      BY <1>0, <2>1, <3>1 DEF SameTask, AttemptEnds, TypeOK, TaskTypes
  <2>2. CASE d = c
    BY <1>6, <2>2, AnswerEnds, AttemptAdvances DEF Answer
  <2>. QED
    BY <2>1, <2>2
<1>7. CASE Fail(c)
  <2>1. c \in Fetches /\ job[c] = "sent" /\ AttemptEnds(c) /\ UNCHANGED dropped
    BY <1>7, FailEnds DEF Fail
  <2>2. d # c => SameTask(d)
    BY <1>0, <2>1 DEF SameTask, AttemptEnds, TypeOK, TaskTypes
  <2>. QED
    BY <2>1, <2>2, AttemptAdvances
<1>8. CASE Disconnect(c)
  <2>1. CASE dropped[c]
    <3>1. c \in Fetches /\ job[c] = "sent" /\ AttemptEnds(c) /\ UNCHANGED dropped
      BY <1>8, <2>1, FailEnds DEF Disconnect
    <3>2. d # c => SameTask(d)
      BY <1>0, <3>1 DEF SameTask, AttemptEnds, TypeOK, TaskTypes
    <3>. QED
      BY <3>1, <3>2, AttemptAdvances
  <2>2. CASE ~dropped[c]
    <3>1. /\ job[c] = "sent" /\ left' = left
          /\ job' = [job EXCEPT ![c] = "closing"]
          /\ dropped' = [dropped EXCEPT ![c] = TRUE]
      BY <1>8, <2>2 DEF Disconnect
    <3>2. d # c => SameTask(d)
      BY <1>0, <3>1 DEF SameTask, TypeOK, TaskTypes
    <3>3. job'[c] = "closing" /\ dropped'[c] = TRUE /\ left'[c] = left[c]
      BY <3>1 DEF TypeOK, TaskTypes
    <3>. QED
      BY <1>0, <2>2, <3>1, <3>2, <3>3 DEF Remaining
  <2>. QED
    BY <2>1, <2>2
<1>9. CASE Open(c)
  BY <1>0, <1>9
  DEF SameTask, Open, Enqueue, TypeOK, TaskTypes, netVars, jobVars, streamVars
<1>10. CASE Chunk(c)
  BY <1>10
  DEF SameTask, Chunk, Enqueue, TypeOK, TaskTypes, netVars, jobVars, streamVars
<1>11. CASE EndOfBody(c)
  <2>1. d # c => SameTask(d)
    BY <1>0, <1>11
    DEF SameTask, EndOfBody, Finish, Enqueue, TypeOK, TaskTypes, netVars,
        jobVars, streamVars
  <2>2. d = c => /\ job[c] = "streaming"
                 /\ job'[c] = "done"
                 /\ left'[c] = left[c] /\ dropped'[c] = dropped[c]
    BY <1>0, <1>11
    DEF EndOfBody, Finish, Enqueue, TypeOK, TaskTypes, netVars, jobVars,
        streamVars
  <2>. QED
    BY <1>0, <2>1, <2>2 DEF Remaining
<1>12. CASE Break(c)
  BY <1>0, <1>12
  DEF SameTask, Break, Finish, Enqueue, TypeOK, TaskTypes, netVars, jobVars,
      streamVars
<1>13. CASE Result(c)
  BY <1>13
  DEF SameTask, Result, TypeOK, TaskTypes, netVars, jobVars, streamVars
<1>14. CASE Timeout(c)
  BY <1>14
  DEF SameTask, Timeout, TypeOK, TaskTypes, netVars, jobVars, streamVars
<1>15. CASE TakeResponse(c)
  BY <1>15
  DEF SameTask, TakeResponse, TypeOK, TaskTypes, netVars, jobVars, streamVars
<1>16. CASE TakeChunk(c)
  BY <1>16
  DEF SameTask, TakeChunk, TypeOK, TaskTypes, netVars, jobVars, streamVars
<1>17. CASE TakeEnd(c)
  BY <1>17
  DEF SameTask, TakeEnd, TypeOK, TaskTypes, netVars, jobVars, streamVars
<1>18. CASE TakeError(c)
  BY <1>18
  DEF SameTask, TakeError, TypeOK, TaskTypes, netVars, jobVars, streamVars
<1>19. CASE Drain(c)
  BY <1>19 DEF SameTask, Drain, TypeOK, TaskTypes, netVars, jobVars, streamVars
<1>20. CASE Leave(c)
  BY <1>20 DEF SameTask, Leave, TypeOK, TaskTypes, netVars, jobVars, streamVars
<1>21. CASE GetClientRaises(c)
  <2>1. d # c => SameTask(d)
    BY <1>0, <1>21 DEF SameTask, GetClientRaises, Finish, TypeOK, TaskTypes
  <2>2. d = c => /\ job[c] = "ready"
                 /\ job'[c] = "done"
                 /\ left'[c] = left[c] /\ dropped'[c] = dropped[c]
    BY <1>0, <1>21 DEF GetClientRaises, Finish, TypeOK, TaskTypes
  <2>. QED
    BY <1>0, <2>1, <2>2 DEF Remaining
<1>22. CASE Fault(c)
  <2>1. c \in Fetches /\ job[c] = "sent" /\ AttemptEnds(c) /\ UNCHANGED dropped
    BY <1>22, FaultEnds DEF Fault
  <2>2. d # c => SameTask(d)
    BY <1>0, <2>1 DEF SameTask, AttemptEnds, TypeOK, TaskTypes
  <2>. QED
    BY <2>1, <2>2, AttemptAdvances
<1>. QED
  BY <1>1, <1>2, <1>3, <1>4, <1>5, <1>6, <1>7, <1>8, <1>9, <1>10, <1>11, <1>12,
     <1>13, <1>14, <1>15, <1>16, <1>17, <1>18, <1>19, <1>20,
   <1>21, <1>22
  DEF Loop, Upstream, Thread

\* The task of a fetch only ever comes nearer to its end, whatever the other
\* calls do: for any number of retries, routes and calls.
THEOREM TasksComeNearer == Spec => TasksAdvance
<1>1. ASSUME TypeOK, Budget, [Next]_vars, NEW d \in Fetches
      PROVE  SameTask(d) \/ Remaining(d)' < Remaining(d)
  <2>1. CASE UNCHANGED vars
    BY <2>1 DEF SameTask, vars, jobVars
  <2>2. ASSUME NEW c \in Calls, Submit(c) \/ Loop(c) \/ Upstream(c) \/ Thread(c) \/ Leave(c)
        PROVE  SameTask(d) \/ Remaining(d)' < Remaining(d)
    BY <1>1, <2>2, TaskStep DEF Budget, BudgetOf
  <2>3. CASE Quiet
    BY <2>1, <2>3 DEF Quiet
  <2>. QED
    BY <1>1, <2>1, <2>2, <2>3 DEF Next
<1>2. TypeOK /\ Budget /\ [Next]_vars =>
        [\A c \in Fetches :
            <<job'[c], left'[c], dropped'[c]>> # <<job[c], left[c], dropped[c]>>
                => Remaining(c)' < Remaining(c)]_vars
  BY <1>1 DEF SameTask
<1>. QED
  BY <1>2, TypeCorrect, BudgetHolds, PTL DEF Spec, TasksAdvance

=============================================================================
