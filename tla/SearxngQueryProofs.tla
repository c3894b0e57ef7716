-------------------------- MODULE SearxngQueryProofs --------------------------
(* What SearxngQuery promises for any number of request threads, any set   *)
(* of requests, any TTL, cache limit and number of retries, and a clock    *)
(* that runs as long as it likes.                                          *)
EXTENDS SearxngQuery, FiniteSetTheorems, TLAPS

USE DEF Steps

-----------------------------------------------------------------------------
(* The responses.                                                          *)

LEMMA InstancesAreSources ==
    /\ Len(Instances) \in Nat \ {0}
    /\ DOMAIN Instances = 1..Len(Instances)
    /\ \A i \in 1..Len(Instances) : Instances[i] \in {"local", "external"}
<1>1. CASE Instances = <<"local">>
  BY <1>1
<1>2. CASE Instances = <<"local", "external">>
  BY <1>2
<1> QED
  BY <1>1, <1>2, QueryAssumption

\* Every response has the type of one and answers its request.
LEMMA ResponsesAnswer ==
    ASSUME NEW r \in Requests
    PROVE  /\ \A s \in {"local", "external"}, full \in BOOLEAN :
                 SearxngData(s, r, full) \in Data /\ Answers(SearxngData(s, r, full), r)
           /\ BraveData(r) \in Data /\ Answers(BraveData(r), r)
           /\ BingData(r) \in Data /\ Answers(BingData(r), r)
<1>1. KindOf(r) \in Kinds
  BY QueryAssumption DEF KindOf, Kinds, Callers
<1> QED
  BY <1>1 DEF SearxngData, BraveData, BingData, Data, Answers, Sources, Kinds

-----------------------------------------------------------------------------
(* The inductive invariant.                                                *)

(* What the state of one thread tells about its request: the entry it read, *)
(* the response it keeps and the answer it gives are all for the request    *)
(* it serves, and an entry that was served was fresh on arrival.           *)
Serving(t) ==
    /\ pc[t] # "idle" => req[t] \in Requests
    /\ seen[t] # None => seen[t].data.full /\ Answers(seen[t].data, req[t])
    /\ pc[t] \in {"age", "pop"} => seen[t] # None
    /\ pc[t] \in {"answer", "done"} /\ seen[t] # None => seen[t].ts + CacheTtl > since[t]
    /\ pc[t] \notin {"age", "pop", "answer", "done"} => seen[t] = None
    /\ pc[t] \notin {"store", "direct", "answer"} => instance[t] <= Len(Instances)
    /\ last[t] # None => Answers(last[t], req[t])
    /\ reply[t] # None => Answers(reply[t], req[t])
    /\ pc[t] = "store" => reply[t] # None /\ reply[t].full
    /\ pc[t] \in {"idle", "done"} => last[t] = None
    /\ pc[t] = "idle" => reply[t] = None
    /\ since[t] <= now

CacheAnswers ==
    \A k \in DOMAIN cache : cache[k].data.full /\ Answers(cache[k].data, k)

Inv == TypeOK /\ CacheAnswers /\ \A t \in Threads : Serving(t)

LEMMA InvInit == Init => Inv
  BY QueryAssumption, NoneAssumption, InstancesAreSources
     DEF Init, NotTried, Inv, TypeOK, CacheAnswers, Serving

-----------------------------------------------------------------------------
(* A thread disturbs no other one: the state of the others stays, and with *)
(* it what it tells about their requests.                                  *)

Untouched(u) ==
    /\ pc'[u] = pc[u] /\ req'[u] = req[u] /\ seen'[u] = seen[u]
    /\ instance'[u] = instance[u] /\ attempt'[u] = attempt[u] /\ last'[u] = last[u]
    /\ reply'[u] = reply[u] /\ since'[u] = since[u] /\ tried'[u] = tried[u]

LEMMA OthersServe ==
    ASSUME Inv, NEW u \in Threads, Untouched(u), now' \in Nat, now' >= now
    PROVE  Serving(u)'
<1>1. since[u] \in Nat /\ now \in Nat
  BY QueryAssumption DEF Inv, TypeOK
<1> QED
  BY <1>1 DEF Inv, Serving, Untouched, Answers

\* The same for the step of one thread, which leaves the clock alone.
LEMMA StepFrame ==
    ASSUME Inv, NEW t \in Threads, TypeOK', CacheAnswers', Serving(t)', UNCHANGED now,
           \A u \in Threads \ {t} : Untouched(u)
    PROVE  Inv'
<1>1. now \in Nat
  BY QueryAssumption DEF Inv, TypeOK
<1>2. \A u \in Threads \ {t} : Serving(u)'
  BY <1>1, OthersServe
<1> QED
  BY <1>2 DEF Inv

-----------------------------------------------------------------------------
(* One lemma for every step of a thread.  Only its own state and, in Pop   *)
(* and Store, the cache change.                                            *)

LEMMA RequestStep ==
    ASSUME Inv, NEW t \in Threads, NEW r \in Requests, Request(t, r) PROVE Inv'
<1> USE DEF Inv, TypeOK, Goto
<1>1. TypeOK'
  BY QueryAssumption DEF Request
<1>2. CacheAnswers'
  BY QueryAssumption DEF Request, CacheAnswers
<1>3. Serving(t)'
  <2>1. now \in Nat /\ Serving(t)
    BY QueryAssumption
  <2>2. /\ pc'[t] = "ensure" /\ req'[t] = r /\ since'[t] = now
        /\ UNCHANGED <<now, seen, instance, last, reply>>
    BY DEF Request
  <2>3. pc[t] = "idle"
    BY DEF Request
  <2> HIDE DEF Inv, TypeOK, Goto
  <2> QED
    BY <2>1, <2>2, <2>3 DEF Serving
<1>4. \A u \in Threads \ {t} : Untouched(u)
  BY DEF Request, Untouched
<1> QED
  BY <1>1, <1>2, <1>3, <1>4, StepFrame DEF Request

LEMMA EnsureStep ==
    ASSUME Inv, NEW t \in Threads, Ensure(t) PROVE Inv'
<1> USE DEF Inv, TypeOK, Goto
<1>1. TypeOK'
  BY QueryAssumption DEF Ensure
<1>2. CacheAnswers'
  BY QueryAssumption DEF Ensure, CacheAnswers
<1>3. Serving(t)'
  BY QueryAssumption DEF Ensure, Serving
<1>4. \A u \in Threads \ {t} : Untouched(u)
  BY DEF Ensure, Untouched
<1> QED
  BY <1>1, <1>2, <1>3, <1>4, StepFrame DEF Ensure

LEMMA BootPollStep ==
    ASSUME Inv, NEW t \in Threads, BootPoll(t) PROVE Inv'
<1> USE DEF Inv, TypeOK, Goto
<1>1. TypeOK'
  <2>1. polls' \in [Threads -> 0..(BootPolls - 1)]
    <3>1. polls[t] \in 0..(BootPolls - 1) /\ BootPolls \in Nat \ {0}
      BY QueryAssumption
    <3>2. CASE polls' = [polls EXCEPT ![t] = 0]
      BY <3>1, <3>2
    <3>3. CASE polls[t] + 1 < BootPolls /\ polls' = [polls EXCEPT ![t] = polls[t] + 1]
      BY <3>1, <3>3
    <3> QED
      BY <3>2, <3>3 DEF BootPoll
  <2>2. pc' \in [Threads -> Steps]
    BY DEF BootPoll
  <2> QED
    BY <2>1, <2>2 DEF BootPoll
<1>2. CacheAnswers'
  BY QueryAssumption DEF BootPoll, CacheAnswers
<1>3. Serving(t)'
  BY QueryAssumption DEF BootPoll, Serving
<1>4. \A u \in Threads \ {t} : Untouched(u)
  BY DEF BootPoll, Untouched
<1> QED
  BY <1>1, <1>2, <1>3, <1>4, StepFrame DEF BootPoll

LEMMA LookupStep ==
    ASSUME Inv, NEW t \in Threads, Lookup(t) PROVE Inv'
<1> USE DEF Inv, TypeOK, Goto, CacheAnswers
<1>1. TypeOK'
  <2>1. seen' \in [Threads -> Entry \cup {None}]
    <3>1. req[t] \in DOMAIN cache => cache[req[t]] \in Entry
      OBVIOUS
    <3> QED
      BY <3>1 DEF Lookup
  <2>2. pc' \in [Threads -> Steps]
    BY DEF Lookup
  <2> QED
    BY <2>1, <2>2 DEF Lookup
<1>2. CacheAnswers'
  BY QueryAssumption, NoneAssumption DEF Lookup, CacheAnswers
<1>3. Serving(t)'
  <2>1. CASE req[t] \in DOMAIN cache
    <3>1. /\ cache[req[t]].data.full
          /\ Answers(cache[req[t]].data, req[t])
          /\ cache[req[t]] # None
      BY <2>1, NoneAssumption
    <3>2. /\ pc'[t] = "age" /\ seen'[t] = cache[req[t]]
          /\ UNCHANGED <<req, last, reply, since, now>>
      BY <2>1 DEF Lookup
    <3> QED
      BY <3>1, <3>2 DEF Lookup, Serving
  <2>2. CASE req[t] \notin DOMAIN cache
    BY <2>2 DEF Lookup, Serving
  <2> QED
    BY <2>1, <2>2
<1>4. \A u \in Threads \ {t} : Untouched(u)
  BY DEF Lookup, Untouched
<1> QED
  BY <1>1, <1>2, <1>3, <1>4, StepFrame DEF Lookup

LEMMA AgeStep ==
    ASSUME Inv, NEW t \in Threads, Age(t) PROVE Inv'
<1> USE DEF Inv, TypeOK, Goto, Entry, Serving
<1>1. TypeOK'
  BY QueryAssumption, NoneAssumption DEF Age, Answered
<1>2. CacheAnswers'
  BY QueryAssumption, NoneAssumption DEF Age, Answered, CacheAnswers
<1>3. Serving(t)'
  BY QueryAssumption, NoneAssumption DEF Age, Answered, Serving
<1>4. \A u \in Threads \ {t} : Untouched(u)
  BY DEF Age, Answered, Untouched
<1> QED
  BY <1>1, <1>2, <1>3, <1>4, StepFrame DEF Age, Answered

LEMMA PopStep ==
    ASSUME Inv, NEW t \in Threads, Pop(t) PROVE Inv'
<1> USE DEF Inv, TypeOK, Goto
<1>1. TypeOK'
  BY QueryAssumption, NoneAssumption DEF Pop, Restrict
<1>2. CacheAnswers'
  BY QueryAssumption, NoneAssumption DEF Pop, Restrict, CacheAnswers
<1>3. Serving(t)'
  <2>1. /\ pc'[t] = "fetch" /\ seen'[t] = None
        /\ UNCHANGED <<req, instance, last, reply, since, now>>
    BY DEF Pop
  <2>2. instance[t] <= Len(Instances)
    BY DEF Pop, Serving
  <2> QED
    BY <2>1, <2>2 DEF Pop, Serving
<1>4. \A u \in Threads \ {t} : Untouched(u)
  BY DEF Pop, Restrict, Untouched
<1> QED
  BY <1>1, <1>2, <1>3, <1>4, StepFrame DEF Pop, Restrict

\* A thread that fetches is at an instance.
LEMMA FetchingInstance ==
    ASSUME Inv, NEW t \in Threads, pc[t] = "fetch"
    PROVE  instance[t] \in 1..Len(Instances)
<1>1. Serving(t) /\ instance[t] \in 1..(Len(Instances) + 1)
  BY DEF Inv, TypeOK
<1>2. instance[t] <= Len(Instances)
  BY <1>1 DEF Serving
<1> QED
  BY <1>1, <1>2, InstancesAreSources

\* The two loops: an index of an instance, or the end.
LEMMA AttemptTypes ==
    ASSUME Inv, NEW t \in Threads, pc[t] = "fetch", NextAttempt(t)
    PROVE  /\ instance' \in [Threads -> 1..(Len(Instances) + 1)]
           /\ attempt' \in [Threads -> 0..(MaxRetries - 1)]
           /\ pc' \in [Threads -> Steps]
           /\ pc'[t] \in {"fetch", "direct"}
           /\ pc'[t] = "fetch" => instance'[t] <= Len(Instances)
           /\ \A u \in Threads \ {t} :
                 pc'[u] = pc[u] /\ instance'[u] = instance[u] /\ attempt'[u] = attempt[u]
<1> USE DEF Inv, TypeOK, Goto
<1>1. /\ MaxRetries \in Nat \ {0} /\ Len(Instances) \in Nat \ {0}
      /\ attempt[t] \in 0..(MaxRetries - 1)
      /\ instance[t] \in 1..Len(Instances)
  BY QueryAssumption, InstancesAreSources, FetchingInstance
<1>2. CASE attempt[t] + 1 < MaxRetries
  <2>1. /\ attempt' = [attempt EXCEPT ![t] = attempt[t] + 1]
        /\ pc' = [pc EXCEPT ![t] = "fetch"] /\ instance' = instance
    BY <1>2 DEF NextAttempt
  <2>2. attempt[t] + 1 \in 0..(MaxRetries - 1)
    BY <1>1, <1>2
  <2> QED
    BY <1>1, <2>1, <2>2
<1>3. CASE ~(attempt[t] + 1 < MaxRetries)
  <2> DEFINE step == IF instance[t] = Len(Instances) THEN "direct" ELSE "fetch"
  <2>1. /\ attempt' = [attempt EXCEPT ![t] = 0]
        /\ instance' = [instance EXCEPT ![t] = instance[t] + 1]
        /\ pc' = [pc EXCEPT ![t] = step]
    BY <1>3 DEF NextAttempt
  <2>2. /\ 0 \in 0..(MaxRetries - 1)
        /\ instance[t] + 1 \in 1..(Len(Instances) + 1)
        /\ step \in {"fetch", "direct"}
        /\ step = "fetch" => instance[t] + 1 <= Len(Instances)
    BY <1>1
  <2> HIDE DEF step
  <2> QED
    BY <2>1, <2>2
<1> QED
  BY <1>2, <1>3

\* One request more is counted, and no other one.
LEMMA AskingCounts ==
    ASSUME Inv, NEW t \in Threads, pc[t] = "fetch", Asking(t)
    PROVE  /\ tried' \in [Threads -> [DOMAIN Instances -> Nat]]
           /\ \A u \in Threads \ {t} : tried'[u] = tried[u]
           /\ tried'[t][instance[t]] = tried[t][instance[t]] + 1
           /\ \A i \in DOMAIN Instances \ {instance[t]} : tried'[t][i] = tried[t][i]
<1> DEFINE asked == [tried[t] EXCEPT ![instance[t]] = tried[t][instance[t]] + 1]
<1>2. tried \in [Threads -> [DOMAIN Instances -> Nat]]
  BY DEF Inv, TypeOK
<1>1. tried' = [tried EXCEPT ![t] = asked]
  BY <1>2 DEF Asking
<1>3. instance[t] \in DOMAIN Instances
  BY FetchingInstance, InstancesAreSources
<1>4. tried[t] \in [DOMAIN Instances -> Nat]
  BY <1>2
<1>5. /\ asked \in [DOMAIN Instances -> Nat]
      /\ asked[instance[t]] = tried[t][instance[t]] + 1
      /\ \A i \in DOMAIN Instances \ {instance[t]} : asked[i] = tried[t][i]
  BY <1>3, <1>4
<1> HIDE DEF asked
<1>6. tried'[t] = asked /\ \A u \in Threads \ {t} : tried'[u] = tried[u]
  BY <1>1, <1>2
<1>7. tried' \in [Threads -> [DOMAIN Instances -> Nat]]
  BY <1>1, <1>2, <1>5
<1> QED
  BY <1>5, <1>6, <1>7

LEMMA FetchStep ==
    ASSUME Inv, NEW t \in Threads, Fetch(t) PROVE Inv'
<1>1. /\ pc[t] = "fetch" /\ seen[t] = None /\ req[t] \in Requests
      /\ t \in DOMAIN pc /\ t \in DOMAIN last /\ t \in DOMAIN reply
      /\ UNCHANGED <<now, cache, localUp, req, polls, seen, since>>
  BY DEF Fetch, Serving, Inv, TypeOK
<1>8. /\ tried' \in [Threads -> [DOMAIN Instances -> Nat]]
      /\ \A u \in Threads \ {t} : tried'[u] = tried[u]
  BY <1>1, AskingCounts DEF Fetch
<1>2. \A full \in BOOLEAN :
          Response(t, full) \in Data /\ Answers(Response(t, full), req[t])
  <2>1. instance[t] \in 1..Len(Instances)
    BY <1>1, FetchingInstance
  <2> QED
    BY <1>1, <2>1, InstancesAreSources, ResponsesAnswer DEF Response
<1>3. CacheAnswers'
  BY <1>1 DEF Inv, CacheAnswers
<1>4. CASE FetchResults(t)
  <2>1. Response(t, TRUE).full
    BY DEF Response, SearxngData
  <2>2. TypeOK'
    BY <1>1, <1>2, <1>4, <1>8 DEF FetchResults, Goto, Inv, TypeOK
  <2>3. Serving(t)'
    BY <1>1, <1>2, <1>4, <2>1, NoneAssumption
    DEF FetchResults, Goto, Inv, TypeOK, Serving
  <2>4. \A u \in Threads \ {t} : Untouched(u)
    BY <1>1, <1>4, <1>8 DEF FetchResults, Goto, Inv, TypeOK, Untouched
  <2> QED
    BY <1>1, <1>3, <2>2, <2>3, <2>4, StepFrame
<1>5. CASE FetchEmpty(t) \/ FetchFails(t)
  <2>1. /\ NextAttempt(t) /\ UNCHANGED reply
        /\ \/ last' = [last EXCEPT ![t] = Response(t, FALSE)]
           \/ UNCHANGED last
    BY <1>5 DEF FetchEmpty, FetchFails
  <2>2. TypeOK'
    <3>1. last' \in [Threads -> Data \cup {None}]
      BY <1>2, <2>1 DEF Inv, TypeOK
    <3>2. /\ instance' \in [Threads -> 1..(Len(Instances) + 1)]
          /\ attempt' \in [Threads -> 0..(MaxRetries - 1)]
          /\ pc' \in [Threads -> Steps]
      BY <1>1, <2>1, AttemptTypes
    <3> QED
      BY <1>1, <1>8, <2>1, <3>1, <3>2 DEF Inv, TypeOK
  <2>3. Serving(t)'
    <3>1. last'[t] # None => Answers(last'[t], req[t])
      BY <1>1, <1>2, <2>1 DEF Inv, Serving
    <3>2. pc'[t] \in {"fetch", "direct"} /\ (pc'[t] = "fetch" => instance'[t] <= Len(Instances))
      BY <1>1, <2>1, AttemptTypes
    <3> QED
      BY <1>1, <2>1, <3>1, <3>2 DEF Inv, Serving
  <2>4. \A u \in Threads \ {t} : Untouched(u)
    BY <1>1, <1>8, <2>1, AttemptTypes DEF Inv, TypeOK, Untouched
  <2> QED
    BY <1>1, <1>3, <2>2, <2>3, <2>4, StepFrame
<1> QED
  BY <1>4, <1>5 DEF Fetch

LEMMA DirectStep ==
    ASSUME Inv, NEW t \in Threads, Direct(t) PROVE Inv'
<1> USE DEF Inv, TypeOK, Goto
<1>1. /\ pc[t] = "direct" /\ seen[t] = None /\ req[t] \in Requests
      /\ last[t] # None => Answers(last[t], req[t])
      /\ UNCHANGED <<now, cache, localUp, req, polls, seen, instance, attempt, tried, last, since>>
  BY DEF Direct, Serving
<1>2. BraveData(req[t]) \in Data /\ Answers(BraveData(req[t]), req[t]) /\ BraveData(req[t]).full
  BY <1>1, ResponsesAnswer DEF BraveData
<1>3. PICK data \in Data \cup {None}, step \in {"store", "answer"} :
         /\ reply' = [reply EXCEPT ![t] = data]
         /\ pc' = [pc EXCEPT ![t] = step]
         /\ data # None => Answers(data, req[t])
         /\ step = "store" => data # None /\ data.full
  <2>1. CASE reply' = [reply EXCEPT ![t] = BraveData(req[t])] /\ Goto(t, "store")
    BY <1>2, <2>1, NoneAssumption
  <2>2. CASE Answered(t, last[t])
    BY <1>1, <2>2 DEF Answered
  <2> QED
    BY <2>1, <2>2 DEF Direct
<1>4. TypeOK'
  BY <1>1, <1>3
<1>5. CacheAnswers'
  BY <1>1 DEF CacheAnswers
<1>6. Serving(t)'
  BY <1>1, <1>3 DEF Serving
<1>7. \A u \in Threads \ {t} : Untouched(u)
  BY <1>1, <1>3 DEF Untouched
<1> QED
  BY <1>1, <1>4, <1>5, <1>6, <1>7, StepFrame

LEMMA StoreStep ==
    ASSUME Inv, NEW t \in Threads, Store(t) PROVE Inv'
<1> USE DEF Inv, TypeOK, Goto, Serving, Entry
<1>1. TypeOK'
  BY QueryAssumption, NoneAssumption DEF Store, Evicted
<1>2. CacheAnswers'
  BY QueryAssumption, NoneAssumption DEF Store, Evicted, CacheAnswers
<1>3. Serving(t)'
  BY QueryAssumption, NoneAssumption DEF Store, Evicted, Serving
<1>4. \A u \in Threads \ {t} : Untouched(u)
  BY DEF Store, Evicted, Untouched
<1> QED
  BY <1>1, <1>2, <1>3, <1>4, StepFrame DEF Store, Evicted

LEMMA AnswerStep ==
    ASSUME Inv, NEW t \in Threads, Answer(t) PROVE Inv'
<1>1. /\ pc[t] = "answer" /\ req[t] \in Requests /\ Serving(t)
      /\ pc' = [pc EXCEPT ![t] = "done"]
      /\ instance' = [instance EXCEPT ![t] = 1]
      /\ attempt' = [attempt EXCEPT ![t] = 0]
      /\ tried' = [tried EXCEPT ![t] = NotTried]
      /\ last' = [last EXCEPT ![t] = None]
      /\ UNCHANGED <<now, cache, localUp, req, polls, seen, since>>
  BY DEF Answer, Inv, Serving, Goto
<1>2. BingData(req[t]) \in Data /\ Answers(BingData(req[t]), req[t])
  BY <1>1, ResponsesAnswer
<1>3. PICK data \in Data \cup {None} :
         /\ reply' = [reply EXCEPT ![t] = data]
         /\ data # None => Answers(data, req[t])
  <2>1. CASE UNCHANGED reply
    <3>1. reply' = [reply EXCEPT ![t] = reply[t]] /\ reply[t] \in Data \cup {None}
      BY <2>1 DEF Inv, TypeOK
    <3> QED
      BY <1>1, <3>1 DEF Serving
  <2>2. CASE reply' = [reply EXCEPT ![t] = BingData(req[t])] \/ reply' = [reply EXCEPT ![t] = None]
    BY <1>2, <2>2
  <2> QED
    BY <2>1, <2>2 DEF Answer
<1>4. TypeOK'
  <2>1. 0 \in 0..(MaxRetries - 1) /\ 1 \in 1..(Len(Instances) + 1)
    BY QueryAssumption, InstancesAreSources
  <2>2. NotTried \in [DOMAIN Instances -> Nat]
    BY DEF NotTried
  <2> QED
    BY <1>1, <1>3, <2>1, <2>2 DEF Inv, TypeOK
<1>5. CacheAnswers'
  BY <1>1 DEF Inv, CacheAnswers
<1>6. Serving(t)'
  <2>1. /\ pc'[t] = "done" /\ instance'[t] = 1 /\ last'[t] = None /\ reply'[t] = data
    BY <1>1, <1>3 DEF Inv, TypeOK
  <2>2. 1 <= Len(Instances)
    BY InstancesAreSources
  <2> QED
    BY <1>1, <1>3, <2>1, <2>2 DEF Serving
<1>7. \A u \in Threads \ {t} : Untouched(u)
  BY <1>1, <1>3 DEF Inv, TypeOK, Untouched
<1> QED
  BY <1>1, <1>4, <1>5, <1>6, <1>7, StepFrame

LEMMA DoneStep ==
    ASSUME Inv, NEW t \in Threads, Done(t) PROVE Inv'
<1> USE DEF Inv, TypeOK, Goto
<1>1. TypeOK'
  BY QueryAssumption DEF Done
<1>2. CacheAnswers'
  BY DEF Done, CacheAnswers
<1>3. Serving(t)'
  <2>1. /\ pc[t] = "done" /\ Serving(t) /\ now \in Nat
        /\ pc'[t] = "idle" /\ seen'[t] = None /\ reply'[t] = None /\ since'[t] = 0
        /\ UNCHANGED <<now, instance, last>>
    BY QueryAssumption DEF Done
  <2> HIDE DEF Inv, TypeOK, Goto
  <2> QED
    BY <2>1 DEF Serving
<1>4. \A u \in Threads \ {t} : Untouched(u)
  BY DEF Done, Untouched
<1> QED
  BY <1>1, <1>2, <1>3, <1>4, StepFrame DEF Done

LEMMA OutsideStep ==
    ASSUME Inv, Tick \/ LocalChanges \/ UNCHANGED vars PROVE Inv'
<1> USE QueryAssumption DEF Tick, LocalChanges, vars, local
<1>1. TypeOK'
  <2>1. now' \in 0..MaxTime
    BY DEF Inv, TypeOK
  <2>3. localUp' \in BOOLEAN
    BY Zenon DEF Inv, TypeOK
  <2>2. UNCHANGED <<cache, pc, req, polls, seen, instance, attempt, tried, last, reply, since>>
    OBVIOUS
  <2> QED
    BY <2>1, <2>2, <2>3 DEF Inv, TypeOK
<1>2. CacheAnswers'
  BY DEF Inv, CacheAnswers
<1>3. \A u \in Threads : Serving(u)'
  <2>1. now' \in Nat /\ now' >= now
    BY DEF Inv, TypeOK
  <2>2. \A u \in Threads : Untouched(u)
    BY DEF Untouched
  <2> QED
    BY <2>1, <2>2, OthersServe
<1> QED
  BY <1>1, <1>2, <1>3 DEF Inv

LEMMA InvStep == Inv /\ [Next]_vars => Inv'
  BY EnsureStep, BootPollStep, RequestStep, LookupStep, AgeStep, PopStep,
     FetchStep,
     DirectStep, StoreStep, AnswerStep, DoneStep, OutsideStep DEF Next, Step

-----------------------------------------------------------------------------
(* The theorems.                                                           *)

THEOREM InvHolds == Spec => []Inv
<1>1. Init => Inv
  BY InvInit
<1>2. Inv /\ [Next]_vars => Inv'
  BY InvStep
<1> QED
  BY <1>1, <1>2, PTL DEF Spec

(* Every variable keeps its type: in particular no thread polls or retries *)
(* more often than it may, and no thread asks an instance that is not in   *)
(* the list.                                                               *)
THEOREM TypeCorrect == Spec => []TypeOK
<1>1. Inv => TypeOK
  BY DEF Inv
<1> QED
  BY <1>1, InvHolds, PTL

(* Only responses with results are cached and served from the cache.       *)
THEOREM CacheHasResults == Spec => []OnlyResultsAreCached
<1>1. Inv => OnlyResultsAreCached
  BY DEF Inv, CacheAnswers, Serving, OnlyResultsAreCached
<1> QED
  BY <1>1, InvHolds, PTL

(* The cache and the answers never mix up the requests, however the        *)
(* threads interleave.                                                     *)
THEOREM AnswersAreForTheRequest == Spec => []AnswersMatch
<1>1. Inv => AnswersMatch
  BY DEF Inv, CacheAnswers, Serving, AnswersMatch
<1> QED
  BY <1>1, InvHolds, PTL

(* What the cache serves was stored less than the TTL before the request   *)
(* arrived.                                                                *)
THEOREM CacheServesFresh == Spec => []CachedAnswersAreFresh
<1>1. Inv => CachedAnswersAreFresh
  BY DEF Inv, Serving, CachedAnswersAreFresh
<1> QED
  BY <1>1, InvHolds, PTL

(* A store evicts only what has expired.                                   *)
THEOREM StoreEvictsStaleOnly == Spec => StoreKeepsFresh
<1> DEFINE Keeps == \A t \in Threads : Store(t) =>
                       \A k \in DOMAIN cache :
                           now - cache[k].ts < CacheTtl => k \in DOMAIN cache'
<1>1. Inv /\ [Next]_vars => [Keeps]_vars
  <2> SUFFICES ASSUME Inv, NEW t \in Threads, Store(t), NEW k \in DOMAIN cache,
                      now - cache[k].ts < CacheTtl
               PROVE  k \in DOMAIN cache'
    OBVIOUS
  <2>1. /\ now \in Int /\ CacheTtl \in Int /\ cache[k].ts \in Int
    BY QueryAssumption DEF Inv, TypeOK, Entry
  <2>2. k \notin Evicted
    BY <2>1 DEF Evicted
  <2> QED
    BY <2>2 DEF Store
<1> QED
  BY <1>1, InvHolds, PTL DEF Spec, StoreKeepsFresh

\* The cache never holds infinitely many entries.
LEMMA CacheIsFinite == Spec => []IsFiniteSet(DOMAIN cache)
<1> DEFINE Finite == IsFiniteSet(DOMAIN cache)
<1>1. Init => Finite
  BY FS_EmptySet DEF Init
<1>2. Finite /\ [Next]_vars => Finite'
  <2> SUFFICES ASSUME Finite, [Next]_vars PROVE Finite'
    OBVIOUS
  <2>1. CASE \E t \in Threads : Pop(t)
    <3>1. PICK t \in Threads : DOMAIN cache' = DOMAIN cache \ {req[t]}
      BY <2>1 DEF Pop, Restrict
    <3> QED
      BY <3>1, FS_Subset
  <2>2. CASE \E t \in Threads : Store(t)
    <3>1. PICK t \in Threads : DOMAIN cache' = (DOMAIN cache \ Evicted) \cup {req[t]}
      BY <2>2 DEF Store
    <3>2. IsFiniteSet(DOMAIN cache \ Evicted)
      BY FS_Subset
    <3> QED
      BY <3>1, <3>2, FS_AddElement
  <2>3. CASE UNCHANGED cache
    BY <2>3
  <2> QED
    BY <2>1, <2>2, <2>3
       DEF Next, Step, Ensure, BootPoll, Lookup, Age, Fetch, Direct, Answer, Done,
           Request, Tick, LocalChanges, vars
<1> QED
  BY <1>1, <1>2, PTL DEF Spec

(* Nothing that has expired stays in a cache above its limit once a store  *)
(* is done: the entries beyond it are the fresh ones, and only they.       *)
THEOREM FreshAloneExceed == Spec => OnlyFreshExceedTheLimit
<1> DEFINE Few == \A t \in Threads : Store(t) =>
                     \/ Cardinality(DOMAIN cache') <= CacheLimit + 1
                     \/ \A k \in DOMAIN cache' : k = req[t] \/ now - cache'[k].ts < CacheTtl
<1>1. Inv /\ IsFiniteSet(DOMAIN cache) /\ [Next]_vars => [Few]_vars
  <2> SUFFICES ASSUME Inv, IsFiniteSet(DOMAIN cache), NEW t \in Threads, Store(t)
               PROVE  \/ Cardinality(DOMAIN cache') <= CacheLimit + 1
                      \/ \A k \in DOMAIN cache' :
                             k = req[t] \/ now - cache'[k].ts < CacheTtl
    OBVIOUS
  <2>1. /\ now \in Nat /\ CacheTtl \in Nat /\ CacheLimit \in Nat
        /\ \A k \in DOMAIN cache : cache[k].ts \in Nat
    BY QueryAssumption DEF Inv, TypeOK, Entry
  <2>2. /\ DOMAIN cache' = (DOMAIN cache \ Evicted) \cup {req[t]}
        /\ \A k \in DOMAIN cache' : k # req[t] => cache'[k] = cache[k]
    BY DEF Store
  <2>3. CASE Cardinality(DOMAIN cache) > CacheLimit
    <3>1. \A k \in DOMAIN cache \ Evicted : ~(now - cache[k].ts >= CacheTtl)
      BY <2>3 DEF Evicted
    <3> QED
      BY <2>1, <2>2, <3>1
  <2>4. CASE ~(Cardinality(DOMAIN cache) > CacheLimit)
    <3>1. Evicted = {}
      BY <2>4 DEF Evicted
    <3>2. DOMAIN cache' = DOMAIN cache \cup {req[t]}
      BY <2>2, <3>1
    <3>3. Cardinality(DOMAIN cache) \in Nat
      BY FS_CardinalityType
    <3>4. Cardinality(DOMAIN cache') \in {Cardinality(DOMAIN cache), Cardinality(DOMAIN cache) + 1}
      BY <3>2, FS_AddElement
    <3>5. Cardinality(DOMAIN cache') <= CacheLimit + 1
      <4> DEFINE before == Cardinality(DOMAIN cache)
                 after  == Cardinality(DOMAIN cache')
      <4>1. /\ before \in Nat /\ after \in {before, before + 1}
            /\ CacheLimit \in Nat /\ ~(before > CacheLimit)
        BY <2>1, <2>4, <3>3, <3>4
      <4> HIDE DEF before, after
      <4>2. after <= CacheLimit + 1
        BY <4>1
      <4> QED
        BY <4>2 DEF after
    <3> QED
      BY <3>5
  <2> QED
    BY <2>3, <2>4
<1> QED
  BY <1>1, InvHolds, CacheIsFinite, PTL DEF Spec, OnlyFreshExceedTheLimit

-----------------------------------------------------------------------------
(* A step of one thread leaves the state of the others alone.              *)
LEMMA StepIsOwn ==
    ASSUME Inv, NEW t \in Threads, NEW u \in Threads \ {t},
           Step(t) \/ \E r \in Requests : Request(t, r)
    PROVE  Untouched(u)
<1>1. /\ t \in DOMAIN pc /\ u \in DOMAIN pc
  BY DEF Inv, TypeOK
<1> USE DEF Inv, TypeOK, Goto, Untouched
<1>2. CASE Ensure(t)
  BY <1>2 DEF Ensure
<1>3. CASE BootPoll(t)
  BY <1>3 DEF BootPoll
<1>4. CASE Lookup(t)
  BY <1>4 DEF Lookup
<1>5. CASE Age(t)
  BY <1>5 DEF Age, Answered
<1>6. CASE Pop(t)
  BY <1>6 DEF Pop
<1>7. CASE Fetch(t)
  <2>1. tried'[u] = tried[u]
    BY <1>7, AskingCounts DEF Fetch
  <2> QED
    BY <1>7, <2>1 DEF Fetch, FetchResults, FetchEmpty, FetchFails, NextAttempt
<1>8. CASE Direct(t)
  BY <1>8 DEF Direct, Answered
<1>9. CASE Store(t)
  BY <1>9 DEF Store
<1>10. CASE Answer(t)
  BY <1>10 DEF Answer
<1>11. CASE Done(t)
  BY <1>11 DEF Done
<1>12. CASE \E r \in Requests : Request(t, r)
  BY <1>12 DEF Request
<1> QED
  BY <1>2, <1>3, <1>4, <1>5, <1>6, <1>7, <1>8, <1>9, <1>10, <1>11, <1>12
  DEF Step

-----------------------------------------------------------------------------
(* The last resort.  What was asked of the instances is what the cursor of *)
(* the two loops tells, no thread has an answer before it stores one or    *)
(* gives it, and whoever answers without results has asked them all, or    *)
(* took its answer from the cache.                                         *)

AskedAll(t) == \A i \in DOMAIN Instances : tried[t][i] = MaxRetries

CursorCounts(t) ==
    \A i \in DOMAIN Instances :
        tried[t][i] = IF i < instance[t] THEN MaxRetries
                      ELSE IF i = instance[t] THEN attempt[t] ELSE 0

Resorting(t) ==
    /\ pc[t] \notin {"store", "direct", "answer"} => CursorCounts(t)
    /\ pc[t] = "direct" => AskedAll(t)
    /\ pc[t] \notin {"store", "answer", "done"} => reply[t] = None
    /\ pc[t] = "answer" => \/ seen[t] # None \/ AskedAll(t)
                           \/ reply[t] # None /\ reply[t].full

\* A failed or empty attempt: the counts go on with the cursor.
LEMMA AttemptCounts ==
    ASSUME Inv, NEW t \in Threads, pc[t] = "fetch", CursorCounts(t),
           NextAttempt(t), Asking(t)
    PROVE  \/ pc'[t] = "fetch" /\ CursorCounts(t)'
           \/ pc'[t] = "direct" /\ AskedAll(t)'
<1>1. /\ MaxRetries \in Nat \ {0} /\ attempt[t] \in 0..(MaxRetries - 1)
      /\ instance[t] \in 1..Len(Instances) /\ DOMAIN Instances = 1..Len(Instances)
      /\ Len(Instances) \in Nat
      /\ t \in DOMAIN pc /\ t \in DOMAIN attempt /\ t \in DOMAIN instance
  BY QueryAssumption, FetchingInstance, InstancesAreSources DEF Inv, TypeOK
<1>2. /\ tried'[t][instance[t]] = tried[t][instance[t]] + 1
      /\ \A i \in DOMAIN Instances \ {instance[t]} : tried'[t][i] = tried[t][i]
  BY AskingCounts
<1>3. /\ tried'[t][instance[t]] = attempt[t] + 1
      /\ \A i \in DOMAIN Instances : i < instance[t] => tried'[t][i] = MaxRetries
      /\ \A i \in DOMAIN Instances : i > instance[t] => tried'[t][i] = 0
  BY <1>1, <1>2 DEF CursorCounts
<1>4. CASE attempt[t] + 1 < MaxRetries
  <2>1. pc'[t] = "fetch" /\ attempt'[t] = attempt[t] + 1 /\ instance'[t] = instance[t]
    BY <1>1, <1>4 DEF NextAttempt, Goto
  <2>2. CursorCounts(t)'
    BY <1>1, <1>3, <2>1 DEF CursorCounts
  <2> QED
    BY <2>1, <2>2
<1>5. CASE ~(attempt[t] + 1 < MaxRetries)
  <2>1. /\ attempt'[t] = 0 /\ instance'[t] = instance[t] + 1
        /\ pc'[t] = IF instance[t] = Len(Instances) THEN "direct" ELSE "fetch"
    BY <1>1, <1>5 DEF NextAttempt, Goto
  <2>2. attempt[t] + 1 = MaxRetries
    BY <1>1, <1>5
  <2>3. /\ \A i \in DOMAIN Instances : i < instance'[t] => tried'[t][i] = MaxRetries
        /\ \A i \in DOMAIN Instances : i >= instance'[t] => tried'[t][i] = 0
    BY <1>1, <1>3, <2>1, <2>2
  <2>4. CursorCounts(t)'
    BY <1>1, <2>1, <2>3 DEF CursorCounts
  <2>5. instance[t] = Len(Instances) => AskedAll(t)'
    BY <1>1, <2>1, <2>3 DEF AskedAll
  <2> QED
    BY <2>1, <2>4, <2>5
<1> QED
  BY <1>4, <1>5

LEMMA FetchResorts ==
    ASSUME Inv, NEW t \in Threads, Resorting(t), Fetch(t) PROVE Resorting(t)'
<1>1. /\ pc[t] = "fetch" /\ reply[t] = None /\ CursorCounts(t) /\ Asking(t)
      /\ t \in DOMAIN pc
  BY DEF Fetch, Resorting, Inv, TypeOK
<1>2. CASE FetchResults(t)
  BY <1>1, <1>2 DEF FetchResults, Goto, Resorting
<1>3. CASE FetchEmpty(t) \/ FetchFails(t)
  <2>1. NextAttempt(t) /\ reply'[t] = None
    BY <1>1, <1>3 DEF FetchEmpty, FetchFails
  <2> QED
    BY <1>1, <2>1, AttemptCounts DEF Resorting
<1> QED
  BY <1>2, <1>3 DEF Fetch

LEMMA AnswerResorts ==
    ASSUME Inv, NEW t \in Threads, Answer(t) PROVE Resorting(t)'
<1>1. /\ pc'[t] = "done" /\ instance'[t] = 1 /\ attempt'[t] = 0 /\ tried'[t] = NotTried
  BY DEF Answer, Goto, Inv, TypeOK
<1>2. DOMAIN Instances = 1..Len(Instances) /\ Len(Instances) \in Nat
  BY InstancesAreSources
<1>3. CursorCounts(t)'
  BY <1>1, <1>2 DEF CursorCounts, NotTried
<1> QED
  BY <1>1, <1>3 DEF Resorting

LEMMA StepResorts ==
    ASSUME Inv, NEW t \in Threads, Resorting(t), Step(t) PROVE Resorting(t)'
<1>1. /\ t \in DOMAIN pc /\ t \in DOMAIN reply /\ t \in DOMAIN seen
      /\ Serving(t)
  BY DEF Inv, TypeOK
<1>0. /\ UNCHANGED <<instance, attempt, tried>> => CursorCounts(t)' = CursorCounts(t)
      /\ UNCHANGED tried => AskedAll(t)' = AskedAll(t)
  BY DEF CursorCounts, AskedAll
<1> USE <1>1, <1>0 DEF Resorting, Goto
<1>2. CASE Ensure(t)
  BY <1>2 DEF Ensure
<1>3. CASE BootPoll(t)
  BY <1>3 DEF BootPoll
<1>4. CASE Lookup(t)
  BY <1>4 DEF Lookup
<1>5. CASE Age(t)
  BY <1>5 DEF Age, Answered, Serving
<1>6. CASE Pop(t)
  BY <1>6 DEF Pop
<1>7. CASE Fetch(t)
  BY <1>7, FetchResorts
<1>8. CASE Direct(t)
  BY <1>8 DEF Direct, Answered
<1>9. CASE Store(t)
  BY <1>9 DEF Store, Serving
<1>10. CASE Answer(t)
  BY <1>10, AnswerResorts
<1>11. CASE Done(t)
  BY <1>11 DEF Done
<1> QED
  BY <1>2, <1>3, <1>4, <1>5, <1>6, <1>7, <1>8, <1>9, <1>10, <1>11 DEF Step

\* Whatever else happens leaves the thread alone.
LEMMA RestResorts ==
    ASSUME Inv, [Next]_vars, NEW u \in Threads, Resorting(u), ~Step(u)
    PROVE  Resorting(u)' /\ (reply'[u] = reply[u])
<1>1. CASE \E r \in Requests : Request(u, r)
  <2>1. /\ pc[u] = "idle" /\ pc'[u] = "ensure" /\ reply[u] = None
        /\ UNCHANGED <<instance, attempt, tried, reply>>
    BY <1>1 DEF Inv, TypeOK, Request, Goto, Resorting
  <2> QED
    BY <2>1 DEF Resorting, CursorCounts
<1>2. CASE UNCHANGED <<pc, reply, instance, attempt, tried, seen>>
  BY <1>2 DEF Resorting, CursorCounts, AskedAll
<1>3. CASE \E t \in Threads \ {u} : Step(t) \/ \E r \in Requests : Request(t, r)
  <2>1. PICK t \in Threads \ {u} : Step(t) \/ \E r \in Requests : Request(t, r)
    BY <1>3
  <2>2. Untouched(u)
    BY <2>1, StepIsOwn
  <2> QED
    BY <2>2 DEF Untouched, Resorting, CursorCounts, AskedAll
<1> QED
  BY <1>1, <1>2, <1>3 DEF Next, Tick, LocalChanges, vars, local

\* A new answer of Brave's or Bing's is a cached one, or every instance was
\* asked as often as it may be.
ComesLast(t) ==
    reply'[t] \notin {reply[t], None} /\ reply'[t].source \in {"brave", "bing"} =>
        seen[t] # None \/ AskedAll(t)

LEMMA StepComesLast ==
    ASSUME Inv, NEW t \in Threads, Resorting(t), Step(t) PROVE ComesLast(t)
<1>1. t \in DOMAIN reply /\ Serving(t)
  BY DEF Inv, TypeOK
<1>2. CASE reply' = reply
  BY <1>2 DEF ComesLast
<1>3. CASE Age(t)
  BY <1>1, <1>3 DEF Age, Serving, ComesLast
<1>4. CASE Fetch(t)
  <2>1. CASE FetchResults(t)
    <3>1. instance[t] \in 1..Len(Instances)
      BY <1>4, FetchingInstance DEF Fetch
    <3>2. Response(t, TRUE).source \in {"local", "external"}
      BY <3>1, InstancesAreSources DEF Response, SearxngData
    <3>3. reply'[t] = Response(t, TRUE)
      BY <1>1, <2>1 DEF FetchResults
    <3> QED
      BY <3>2, <3>3 DEF ComesLast
  <2> QED
    BY <1>2, <1>4, <2>1 DEF Fetch, FetchEmpty, FetchFails
<1>5. CASE Direct(t)
  BY <1>5 DEF Direct, Resorting, ComesLast
<1>6. CASE Answer(t)
  <2>1. reply' # reply => reply[t] = None \/ ~reply[t].full
    BY <1>6 DEF Answer
  <2> QED
    BY <1>2, <1>6, <2>1 DEF Answer, Resorting, ComesLast
<1>7. CASE Done(t)
  BY <1>1, <1>7 DEF Done, ComesLast
<1>8. CASE Ensure(t) \/ BootPoll(t) \/ Lookup(t) \/ Pop(t) \/ Store(t)
  BY <1>2, <1>8 DEF Ensure, BootPoll, Lookup, Pop, Store
<1> QED
  BY <1>3, <1>4, <1>5, <1>6, <1>7, <1>8 DEF Step

(* Brave and Bing answer only a request for which each instance was asked  *)
(* as often as it may be, or one that the cache answers, with one instance *)
(* or two and any number of retries.                                       *)
THEOREM DirectComesLast == Spec => DirectIsLastResort
<1> DEFINE Resorts == \A t \in Threads : Resorting(t)
<1>1. Init => Resorts
  <2> SUFFICES ASSUME Init, NEW t \in Threads PROVE Resorting(t)
    OBVIOUS
  <2>1. DOMAIN Instances = 1..Len(Instances) /\ Len(Instances) \in Nat
    BY InstancesAreSources
  <2>2. CursorCounts(t)
    BY <2>1 DEF Init, NotTried, CursorCounts
  <2> QED
    BY <2>2 DEF Init, Resorting
<1>2. Inv /\ Resorts /\ [Next]_vars => Resorts'
  BY StepResorts, RestResorts
<1>3. Inv /\ Resorts /\ [Next]_vars =>
        [\A t \in Threads :
            reply'[t] \notin {reply[t], None} /\ reply'[t].source \in {"brave", "bing"} =>
                \/ seen[t] # None
                \/ \A i \in DOMAIN Instances : tried[t][i] = MaxRetries]_vars
  BY StepComesLast, RestResorts DEF ComesLast, AskedAll
<1> QED
  BY <1>1, <1>2, <1>3, InvHolds, PTL DEF Spec, DirectIsLastResort

-----------------------------------------------------------------------------
(* A valid response is kept.                                               *)

Keeps(t) ==
    last[t] # None /\ pc[t] # "answer" =>
        /\ last'[t] # None
        /\ pc'[t] = "answer" => reply'[t] # None

LEMMA FetchKeeps ==
    ASSUME Inv, NEW t \in Threads, Fetch(t) PROVE Keeps(t)
<1>1. /\ pc[t] = "fetch" /\ req[t] \in Requests
      /\ t \in DOMAIN pc /\ t \in DOMAIN last
      /\ instance[t] \in 1..Len(Instances)
  BY FetchingInstance DEF Fetch, Serving, Inv, TypeOK
<1>2. Response(t, FALSE) # None
  BY <1>1, InstancesAreSources, ResponsesAnswer, NoneAssumption DEF Response
<1>3. pc'[t] # "answer"
  <2>1. CASE FetchResults(t)
    BY <1>1, <2>1 DEF FetchResults, Goto
  <2>2. CASE NextAttempt(t)
    BY <1>1, <2>2, AttemptTypes
  <2> QED
    BY <2>1, <2>2 DEF Fetch, FetchEmpty, FetchFails
<1> QED
  BY <1>1, <1>2, <1>3 DEF Keeps, Fetch, FetchResults, FetchEmpty, FetchFails

LEMMA StepKeeps ==
    ASSUME Inv, NEW t \in Threads, Step(t) PROVE Keeps(t)
<1>1. /\ t \in DOMAIN pc /\ t \in DOMAIN reply /\ t \in DOMAIN last
      /\ Serving(t) /\ seen[t] \in Entry \cup {None}
  BY DEF Inv, TypeOK
<1> USE <1>1 DEF Keeps, Goto
<1>2. CASE Ensure(t)
  BY <1>2 DEF Ensure
<1>3. CASE BootPoll(t)
  BY <1>3 DEF BootPoll
<1>4. CASE Lookup(t)
  BY <1>4 DEF Lookup
<1>5. CASE Age(t)
  <2>1. seen[t].data # None
    BY <1>5, NoneAssumption DEF Age, Serving, Entry
  <2> QED
    BY <1>5, <2>1 DEF Age, Answered
<1>6. CASE Pop(t)
  BY <1>6 DEF Pop
<1>7. CASE Fetch(t)
  BY <1>7, FetchKeeps
<1>8. CASE Direct(t)
  BY <1>8 DEF Direct, Answered
<1>9. CASE Store(t)
  BY <1>9 DEF Store, Serving
<1>10. CASE Answer(t)
  BY <1>10 DEF Answer
<1>11. CASE Done(t)
  BY <1>11 DEF Done
<1> QED
  BY <1>2, <1>3, <1>4, <1>5, <1>6, <1>7, <1>8, <1>9, <1>10, <1>11 DEF Step

\* Whatever else happens leaves the thread alone, or gives it a request.
LEMMA RestKeeps ==
    ASSUME Inv, [Next]_vars, NEW u \in Threads, ~Step(u)
    PROVE  Keeps(u)
<1>1. CASE \E r \in Requests : Request(u, r)
  BY <1>1 DEF Inv, TypeOK, Request, Goto, Keeps
<1>2. CASE UNCHANGED <<pc, last>>
  BY <1>2 DEF Keeps
<1>3. CASE \E t \in Threads \ {u} : Step(t) \/ \E r \in Requests : Request(t, r)
  <2>1. PICK t \in Threads \ {u} : Step(t) \/ \E r \in Requests : Request(t, r)
    BY <1>3
  <2>2. Untouched(u)
    BY <2>1, StepIsOwn
  <2> QED
    BY <2>2 DEF Untouched, Keeps
<1> QED
  BY <1>1, <1>2, <1>3 DEF Next, Tick, LocalChanges, vars, local

(* Once an instance gave a valid response the query does not end as if     *)
(* SearXNG were down.                                                      *)
THEOREM ResponsesAreKept == Spec => ValidResponseIsKept
<1>1. Inv /\ [Next]_vars => [\A t \in Threads : Keeps(t)]_vars
  BY StepKeeps, RestKeeps
<1> QED
  BY <1>1, InvHolds, PTL DEF Spec, ValidResponseIsKept, Keeps

-----------------------------------------------------------------------------
(* The cached search.                                                      *)

(* An entry about to be dropped has expired, and what a thread keeps for   *)
(* the end of its loops has no results.                                    *)
Holding(t) ==
    /\ pc[t] = "pop" => now - seen[t].ts >= CacheTtl
    /\ last[t] # None => last[t] \in Data /\ ~last[t].full

LEMMA StepHolds ==
    ASSUME Inv, NEW t \in Threads, Holding(t), Step(t) PROVE Holding(t)'
<1>1. /\ t \in DOMAIN pc /\ t \in DOMAIN seen /\ t \in DOMAIN last
      /\ Serving(t) /\ seen[t] \in Entry \cup {None} /\ now \in Nat /\ CacheTtl \in Nat
  BY QueryAssumption DEF Inv, TypeOK
<1> USE <1>1 DEF Holding, Goto
<1>2. CASE Ensure(t)
  BY <1>2 DEF Ensure
<1>3. CASE BootPoll(t)
  BY <1>3 DEF BootPoll
<1>4. CASE Lookup(t)
  BY <1>4 DEF Lookup
<1>5. CASE Age(t)
  <2>1. /\ pc'[t] = "pop" => ~(now - seen[t].ts < CacheTtl)
        /\ UNCHANGED <<now, seen, last>>
    BY <1>5 DEF Age, Answered
  <2>2. seen[t] \in Entry /\ seen[t].ts \in Nat
    BY <1>5 DEF Age, Serving, Entry
  <2> QED
    BY <2>1, <2>2
<1>6. CASE Pop(t)
  BY <1>6 DEF Pop
<1>7. CASE Fetch(t)
  <2>1. pc[t] = "fetch" /\ UNCHANGED <<now, seen>>
    BY <1>7 DEF Fetch
  <2>2. pc'[t] # "pop"
    <3>1. CASE FetchResults(t)
      BY <3>1 DEF FetchResults
    <3>2. CASE NextAttempt(t)
      BY <2>1, <3>2, AttemptTypes
    <3> QED
      BY <1>7, <3>1, <3>2 DEF Fetch, FetchEmpty, FetchFails
  <2>3. last'[t] = last[t] \/ last'[t] = Response(t, FALSE)
    BY <1>7 DEF Fetch, FetchResults, FetchEmpty, FetchFails
  <2>4. Response(t, FALSE) \in Data /\ ~Response(t, FALSE).full
    <3>1. instance[t] \in 1..Len(Instances) /\ req[t] \in Requests
      BY <2>1, FetchingInstance DEF Serving
    <3>2. Response(t, FALSE) \in Data
      BY <3>1, InstancesAreSources, ResponsesAnswer DEF Response
    <3> QED
      BY <3>2 DEF Response, SearxngData
  <2> QED
    BY <2>2, <2>3, <2>4
<1>8. CASE Direct(t)
  BY <1>8 DEF Direct, Answered
<1>9. CASE Store(t)
  BY <1>9 DEF Store
<1>10. CASE Answer(t)
  BY <1>10 DEF Answer
<1>11. CASE Done(t)
  BY <1>11 DEF Done
<1> QED
  BY <1>2, <1>3, <1>4, <1>5, <1>6, <1>7, <1>8, <1>9, <1>10, <1>11 DEF Step

LEMMA RestHolds ==
    ASSUME Inv, [Next]_vars, NEW u \in Threads, Holding(u), ~Step(u)
    PROVE  Holding(u)'
<1>0. now \in Nat /\ CacheTtl \in Nat /\ (pc[u] = "pop" => seen[u].ts \in Nat)
  <2>1. pc[u] = "pop" => seen[u] \in Entry
    BY DEF Inv, TypeOK, Serving
  <2> QED
    BY <2>1, QueryAssumption DEF Inv, TypeOK, Entry
<1>1. CASE \E r \in Requests : Request(u, r)
  BY <1>1 DEF Inv, TypeOK, Request, Goto, Holding
<1>2. CASE UNCHANGED <<pc, seen, last>> /\ now' \in {now, now + 1}
  BY <1>0, <1>2 DEF Holding
<1>3. CASE \E t \in Threads \ {u} : Step(t) \/ \E r \in Requests : Request(t, r)
  <2>1. PICK t \in Threads \ {u} : Step(t) \/ \E r \in Requests : Request(t, r)
    BY <1>3
  <2>2. Untouched(u)
    BY <2>1, StepIsOwn
  <2>3. now' = now
    BY <2>1
    DEF Step, Ensure, BootPoll, Lookup, Age, Pop, Fetch, Direct, Store, Answer,
        Done, Request
  <2> QED
    BY <2>2, <2>3 DEF Untouched, Holding
<1> QED
  BY <1>1, <1>2, <1>3 DEF Next, Tick, LocalChanges, vars, local

LEMMA HoldingHolds == Spec => [](\A t \in Threads : Holding(t))
<1> DEFINE Hold == \A t \in Threads : Holding(t)
<1>1. Init => Hold
  BY DEF Init, Holding
<1>2. Inv /\ Hold /\ [Next]_vars => Hold'
  BY StepHolds, RestHolds
<1> QED
  BY <1>1, <1>2, InvHolds, PTL DEF Spec

\* The phase of a thread follows its step; the others stay where they are.
LEMMA PhaseMoves ==
    ASSUME Inv, NEW t \in Threads, NEW step \in Steps, pc' = [pc EXCEPT ![t] = step]
    PROVE  Phases' = [Phases EXCEPT ![t] = Phase(step)]
BY DEF Inv, TypeOK, Phases

LEMMA PhaseStays ==
    ASSUME Inv, NEW t \in Threads, NEW step \in Steps, pc' = [pc EXCEPT ![t] = step],
           Phase(step) = Phase(pc[t])
    PROVE  Phases' = Phases
BY DEF Inv, TypeOK, Phases

\* What the caller is going to get, and the phase it is in then.
LEMMA Chooses ==
    ASSUME Inv, NEW t \in Threads, NEW step \in Steps, NEW response,
           reply' = [reply EXCEPT ![t] = response],
           pc' = [pc EXCEPT ![t] = step],
           UNCHANGED <<now, cache, req, since, seen>>
    PROVE  Search!Choose(t, response, Phase(step))
BY PhaseMoves DEF Search!Choose

LEMMA InSearch ==
    ASSUME NEW r \in Requests, NEW data
    PROVE  /\ data \in AnswersTo[r] <=> data \in Data /\ Answers(data, r)
           /\ data \in WithResults <=> data \in Data /\ data.full
BY DEF AnswersTo, WithResults

LEMMA FindSearches ==
    ASSUME Inv, NEW t \in Threads, NEW data \in Data,
           Phase(pc[t]) = "open", seen[t] = None, req[t] \in Requests,
           Answers(data, req[t]), data.full,
           reply' = [reply EXCEPT ![t] = data], Goto(t, "store"),
           UNCHANGED <<now, cache, req, since, seen>>
    PROVE  Search!Next
<1>1. Search!Choose(t, data, "found")
  BY Chooses DEF Goto, Phase
<1>2. data \in AnswersTo[req[t]] \cap WithResults
  BY InSearch
<1>3. Phases[t] = "open"
  BY DEF Phases
<1> QED
  BY <1>1, <1>2, <1>3 DEF Search!Next, Search!Find

LEMMA GiveUpSearches ==
    ASSUME Inv, NEW t \in Threads, NEW data \in Data \cup {None},
           Phase(pc[t]) = "open", seen[t] = None, req[t] \in Requests,
           data # None => Answers(data, req[t]) /\ ~data.full,
           Answered(t, data),
           UNCHANGED <<now, cache, req, since, seen>>
    PROVE  Search!Next
<1>1. Search!Choose(t, data, "chosen")
  BY Chooses DEF Answered, Goto, Phase
<1>2. data \in (AnswersTo[req[t]] \ WithResults) \cup {None}
  BY InSearch
<1>3. Phases[t] = "open"
  BY DEF Phases
<1> QED
  BY <1>1, <1>2, <1>3 DEF Search!Next, Search!GiveUp

LEMMA StoreSearches ==
    ASSUME Inv, NEW t \in Threads, Store(t)
    PROVE  Search!Next
<1>1. Phases[t] = "found" /\ Phases' = [Phases EXCEPT ![t] = "chosen"]
  BY PhaseMoves DEF Store, Goto, Phases, Phase
<1>2. Evicted \in SUBSET {k \in DOMAIN cache : Search!Stale(cache[k])}
  BY DEF Evicted, Search!Stale
<1>3. UNCHANGED <<now, req, since, seen, reply>>
  BY DEF Store
<1>4. cache' = [k \in (DOMAIN cache \ Evicted) \cup {req[t]} |->
                   IF k = req[t] THEN [data |-> reply[t], ts |-> now] ELSE cache[k]]
  BY DEF Store
<1>5. Search!Keep(t)
  BY <1>1, <1>2, <1>3, <1>4 DEF Search!Keep
<1> QED
  BY <1>5 DEF Search!Next

LEMMA AnswerSearches ==
    ASSUME Inv, NEW t \in Threads, Answer(t)
    PROVE  Search!Next
<1>1. /\ pc[t] = "answer" /\ pc' = [pc EXCEPT ![t] = "done"]
      /\ UNCHANGED <<now, cache, req, since, seen>>
      /\ req[t] \in Requests /\ reply \in [Threads -> Data \cup {None}]
  BY DEF Answer, Goto, Inv, TypeOK, Serving
<1>2. Phases[t] = "chosen"
  BY <1>1 DEF Phases, Phase
<1>3. CASE reply' = reply
  <2>1. reply' = [reply EXCEPT ![t] = reply[t]]
    BY <1>1, <1>3
  <2>2. Search!Choose(t, reply[t], "done")
    BY <1>1, <2>1, Chooses DEF Phase
  <2> QED
    BY <1>2, <2>2 DEF Search!Next, Search!Reply
<1>4. CASE reply' # reply
  <2>1. reply[t] = None \/ ~reply[t].full
    BY <1>4 DEF Answer
  <2>2. PICK data \in {BingData(req[t]), None} : reply' = [reply EXCEPT ![t] = data]
    BY <1>4 DEF Answer
  <2>3. reply[t] \notin WithResults
    BY <2>1, NoneAssumption DEF WithResults
  <2>4. data \in AnswersTo[req[t]] \cup {None}
    BY <1>1, ResponsesAnswer, InSearch
  <2>5. Search!Choose(t, data, "done")
    BY <1>1, <2>2, Chooses DEF Phase
  <2> QED
    BY <1>2, <2>3, <2>4, <2>5 DEF Search!Next, Search!Reply
<1> QED
  BY <1>3, <1>4

LEMMA StepSearches ==
    ASSUME Inv, NEW t \in Threads, Holding(t), Step(t)
    PROVE  Search!Next \/ UNCHANGED Search!vars
<1>1. /\ pc \in [Threads -> Steps] /\ Serving(t) /\ now \in Nat /\ CacheTtl \in Nat
      /\ seen[t] \in Entry \cup {None} /\ Phases[t] = Phase(pc[t])
  BY QueryAssumption DEF Inv, TypeOK, Phases
<1>2. CASE Ensure(t)
  <2>1. Phases' = Phases
    BY <1>1, <1>2, PhaseStays DEF Ensure, Goto, Phase
  <2> QED
    BY <1>2, <2>1 DEF Ensure, Search!vars
<1>3. CASE BootPoll(t)
  <2>1. Phases' = Phases
    BY <1>1, <1>3, PhaseStays DEF BootPoll, Goto, Phase, Phases
  <2> QED
    BY <1>3, <2>1 DEF BootPoll, Search!vars
<1>4. CASE Lookup(t)
  <2>1. Phases' = Phases
    BY <1>1, <1>4, PhaseStays DEF Lookup, Goto, Phase
  <2>2. Phases[t] = "open"
    BY <1>1, <1>4 DEF Lookup, Phase
  <2> QED
    BY <1>4, <2>1, <2>2 DEF Lookup, Search!Next, Search!Look, Search!vars
<1>5. CASE Age(t)
  <2>1. /\ pc[t] = "age" /\ seen[t] # None /\ seen[t].ts \in Nat
        /\ UNCHANGED <<now, cache, req, since, seen>>
    BY <1>1, <1>5 DEF Age, Serving, Entry
  <2>2. Phases[t] = "open"
    BY <1>1, <2>1 DEF Phase
  <2>3. CASE now - seen[t].ts < CacheTtl
    <3>1. Answered(t, seen[t].data) /\ ~Search!Stale(seen[t])
      BY <1>1, <1>5, <2>1, <2>3 DEF Age, Search!Stale
    <3>2. Search!Choose(t, seen[t].data, "chosen")
      BY <2>1, <3>1, Chooses DEF Answered, Goto, Phase
    <3> QED
      BY <2>1, <2>2, <3>1, <3>2 DEF Search!Next, Search!Hit
  <2>4. CASE ~(now - seen[t].ts < CacheTtl)
    <3>1. Goto(t, "pop") /\ UNCHANGED reply
      BY <1>5, <2>4 DEF Age
    <3>2. Phases' = Phases
      BY <2>1, <3>1, PhaseStays DEF Goto, Phase
    <3> QED
      BY <2>1, <3>1, <3>2 DEF Search!vars
  <2> QED
    BY <2>3, <2>4
<1>6. CASE Pop(t)
  <2>1. /\ pc[t] = "pop" /\ seen[t] # None /\ pc' = [pc EXCEPT ![t] = "fetch"]
        /\ cache' = [k \in DOMAIN cache \ {req[t]} |-> cache[k]]
        /\ seen' = [seen EXCEPT ![t] = None]
        /\ UNCHANGED <<now, req, since, reply>>
    BY <1>1, <1>6 DEF Pop, Goto, Restrict, Serving
  <2>2. Phases' = Phases /\ Phases[t] = "open"
    BY <1>1, <2>1, PhaseStays DEF Phase
  <2>3. Search!Stale(seen[t])
    BY <2>1 DEF Holding, Search!Stale
  <2> QED
    BY <2>1, <2>2, <2>3 DEF Search!Next, Search!Drop
<1>7. CASE Fetch(t)
  <2>1. /\ pc[t] = "fetch" /\ seen[t] = None /\ req[t] \in Requests
        /\ UNCHANGED <<now, cache, req, since, seen>>
    BY <1>1, <1>7 DEF Fetch, Serving
  <2>2. CASE FetchResults(t)
    <3>1. Response(t, TRUE) \in Data /\ Answers(Response(t, TRUE), req[t])
      <4>1. instance[t] \in 1..Len(Instances)
        BY <2>1, FetchingInstance
      <4> QED
        BY <2>1, <4>1, InstancesAreSources, ResponsesAnswer DEF Response
    <3>2. Response(t, TRUE).full
      BY DEF Response, SearxngData
    <3> QED
      BY <2>1, <2>2, <3>1, <3>2, FindSearches DEF FetchResults, Phase
  <2>3. CASE NextAttempt(t) /\ UNCHANGED reply
    <3>1. PICK step \in {"fetch", "direct"} : pc' = [pc EXCEPT ![t] = step]
      BY <2>3 DEF NextAttempt, Goto
    <3>2. Phases' = Phases
      BY <2>1, <3>1, PhaseStays DEF Phase
    <3> QED
      BY <2>1, <2>3, <3>2 DEF Search!vars
  <2> QED
    BY <1>7, <2>2, <2>3 DEF Fetch, FetchEmpty, FetchFails
<1>8. CASE Direct(t)
  <2>1. /\ pc[t] = "direct" /\ seen[t] = None /\ req[t] \in Requests
        /\ UNCHANGED <<now, cache, req, since, seen>>
    BY <1>1, <1>8 DEF Direct, Serving
  <2>2. CASE reply' = [reply EXCEPT ![t] = BraveData(req[t])] /\ Goto(t, "store")
    <3>1. BraveData(req[t]).full
      BY DEF BraveData
    <3> QED
      BY <2>1, <2>2, <3>1, ResponsesAnswer, FindSearches DEF Phase
  <2>3. CASE Answered(t, last[t])
    <3>1. last[t] \in Data \cup {None}
      BY DEF Inv, TypeOK
    <3> QED
      BY <1>1, <2>1, <2>3, <3>1, GiveUpSearches DEF Phase, Serving, Holding
  <2> QED
    BY <1>8, <2>2, <2>3 DEF Direct
<1>9. CASE Store(t)
  BY <1>9, StoreSearches
<1>10. CASE Answer(t)
  BY <1>10, AnswerSearches
<1>11. CASE Done(t)
  <2>1. Phases[t] = "done" /\ Phases' = [Phases EXCEPT ![t] = "idle"]
    BY <1>1, <1>11, PhaseMoves DEF Done, Goto, Phase
  <2> QED
    BY <1>11, <2>1 DEF Done, Search!Next, Search!Leave
<1> QED
  BY <1>2, <1>3, <1>4, <1>5, <1>6, <1>7, <1>8, <1>9, <1>10, <1>11 DEF Step

LEMMA RestSearches ==
    ASSUME Inv,
           \/ Tick \/ LocalChanges \/ UNCHANGED vars
           \/ \E t \in Threads, r \in Requests : Request(t, r)
    PROVE  Search!Next \/ UNCHANGED Search!vars
<1>1. CASE Tick
  BY <1>1 DEF Tick, local, Phases, Search!Next, Search!Pass
<1>2. CASE LocalChanges \/ UNCHANGED vars
  BY <1>2 DEF LocalChanges, vars, local, Phases, Search!vars
<1>3. ASSUME NEW t \in Threads, NEW r \in Requests, Request(t, r)
      PROVE  Search!Next
  <2>1. Phases[t] = "idle" /\ Phases' = [Phases EXCEPT ![t] = "open"]
    BY <1>3, PhaseMoves DEF Request, Goto, Phases, Phase
  <2> QED
    BY <1>3, <2>1 DEF Request, Search!Next, Search!Ask
<1> QED
  BY <1>1, <1>2, <1>3

(* The backend implements the cached search, for any number of threads,    *)
(* any requests, instances and limits.                                     *)
THEOREM Implements == Spec => ImplementsSearch
<1>1. Init => Search!Init
  BY DEF Init, Search!Init, Phases, Phase
<1>2. Inv /\ (\A t \in Threads : Holding(t)) /\ [Next]_vars => [Search!Next]_(Search!vars)
  BY StepSearches, RestSearches DEF Next
<1> QED
  BY <1>1, <1>2, InvHolds, HoldingHolds, PTL
  DEF Spec, ImplementsSearch, Search!Spec
-----------------------------------------------------------------------------
(* Every request comes to its end.                                         *)

\* As long as a thread may fetch, there is a fetch left to make.
LEMMA FetchesAreLeft ==
    ASSUME Inv, NEW t \in Threads, pc[t] \notin {"store", "direct", "answer", "done"}
    PROVE  FetchesLeft(t) \in Nat \ {0}
<1>1. /\ MaxRetries \in Nat \ {0} /\ attempt[t] \in 0..(MaxRetries - 1)
      /\ instance[t] \in 1..(Len(Instances) + 1) /\ instance[t] <= Len(Instances)
  BY QueryAssumption DEF Inv, TypeOK, Serving
<1>2. Len(Instances) \in 1..2
  BY QueryAssumption
<1> DEFINE n == Len(Instances)
           i == instance[t]
           a == attempt[t]
<1>3. (n - i) * MaxRetries + (MaxRetries - a) \in Nat \ {0}
  <2>1. /\ n \in 1..2 /\ i \in 1..(n + 1) /\ i <= n
        /\ MaxRetries \in Nat \ {0} /\ a \in 0..(MaxRetries - 1)
    BY <1>1, <1>2
  <2> HIDE DEF n, i, a
  <2>2. n - i = 0 \/ n - i = 1
    BY <2>1
  <2>3. CASE n - i = 0
    BY <2>1, <2>3
  <2>4. CASE n - i = 1
    BY <2>1, <2>4
  <2> QED
    BY <2>2, <2>3, <2>4
<1> QED
  BY <1>3 DEF FetchesLeft

\* An attempt uses up one of them.
LEMMA AttemptIsUsed ==
    ASSUME Inv, NEW t \in Threads, pc[t] = "fetch", NextAttempt(t)
    PROVE  pc'[t] = "direct" \/ (pc'[t] = "fetch" /\ FetchesLeft(t)' = FetchesLeft(t) - 1)
<1>1. /\ MaxRetries \in Nat \ {0} /\ attempt[t] \in 0..(MaxRetries - 1)
      /\ instance[t] \in 1..Len(Instances) /\ Len(Instances) \in 1..2
      /\ t \in DOMAIN pc /\ t \in DOMAIN attempt /\ t \in DOMAIN instance
  BY QueryAssumption, FetchingInstance DEF Inv, TypeOK
<1>2. CASE attempt[t] + 1 < MaxRetries
  <2>1. pc'[t] = "fetch" /\ attempt'[t] = attempt[t] + 1 /\ instance'[t] = instance[t]
    BY <1>1, <1>2 DEF NextAttempt, Goto
  <2>2. (Len(Instances) - instance[t]) * MaxRetries \in Int
    BY <1>1
  <2> QED
    BY <1>1, <2>1, <2>2 DEF FetchesLeft
<1>3. CASE ~(attempt[t] + 1 < MaxRetries) /\ instance[t] < Len(Instances)
  <2>1. pc'[t] = "fetch" /\ attempt'[t] = 0 /\ instance'[t] = instance[t] + 1
    BY <1>1, <1>3 DEF NextAttempt, Goto
  <2>2. instance[t] = 1 /\ Len(Instances) = 2 /\ attempt[t] = MaxRetries - 1
    <3> DEFINE n == Len(Instances)
               i == instance[t]
               a == attempt[t]
    <3>1. /\ n \in 1..2 /\ i \in 1..n /\ i < n /\ MaxRetries \in Nat
          /\ a \in 0..(MaxRetries - 1) /\ ~(a + 1 < MaxRetries)
      BY <1>1, <1>3
    <3> HIDE DEF n, i, a
    <3>2. i = 1 /\ n = 2 /\ a = MaxRetries - 1
      BY <3>1
    <3> QED
      BY <3>2 DEF n, i, a
  <2> QED
    BY <1>1, <2>1, <2>2 DEF FetchesLeft
<1>4. CASE ~(attempt[t] + 1 < MaxRetries) /\ instance[t] = Len(Instances)
  BY <1>1, <1>4 DEF NextAttempt, Goto
<1> QED
  BY <1>1, <1>2, <1>3, <1>4

LEMMA StepAdvances ==
    ASSUME Inv, NEW t \in Threads, Step(t)
    PROVE  Remaining(t)' \in Nat /\ Remaining(t)' < Remaining(t)
<1>1. /\ t \in DOMAIN pc /\ t \in DOMAIN polls /\ Serving(t)
      /\ BootPolls \in Nat \ {0} /\ polls[t] \in 0..(BootPolls - 1)
  BY QueryAssumption DEF Inv, TypeOK
<1>2. pc[t] \notin {"store", "direct", "answer", "done"} => FetchesLeft(t) \in Nat \ {0}
  BY FetchesAreLeft
<1>3. instance' = instance /\ attempt' = attempt => FetchesLeft(t)' = FetchesLeft(t)
  BY DEF FetchesLeft
<1> USE <1>1 DEF Goto
<1>4. CASE Ensure(t)
  <2>1. /\ pc[t] = "ensure" /\ pc'[t] \in {"lookup", "boot"} /\ polls'[t] = polls[t]
        /\ FetchesLeft(t)' = FetchesLeft(t)
    BY <1>3, <1>4 DEF Ensure
  <2> QED
    BY <1>2, <2>1 DEF Remaining
<1>5. CASE BootPoll(t)
  <2>1. /\ pc[t] = "boot" /\ FetchesLeft(t)' = FetchesLeft(t)
        /\ \/ pc'[t] = "lookup"
           \/ pc'[t] = "boot" /\ polls[t] + 1 < BootPolls /\ polls'[t] = polls[t] + 1
    BY <1>3, <1>5 DEF BootPoll
  <2>2. CASE pc'[t] = "lookup"
    BY <1>2, <2>1, <2>2 DEF Remaining
  <2>3. CASE pc'[t] = "boot"
    BY <1>2, <2>1, <2>3 DEF Remaining
  <2> QED
    BY <2>1, <2>2, <2>3
<1>6. CASE Lookup(t)
  <2>1. /\ pc[t] = "lookup" /\ pc'[t] \in {"age", "fetch"}
        /\ FetchesLeft(t)' = FetchesLeft(t)
    BY <1>3, <1>6 DEF Lookup
  <2> QED
    BY <1>2, <2>1 DEF Remaining
<1>7. CASE Age(t)
  <2>1. /\ pc[t] = "age" /\ pc'[t] \in {"pop", "answer"}
        /\ FetchesLeft(t)' = FetchesLeft(t)
    BY <1>3, <1>7 DEF Age, Answered
  <2> QED
    BY <1>2, <2>1 DEF Remaining
<1>8. CASE Pop(t)
  <2>1. pc[t] = "pop" /\ pc'[t] = "fetch" /\ FetchesLeft(t)' = FetchesLeft(t)
    BY <1>3, <1>8 DEF Pop
  <2> QED
    BY <1>2, <2>1 DEF Remaining
<1>9. CASE Fetch(t)
  <2>1. pc[t] = "fetch"
    BY <1>9 DEF Fetch
  <2>2. CASE FetchResults(t)
    BY <1>2, <2>1, <2>2 DEF FetchResults, Remaining
  <2>3. CASE NextAttempt(t)
    BY <1>2, <2>1, <2>3, AttemptIsUsed DEF Remaining
  <2> QED
    BY <1>9, <2>2, <2>3 DEF Fetch, FetchEmpty, FetchFails
<1>10. CASE Direct(t)
  <2>1. pc[t] = "direct" /\ pc'[t] \in {"store", "answer"}
    BY <1>10 DEF Direct, Answered
  <2>2. Remaining(t) = 4
    BY <2>1 DEF Remaining
  <2>3. Remaining(t)' \in {2, 3}
    BY <2>1 DEF Remaining
  <2> QED
    BY <2>2, <2>3
<1>11. CASE Store(t)
  BY <1>11 DEF Store, Remaining
<1>12. CASE Answer(t)
  BY <1>12 DEF Answer, Remaining
<1>13. CASE Done(t)
  BY <1>13 DEF Done, Remaining
<1> QED
  BY <1>4, <1>5, <1>6, <1>7, <1>8, <1>9, <1>10, <1>11, <1>12, <1>13 DEF Step

\* What others do does not touch it.
LEMMA RestStaysRanked ==
    ASSUME Inv, [Next]_vars, NEW u \in Threads, ~Step(u), pc[u] # "idle"
    PROVE  Remaining(u)' = Remaining(u)
<1>1. CASE UNCHANGED <<pc, polls, instance, attempt>>
  BY <1>1 DEF Remaining, FetchesLeft
<1>2. CASE \E t \in Threads \ {u} : Step(t) \/ \E r \in Requests : Request(t, r)
  <2>1. PICK t \in Threads \ {u} : Step(t) \/ \E r \in Requests : Request(t, r)
    BY <1>2
  <2>2. pc'[u] = pc[u] /\ instance'[u] = instance[u] /\ attempt'[u] = attempt[u]
    BY <2>1, StepIsOwn DEF Untouched
  <2>3. polls'[u] = polls[u]
    BY <2>1
       DEF Inv, TypeOK, Step, Ensure, BootPoll, Lookup, Age, Pop, Fetch, Direct, Store,
           Answer, Done, Request
  <2> QED
    BY <2>2, <2>3 DEF Remaining, FetchesLeft
<1>3. ~\E r \in Requests : Request(u, r)
  BY DEF Request
<1> QED
  BY <1>1, <1>2, <1>3 DEF Next, Tick, LocalChanges, vars, local

(* Polls, retries and fallbacks are bounded for any number of threads and  *)
(* retries: each step of a request's thread lowers what is left of it, and *)
(* nothing raises it.                                                      *)
THEOREM RequestsComeNearer == Spec => RequestsAdvance
<1>1. Inv /\ [Next]_vars =>
        [\A t \in Threads :
            /\ Step(t) => Remaining(t)' \in Nat /\ Remaining(t)' < Remaining(t)
            /\ pc[t] # "idle" /\ ~Step(t) => Remaining(t)' = Remaining(t)]_vars
  BY StepAdvances, RestStaysRanked
<1> QED
  BY <1>1, InvHolds, PTL DEF Spec, RequestsAdvance
=============================================================================
