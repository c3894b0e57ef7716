----------------------- MODULE SearxngSupervisorProofs -----------------------
(* What SearxngSupervisor promises for any number of Flask processes,      *)
(* start threads and subprocesses, any number of polls and any number of   *)
(* disturbances.                                                           *)
EXTENDS SearxngSupervisor, TLAPS

(* The actions change state by a handful of helpers; a leaf cites these    *)
(* and the actions it is about.                                            *)
USE DEF appVars, threadVars, procVars, Services, AppStates, Steps, ProcStates

-----------------------------------------------------------------------------
(* Types.                                                                  *)

\* A wait of some polls starts with polls left.
LEMMA FreshWait ==
    ASSUME TypeOK, NEW t \in Threads, NEW step \in Steps, GoTo(t, step)
    PROVE  /\ pc' \in [Threads -> Steps]
           /\ polled' \in [Threads -> Nat]
           /\ \A u \in Threads : polled'[u] # 0 => Waiting(u)'
  BY ConstantsAssumption DEF TypeOK, GoTo, Waiting

\* An ended thread waits for nothing.
LEMMA FinishedThread ==
    ASSUME TypeOK, NEW t \in Threads, Finish(t)
    PROVE  /\ pc' \in [Threads -> Steps]
           /\ home' \in [Threads -> Apps \cup {NoApp}]
           /\ polled' \in [Threads -> Nat]
           /\ \A u \in Threads : polled'[u] # 0 => Waiting(u)'
  BY ConstantsAssumption DEF TypeOK, Finish, Waiting

\* A start leaves the threads well typed, whoever asks for it.
LEMMA StartedThread ==
    ASSUME TypeOK, NEW a \in Apps, StartSearxng(a)
    PROVE  /\ pc' \in [Threads -> Steps]
           /\ home' \in [Threads -> Apps \cup {NoApp}]
           /\ polled' \in [Threads -> Nat]
           /\ \A u \in Threads : polled'[u] # 0 => Waiting(u)'
  BY ConstantsAssumption DEF TypeOK, StartSearxng, Waiting

\* The end of a subprocess leaves the subprocesses and the globals well typed.
LEMMA DeadProcess ==
    ASSUME TypeOK, NEW p \in Procs, Die(p)
    PROVE  /\ handle' \in [Apps -> Procs \cup {NoProc}]
           /\ status' \in [Procs -> ProcStates]
           /\ kind' \in [Procs -> Services \cup {"none"}]
           /\ owner' \in [Procs -> Apps \cup {NoApp}]
  BY ConstantsAssumption DEF TypeOK, Die

\* So does the launch of one by a start thread.
LEMMA LaunchedProcess ==
    ASSUME TypeOK, NEW t \in Threads, NEW p \in Procs, NEW s \in Services,
           Popen(p, s, home[t])
    PROVE  /\ status' \in [Procs -> ProcStates]
           /\ kind' \in [Procs -> Services \cup {"none"}]
           /\ owner' \in [Procs -> Apps \cup {NoApp}]
<1>1. home[t] \in Apps \cup {NoApp}
  BY DEF TypeOK
<1> QED
  BY <1>1 DEF TypeOK, Popen

\* The number of watchdogs stays below its bound.
LEMMA CountedWatchdog ==
    ASSUME TypeOK, NEW a, StartWatchdog(a)
    PROVE  watchdogs' \in [Apps -> 0..MaxWatchdogs]
<1> DEFINE count == IF watchdogs[a] < MaxWatchdogs THEN watchdogs[a] + 1 ELSE watchdogs[a]
<1>1. watchdogs' = [watchdogs EXCEPT ![a] = count]
  BY DEF StartWatchdog
<1>2. a \in Apps => count \in 0..MaxWatchdogs
  BY ConstantsAssumption DEF TypeOK
<1> HIDE DEF count
<1> QED
  BY <1>1, <1>2 DEF TypeOK

LEMMA TypeInit == Init => TypeOK
  BY ConstantsAssumption DEF Init, TypeOK

LEMMA TypeStep == TypeOK /\ [Next]_vars => TypeOK'
<1> SUFFICES ASSUME TypeOK, [Next]_vars PROVE TypeOK'
  OBVIOUS
<1> USE ConstantsAssumption
<1>1. ASSUME NEW a \in Apps, CreateApp(a) PROVE TypeOK'
  BY <1>1, StartedThread DEF CreateApp, TypeOK
<1>2. ASSUME NEW a \in Apps, EnsureLocalStarted(a) PROVE TypeOK'
  BY <1>2, StartedThread DEF EnsureLocalStarted, TypeOK
<1>3. ASSUME NEW a \in Apps, WatchdogRound(a) PROVE TypeOK'
  BY <1>3, StartedThread DEF WatchdogRound, TypeOK
<1>4. ASSUME NEW a \in Apps, StopSearxng(a) PROVE TypeOK'
  BY <1>4 DEF StopSearxng, Upset, TypeOK, Waiting
<1>5. ASSUME NEW a \in Apps, StopTerminate(a) PROVE TypeOK'
  BY <1>5, DeadProcess DEF StopTerminate, Signal, TypeOK, Waiting
<1>6. ASSUME NEW a \in Apps, StopWait(a) PROVE TypeOK'
  BY <1>6, DeadProcess DEF StopWait, Signal, TypeOK, Waiting
<1>7. ASSUME NEW a \in Apps, Exit(a) PROVE TypeOK'
  BY <1>7 DEF Exit, Vanish, TypeOK, Waiting
<1>8. ASSUME NEW a \in Apps, AppKilled(a) PROVE TypeOK'
  BY <1>8 DEF AppKilled, Vanish, Upset, TypeOK, Waiting
<1>9. ASSUME NEW t \in Threads, ProbeProxy(t) PROVE TypeOK'
  <2>1. \E step \in Steps : GoTo(t, step)
    BY <1>9 DEF ProbeProxy
  <2> QED
    BY <1>9, <2>1, FreshWait DEF ProbeProxy, GoTo, TypeOK
<1>10. ASSUME NEW t \in Threads, LaunchProxy(t) PROVE TypeOK'
  <2>1. CASE /\ \E p \in Procs : Popen(p, "proxy", home[t])
             /\ GoTo(t, "waitProxy")
             /\ UNCHANGED upsets
    <3>1. PICK p \in Procs : Popen(p, "proxy", home[t])
      BY <1>10, <2>1 DEF LaunchProxy, GoTo
    <3>2. UNCHANGED <<app, handle, watchdogs, home, upsets>>
      BY <1>10, <2>1 DEF LaunchProxy, GoTo
    <3> QED
      BY <2>1, <3>1, <3>2, FreshWait, LaunchedProcess DEF TypeOK
  <2>2. CASE Upset /\ GoTo(t, "probe") /\ UNCHANGED procVars
    <3>1. UNCHANGED <<app, handle, watchdogs, home>>
      BY <1>10, <2>2 DEF LaunchProxy, GoTo
    <3> QED
      BY <2>2, <3>1, FreshWait DEF Upset, TypeOK
  <2> QED
    BY <1>10, <2>1, <2>2 DEF LaunchProxy
<1>11. ASSUME NEW t \in Threads, WaitProxy(t) PROVE TypeOK'
  <2>1. CASE GoTo(t, "probe")
    BY <1>11, <2>1, FreshWait DEF WaitProxy, GoTo, TypeOK
  <2>2. CASE PollAgain(t) /\ polled[t] + 1 # Polls["proxy"]
    BY <1>11, <2>2 DEF WaitProxy, PollAgain, TypeOK, Waiting
  <2> QED
    BY <1>11, <2>1, <2>2 DEF WaitProxy
<1>12. ASSUME NEW t \in Threads, Probe(t) PROVE TypeOK'
  <2>1. CASE ProbeOpen(t)
    BY <1>12, <2>1, FinishedThread, CountedWatchdog DEF Probe, ProbeOpen, TypeOK
  <2>2. CASE ProbeClosed(t)
    BY <1>12, <2>2, FinishedThread, FreshWait DEF Probe, ProbeClosed, GoTo, TypeOK
  <2> QED
    BY <1>12, <2>1, <2>2 DEF Probe
<1>13. ASSUME NEW t \in Threads, Launch(t) PROVE TypeOK'
  <2>1. ASSUME NEW p \in Procs,
               Popen(p, "searxng", home[t]),
               handle' = [handle EXCEPT ![home[t]] = p],
               GoTo(t, "wait"), UNCHANGED upsets
        PROVE  TypeOK'
    <3>1. UNCHANGED <<app, watchdogs, home>>
      BY <1>13, <2>1 DEF Launch, GoTo
    <3> QED
      BY <2>1, <3>1, FreshWait, LaunchedProcess DEF TypeOK
  <2>2. CASE Upset /\ Finish(t) /\ UNCHANGED <<handle, procVars>>
    BY <1>13, <2>2, FinishedThread DEF Launch, Upset, TypeOK
  <2> QED
    BY <1>13, <2>1, <2>2 DEF Launch
<1>14. ASSUME NEW t \in Threads, Wait(t) PROVE TypeOK'
  <2>1. CASE Finish(t)
    BY <1>14, <2>1, FinishedThread, CountedWatchdog DEF Wait, PollAgain, TypeOK
  <2>2. CASE PollAgain(t) /\ polled[t] + 1 # Polls["searxng"] /\ UNCHANGED watchdogs
    BY <1>14, <2>2 DEF Wait, PollAgain, TypeOK, Waiting
  <2> QED
    BY <1>14, <2>1, <2>2 DEF Wait
<1>15. ASSUME NEW p \in Procs, Bind(p) PROVE TypeOK'
  BY <1>15, DeadProcess DEF Bind, TypeOK, Waiting
<1>16. ASSUME NEW p \in Procs, Crash(p) PROVE TypeOK'
  BY <1>16, DeadProcess DEF Crash, Upset, TypeOK, Waiting
<1>17. CASE UNCHANGED vars
  BY <1>17 DEF vars, TypeOK, Waiting
<1> QED
  BY <1>1, <1>2, <1>3, <1>4, <1>5, <1>6, <1>7, <1>8, <1>9, <1>10, <1>11, <1>12,
     <1>13, <1>14, <1>15, <1>16, <1>17 DEF Next, StartStep

(* Every variable keeps its type, and every wait has polls left: the two   *)
(* for loops of a start end after 15 and 60 polls.                         *)
THEOREM TypeCorrect == Spec => []TypeOK
<1>1. Init => TypeOK
  BY TypeInit
<1>2. TypeOK /\ [Next]_vars => TypeOK'
  BY TypeStep
<1> QED
  BY <1>1, <1>2, PTL DEF Spec
-----------------------------------------------------------------------------
(* The threads and the global of a process, and the subprocesses.          *)

\* The conjuncts are inductive together: a start thread writes the global of
\* the process it runs in, which must exist.
Ownership == ThreadsOfLiveApps /\ HandleIsOwn

LEMMA OwnershipInit == Init => Ownership
  BY DEF Init, Ownership, ThreadsOfLiveApps, HandleIsOwn

\* The end of a subprocess takes the globals that name it along.
LEMMA DeadKeepsHandles ==
    ASSUME TypeOK, HandleIsOwn, NEW p \in Procs, Die(p), UNCHANGED app
    PROVE  HandleIsOwn'
  BY ConstantsAssumption DEF TypeOK, HandleIsOwn, Die, Live

LEMMA OwnershipStep == TypeOK /\ Ownership /\ [Next]_vars => Ownership'
<1> SUFFICES ASSUME TypeOK, ThreadsOfLiveApps, HandleIsOwn, [Next]_vars
             PROVE  ThreadsOfLiveApps' /\ HandleIsOwn'
  BY DEF Ownership
<1> USE ConstantsAssumption
<1> USE DEF TypeOK
<1>1. ASSUME NEW a \in Apps, CreateApp(a) PROVE ThreadsOfLiveApps' /\ HandleIsOwn'
  BY <1>1 DEF CreateApp, StartSearxng, ThreadsOfLiveApps, HandleIsOwn, Live
<1>2. ASSUME NEW a \in Apps, EnsureLocalStarted(a) \/ WatchdogRound(a)
      PROVE  ThreadsOfLiveApps' /\ HandleIsOwn'
  BY <1>2 DEF EnsureLocalStarted, WatchdogRound, StartSearxng, ThreadsOfLiveApps, HandleIsOwn, Live
<1>3. ASSUME NEW a \in Apps, StopSearxng(a) PROVE ThreadsOfLiveApps' /\ HandleIsOwn'
  BY <1>3 DEF StopSearxng, ThreadsOfLiveApps, HandleIsOwn, Live
<1>4. ASSUME NEW a \in Apps, StopTerminate(a) \/ StopWait(a)
      PROVE  ThreadsOfLiveApps' /\ HandleIsOwn'
  <2>1. ThreadsOfLiveApps'
    BY <1>4 DEF StopTerminate, StopWait, ThreadsOfLiveApps
  <2>2. HandleIsOwn'
    BY <1>4 DEF StopTerminate, StopWait, Signal, Die, Live, HandleIsOwn
  <2> QED
    BY <2>1, <2>2
<1>5. ASSUME NEW a \in Apps, Exit(a) \/ AppKilled(a)
      PROVE  ThreadsOfLiveApps' /\ HandleIsOwn'
  <2>1. ThreadsOfLiveApps'
    BY <1>5 DEF Exit, AppKilled, Vanish, ThreadsOfLiveApps
  <2>2. HandleIsOwn'
    BY <1>5 DEF Exit, AppKilled, Vanish, Live, HandleIsOwn
  <2> QED
    BY <2>1, <2>2
<1>6. ASSUME NEW t \in Threads, ProbeProxy(t) \/ WaitProxy(t)
      PROVE  ThreadsOfLiveApps' /\ HandleIsOwn'
  BY <1>6 DEF ProbeProxy, WaitProxy, GoTo, PollAgain, ThreadsOfLiveApps, HandleIsOwn, Live
<1>7. ASSUME NEW t \in Threads, LaunchProxy(t) PROVE ThreadsOfLiveApps' /\ HandleIsOwn'
  <2>1. ThreadsOfLiveApps'
    BY <1>7 DEF LaunchProxy, GoTo, ThreadsOfLiveApps
  <2>2. HandleIsOwn'
    BY <1>7 DEF LaunchProxy, Popen, Live, HandleIsOwn
  <2> QED
    BY <2>1, <2>2
<1>8. ASSUME NEW t \in Threads, Probe(t) \/ Wait(t)
      PROVE  ThreadsOfLiveApps' /\ HandleIsOwn'
  <2>1. ThreadsOfLiveApps'
    BY <1>8 DEF Probe, ProbeOpen, ProbeClosed, Wait, GoTo, Finish, PollAgain,
                StartWatchdog, ThreadsOfLiveApps
  <2>2. HandleIsOwn'
    BY <1>8 DEF Probe, Wait, HandleIsOwn, Live
  <2> QED
    BY <2>1, <2>2
<1>9. ASSUME NEW t \in Threads, Launch(t) PROVE ThreadsOfLiveApps' /\ HandleIsOwn'
  <2>1. ThreadsOfLiveApps'
    BY <1>9 DEF Launch, GoTo, Finish, ThreadsOfLiveApps
  <2>2. home[t] \in Apps /\ app[home[t]] # "down"
    BY <1>9 DEF Launch, ThreadsOfLiveApps
  <2>3. HandleIsOwn'
    BY <1>9, <2>2 DEF Launch, Popen, Live, HandleIsOwn
  <2> QED
    BY <2>1, <2>3
<1>10. ASSUME NEW p \in Procs, Bind(p) PROVE ThreadsOfLiveApps' /\ HandleIsOwn'
  BY <1>10, DeadKeepsHandles DEF Bind, Live, ThreadsOfLiveApps, HandleIsOwn
<1>11. ASSUME NEW p \in Procs, Crash(p) PROVE ThreadsOfLiveApps' /\ HandleIsOwn'
  BY <1>11, DeadKeepsHandles DEF Crash, ThreadsOfLiveApps
<1>12. CASE UNCHANGED vars
  BY <1>12 DEF vars, ThreadsOfLiveApps, HandleIsOwn, Live
<1> QED
  BY <1>1, <1>2, <1>3, <1>4, <1>5, <1>6, <1>7, <1>8, <1>9, <1>10, <1>11, <1>12
     DEF Next, StartStep

(* Start threads and watchdogs run in processes that exist.                *)
THEOREM OwnershipHolds == Spec => [](ThreadsOfLiveApps /\ HandleIsOwn)
<1>1. Init => TypeOK /\ Ownership
  BY TypeInit, OwnershipInit
<1>2. TypeOK /\ Ownership /\ [Next]_vars => TypeOK' /\ Ownership'
  BY TypeStep, OwnershipStep
<1>3. Ownership => ThreadsOfLiveApps /\ HandleIsOwn
  BY DEF Ownership
<1> QED
  BY <1>1, <1>2, <1>3, PTL DEF Spec

(* The global of a process names only a live SearXNG that this very process *)
(* launched; that its threads die with it is why no other launch gets there. *)
THEOREM HandlesAreOwn == Spec => []HandleIsOwn
  BY OwnershipHolds, PTL

-----------------------------------------------------------------------------
(* A disabled process.                                                     *)

LEMMA DisabledStep == TypeOK /\ DisabledIsPassive /\ [Next]_vars => DisabledIsPassive'
<1> SUFFICES ASSUME TypeOK, DisabledIsPassive, [Next]_vars PROVE DisabledIsPassive'
  OBVIOUS
<1> USE ConstantsAssumption
<1> USE DEF TypeOK, DisabledIsPassive
<1>1. ASSUME NEW a \in Apps, CreateApp(a) \/ EnsureLocalStarted(a) \/ WatchdogRound(a)
      PROVE  DisabledIsPassive'
  BY <1>1 DEF CreateApp, EnsureLocalStarted, WatchdogRound, StartSearxng
<1>2. ASSUME NEW a \in Apps, StopSearxng(a) PROVE DisabledIsPassive'
  BY <1>2 DEF StopSearxng
<1>3. ASSUME NEW a \in Apps, StopTerminate(a) \/ StopWait(a) PROVE DisabledIsPassive'
  BY <1>3 DEF StopTerminate, StopWait, Signal, Die
<1>4. ASSUME NEW a \in Apps, Exit(a) \/ AppKilled(a) PROVE DisabledIsPassive'
  BY <1>4 DEF Exit, AppKilled, Vanish
<1>5. ASSUME NEW t \in Threads, ProbeProxy(t) \/ WaitProxy(t) PROVE DisabledIsPassive'
  BY <1>5 DEF ProbeProxy, WaitProxy, GoTo, PollAgain
<1>6. ASSUME NEW t \in Threads, LaunchProxy(t) PROVE DisabledIsPassive'
  BY <1>6 DEF LaunchProxy, Popen, GoTo
<1>7. ASSUME NEW t \in Threads, Probe(t) \/ Wait(t) PROVE DisabledIsPassive'
  BY <1>7 DEF Probe, ProbeOpen, ProbeClosed, Wait, GoTo, Finish, PollAgain, StartWatchdog
<1>8. ASSUME NEW t \in Threads, Launch(t) PROVE DisabledIsPassive'
  BY <1>8 DEF Launch, Popen, GoTo, Finish
<1>9. ASSUME NEW p \in Procs, Bind(p) \/ Crash(p) PROVE DisabledIsPassive'
  BY <1>9 DEF Bind, Crash, Die
<1>10. CASE UNCHANGED vars
  BY <1>10 DEF vars
<1> QED
  BY <1>1, <1>2, <1>3, <1>4, <1>5, <1>6, <1>7, <1>8, <1>9, <1>10 DEF Next, StartStep

(* SEARXNG_DISABLE_LOCAL_START holds on every path that asks for a start:  *)
(* boot, watchdog and request.                                             *)
THEOREM DisabledStaysPassive == Spec => []DisabledIsPassive
<1>1. Init => TypeOK /\ DisabledIsPassive
  BY TypeInit, ConstantsAssumption DEF Init, DisabledIsPassive
<1>2. TypeOK /\ DisabledIsPassive /\ [Next]_vars => TypeOK' /\ DisabledIsPassive'
  BY TypeStep, DisabledStep
<1> QED
  BY <1>1, <1>2, PTL DEF Spec

-----------------------------------------------------------------------------
(* What a step never does.                                                 *)

(* No step takes the last watchdog of a process away while it exists.      *)
THEOREM WatchdogsLast == Spec => SupervisionLasts
<1> DEFINE Lasts == \A a \in Apps :
                       watchdogs[a] > 0 /\ app'[a] # "down" => watchdogs'[a] > 0
<1>1. TypeOK /\ [Next]_vars => [Lasts]_vars
  <2> SUFFICES ASSUME TypeOK, Next, NEW b \in Apps,
                      watchdogs[b] > 0, app'[b] # "down"
               PROVE  watchdogs'[b] > 0
    OBVIOUS
  <2>1. ASSUME NEW a \in Apps, Vanish(a) PROVE watchdogs'[b] > 0
    BY <2>1 DEF Vanish, TypeOK
  <2>2. ASSUME NEW t \in Threads, StartWatchdog(home[t]) PROVE watchdogs'[b] > 0
    BY <2>2 DEF StartWatchdog, TypeOK
  <2>3. CASE UNCHANGED watchdogs
    BY <2>3
  <2> QED
    BY <2>1, <2>2, <2>3
       DEF Next, StartStep, CreateApp, EnsureLocalStarted, WatchdogRound, StopSearxng,
           StopTerminate, StopWait, Exit, AppKilled, ProbeProxy, LaunchProxy, WaitProxy,
           Probe, ProbeOpen, ProbeClosed, Launch, Wait, Bind, Crash
<1>2. Spec => []TypeOK
  BY TypeCorrect
<1> QED
  BY <1>1, <1>2, PTL DEF Spec, SupervisionLasts

(* A serving subprocess is stopped by its own process on its way out, or   *)
(* by a crash, and by nothing else: not by a second start, not by the exit *)
(* of another worker.                                                      *)
THEOREM ServingStays == Spec => ServingIsLeftAlone
<1> DEFINE Stays ==
      \A p \in Procs :
          status[p] = "serving" /\ status'[p] = "dead" =>
             \/ upsets' > upsets
             \/ app[owner[p]] = "stopping" /\ app'[owner[p]] = "waiting"
             \/ app[owner[p]] = "waiting" /\ app'[owner[p]] = "finalizing"
<1>1. TypeOK /\ HandleIsOwn /\ [Next]_vars => [Stays]_vars
  <2> SUFFICES ASSUME TypeOK, HandleIsOwn, Next, NEW p \in Procs,
                      status[p] = "serving", status'[p] = "dead"
               PROVE  \/ upsets' > upsets
                      \/ app[owner[p]] = "stopping" /\ app'[owner[p]] = "waiting"
                      \/ app[owner[p]] = "waiting" /\ app'[owner[p]] = "finalizing"
    OBVIOUS
  <2>1. ASSUME NEW a \in Apps, StopTerminate(a) \/ StopWait(a)
        PROVE  \/ app[owner[p]] = "stopping" /\ app'[owner[p]] = "waiting"
               \/ app[owner[p]] = "waiting" /\ app'[owner[p]] = "finalizing"
    <3>1. handle[a] = p
      BY <2>1 DEF StopTerminate, StopWait, Signal, Die, TypeOK
    <3>2. owner[p] = a
      BY <3>1, ConstantsAssumption DEF HandleIsOwn
    <3> QED
      BY <2>1, <3>2 DEF StopTerminate, StopWait, TypeOK
  <2>2. CASE UNCHANGED status
    BY <2>2
  <2>3. ASSUME NEW q \in Procs, Crash(q) PROVE upsets' > upsets
    BY <2>3 DEF Crash, Upset, TypeOK
  <2>4. ASSUME NEW q \in Procs, Bind(q) PROVE FALSE
    BY <2>4 DEF Bind, Die, TypeOK
  <2>5. ASSUME NEW q \in Procs, NEW s \in Services, NEW t \in Threads, Popen(q, s, home[t])
        PROVE  FALSE
    BY <2>5 DEF Popen, TypeOK
  <2> QED
    BY <2>1, <2>2, <2>3, <2>4, <2>5
       DEF Next, StartStep, CreateApp, EnsureLocalStarted, WatchdogRound, StopSearxng,
           Exit, AppKilled, ProbeProxy, LaunchProxy, WaitProxy, Probe, Launch, Wait
<1>2. Spec => [](TypeOK /\ HandleIsOwn)
  BY TypeCorrect, OwnershipHolds, PTL
<1> QED
  BY <1>1, <1>2, PTL DEF Spec, ServingIsLeftAlone
-----------------------------------------------------------------------------
(* Why a start ends.                                                       *)

\* The number of steps left, place by place.
RankIs(t) ==
    /\ pc[t] = "idle" => StartRank(t) = 0
    /\ pc[t] = "wait" => StartRank(t) = Polls["searxng"] - polled[t]
    /\ pc[t] = "launch" => StartRank(t) = Polls["searxng"] + 1
    /\ pc[t] = "probe" => StartRank(t) = Polls["searxng"] + 2
    /\ pc[t] = "waitProxy" => StartRank(t) = Polls["searxng"] + 2 + Polls["proxy"] - polled[t]
    /\ pc[t] = "launchProxy" => StartRank(t) = Polls["searxng"] + 3 + Polls["proxy"]
    /\ pc[t] = "probeProxy" => StartRank(t) = Polls["searxng"] + 4 + Polls["proxy"]

LEMMA RankAt == ASSUME TypeOK, NEW t \in Threads PROVE RankIs(t)
<1>1. Polls["searxng"] \in Nat /\ Polls["proxy"] \in Nat /\ polled[t] \in Nat
  BY ConstantsAssumption DEF TypeOK
<1> QED
  BY <1>1 DEF RankIs, StartRank

LEMMA RankAtNext == ASSUME TypeOK', NEW t \in Threads PROVE RankIs(t)'
<1>1. (TypeOK => RankIs(t))'
  BY RankAt, PTL
<1> QED
  BY <1>1

\* Where the thread of a start stands, after one of its steps.
LEMMA StepMoves ==
    ASSUME TypeOK, NEW t \in Threads, StartStep(t)
    PROVE  \/ pc'[t] = "idle" /\ pc[t] # "idle"
           \/ pc[t] = "probeProxy" /\ pc'[t] \in {"launchProxy", "probe"} /\ polled'[t] = 0
           \/ pc[t] = "launchProxy" /\ pc'[t] \in {"waitProxy", "probe"} /\ polled'[t] = 0
           \/ pc[t] = "waitProxy" /\ pc'[t] = "probe" /\ polled'[t] = 0
           \/ pc[t] = "probe" /\ pc'[t] = "launch" /\ polled'[t] = 0
           \/ pc[t] = "launch" /\ pc'[t] = "wait" /\ polled'[t] = 0
           \/ /\ pc[t] \in {"waitProxy", "wait"}
              /\ pc'[t] = pc[t] /\ polled'[t] = polled[t] + 1
<1> USE DEF TypeOK
<1>1. ProbeProxy(t) =>
         pc[t] = "probeProxy" /\ pc'[t] \in {"launchProxy", "probe"} /\ polled'[t] = 0
  BY DEF ProbeProxy, GoTo
<1>2. LaunchProxy(t) =>
         pc[t] = "launchProxy" /\ pc'[t] \in {"waitProxy", "probe"} /\ polled'[t] = 0
  BY DEF LaunchProxy, GoTo
<1>3. WaitProxy(t) =>
         /\ pc[t] = "waitProxy"
         /\ \/ pc'[t] = "probe" /\ polled'[t] = 0
            \/ pc'[t] = pc[t] /\ polled'[t] = polled[t] + 1
  BY DEF WaitProxy, GoTo, PollAgain
<1>4. Probe(t) =>
         /\ pc[t] = "probe"
         /\ \/ pc'[t] = "idle"
            \/ pc'[t] = "launch" /\ polled'[t] = 0
  BY DEF Probe, ProbeOpen, ProbeClosed, GoTo, Finish
<1>5. Launch(t) =>
         /\ pc[t] = "launch"
         /\ \/ pc'[t] = "idle"
            \/ pc'[t] = "wait" /\ polled'[t] = 0
  BY DEF Launch, GoTo, Finish
<1>6. Wait(t) =>
         /\ pc[t] = "wait"
         /\ \/ pc'[t] = "idle"
            \/ pc'[t] = pc[t] /\ polled'[t] = polled[t] + 1
  BY DEF Wait, Finish, PollAgain
<1> QED
  BY <1>1, <1>2, <1>3, <1>4, <1>5, <1>6 DEF StartStep

\* The step of a start leaves its thread fewer steps than it had.
LEMMA StepAdvances ==
    ASSUME TypeOK, TypeOK', NEW t \in Threads, StartStep(t)
    PROVE  StartRank(t)' \in Nat /\ StartRank(t)' < StartRank(t)
<1> DEFINE searxng == Polls["searxng"]
           proxy == Polls["proxy"]
           was == polled[t]
           is == polled'[t]
           from == pc[t]
           to == pc'[t]
           rank == StartRank(t)
           rankNext == StartRank(t)'
<1>1. /\ searxng \in Nat \ {0} /\ proxy \in Nat \ {0} /\ was \in Nat /\ is \in Nat
      /\ from \in Steps /\ to \in Steps
  BY ConstantsAssumption DEF TypeOK
<1>2. /\ was # 0 => \/ from = "waitProxy" /\ was < proxy
                    \/ from = "wait" /\ was < searxng
      /\ is # 0 => \/ to = "waitProxy" /\ is < proxy
                   \/ to = "wait" /\ is < searxng
  BY DEF TypeOK, Waiting
<1>3. /\ from = "wait" => rank = searxng - was
      /\ from = "launch" => rank = searxng + 1
      /\ from = "probe" => rank = searxng + 2
      /\ from = "waitProxy" => rank = searxng + 2 + proxy - was
      /\ from = "launchProxy" => rank = searxng + 3 + proxy
      /\ from = "probeProxy" => rank = searxng + 4 + proxy
  BY RankAt DEF RankIs
<1>4. /\ to = "idle" => rankNext = 0
      /\ to = "wait" => rankNext = searxng - is
      /\ to = "launch" => rankNext = searxng + 1
      /\ to = "probe" => rankNext = searxng + 2
      /\ to = "waitProxy" => rankNext = searxng + 2 + proxy - is
      /\ to = "launchProxy" => rankNext = searxng + 3 + proxy
  BY RankAtNext DEF RankIs
<1>5. \/ to = "idle" /\ from # "idle"
      \/ from = "probeProxy" /\ to \in {"launchProxy", "probe"} /\ is = 0
      \/ from = "launchProxy" /\ to \in {"waitProxy", "probe"} /\ is = 0
      \/ from = "waitProxy" /\ to = "probe" /\ is = 0
      \/ from = "probe" /\ to = "launch" /\ is = 0
      \/ from = "launch" /\ to = "wait" /\ is = 0
      \/ from \in {"waitProxy", "wait"} /\ to = from /\ is = was + 1
  BY StepMoves
<1> HIDE DEF searxng, proxy, was, is, from, to, rank, rankNext
<1>6. rankNext \in Nat /\ rankNext < rank
  BY <1>1, <1>2, <1>3, <1>4, <1>5
<1> QED
  BY <1>6 DEF rank, rankNext

\* A step of anything else leaves a start alone, or ends it with its process.
LEMMA OthersLeaveStarts ==
    ASSUME TypeOK, ThreadsOfLiveApps, [Next]_vars, NEW t \in Threads, pc[t] # "idle",
           ~StartStep(t)
    PROVE  pc'[t] = "idle" \/ (pc'[t] = pc[t] /\ polled'[t] = polled[t])
<1> USE DEF TypeOK
<1>1. ASSUME NEW a \in Apps, StartSearxng(a)
      PROVE  pc'[t] = pc[t] /\ polled'[t] = polled[t]
  BY <1>1 DEF StartSearxng
<1>2. ASSUME NEW a \in Apps, Vanish(a)
      PROVE  pc'[t] = "idle" \/ (pc'[t] = pc[t] /\ polled'[t] = polled[t])
  BY <1>2 DEF Vanish
<1>3. ASSUME NEW u \in Threads, StartStep(u)
      PROVE  pc'[t] = pc[t] /\ polled'[t] = polled[t]
  <2>1. u # t
    BY <1>3
  <2> QED
    BY <1>3, <2>1 DEF StartStep, ProbeProxy, LaunchProxy, WaitProxy, Probe, ProbeOpen,
                      ProbeClosed, Launch, Wait, GoTo, Finish, PollAgain
<1>4. CASE UNCHANGED threadVars
  BY <1>4
<1> QED
  BY <1>1, <1>2, <1>3, <1>4
     DEF Next, vars, CreateApp, EnsureLocalStarted, WatchdogRound, StopSearxng,
         StopTerminate, StopWait, Exit, AppKilled, Bind, Crash

(* Every step of a start thread leaves it fewer steps, and nobody gives it *)
(* any back, for any numbers of polls: a start ends, whatever the others   *)
(* do, as soon as its thread is scheduled.                                 *)
THEOREM StartsComeNearer == Spec => StartsAdvance
<1> DEFINE Advance ==
      \A t \in Threads :
          IF StartStep(t)
          THEN StartRank(t)' \in Nat /\ StartRank(t)' < StartRank(t)
          ELSE pc[t] # "idle" => StartRank(t)' \in {StartRank(t), 0}
<1>1. TypeOK /\ TypeOK' /\ ThreadsOfLiveApps /\ [Next]_vars => [Advance]_vars
  <2> SUFFICES ASSUME TypeOK, TypeOK', ThreadsOfLiveApps, [Next]_vars, NEW t \in Threads
               PROVE  IF StartStep(t)
                      THEN StartRank(t)' \in Nat /\ StartRank(t)' < StartRank(t)
                      ELSE pc[t] # "idle" => StartRank(t)' \in {StartRank(t), 0}
    OBVIOUS
  <2>1. CASE StartStep(t)
    BY <2>1, StepAdvances
  <2>2. CASE ~StartStep(t) /\ pc[t] # "idle"
    <3>1. RankIs(t) /\ RankIs(t)' /\ pc[t] \in Steps
      BY RankAt, RankAtNext DEF TypeOK
    <3>2. CASE pc'[t] = "idle"
      BY <2>2, <3>1, <3>2 DEF RankIs
    <3>3. CASE pc'[t] = pc[t] /\ polled'[t] = polled[t]
      BY <2>2, <3>1, <3>3 DEF RankIs
    <3> QED
      BY <2>2, <3>2, <3>3, OthersLeaveStarts
  <2> QED
    BY <2>1, <2>2
<1>2. Spec => [](TypeOK /\ ThreadsOfLiveApps)
  BY TypeCorrect, OwnershipHolds, PTL
<1> QED
  BY <1>1, <1>2, PTL DEF Spec, StartsAdvance
=============================================================================
