--------------------------- MODULE SearxngSupervisor ---------------------------
(***************************************************************************)
(* The lifecycle of the SearXNG subprocess and of its outgoing proxy       *)
(* (core/services/searxng.py), with the three places that ask for a start: *)
(* create_app, the watchdog threads, and a request that finds the local    *)
(* instance unreachable (search/results.py).                               *)
(*                                                                         *)
(* Several Flask processes share the two TCP ports: the reloader's parent  *)
(* and child, or the workers of a WSGI server.  Nothing but the ports is   *)
(* shared between them, and inside one process nothing is locked: a start  *)
(* probes the port, then launches a process, then polls the port.          *)
(***************************************************************************)
EXTENDS Naturals, FiniteSets

CONSTANTS
    Apps,           \* Flask processes
    Threads,        \* identities for "searxng-start" threads of all processes
    Procs,          \* identities for subprocesses of both kinds
    NoApp,          \* the owner of a thread that does not run
    NoProc,         \* _SEARXNG_PROC is None, or a process that ended
    DisableLocal,   \* the apps with SEARXNG_DISABLE_LOCAL_START in their environment
    Launchable,     \* the apps that find an interpreter and settings_local.yml
    Polls,          \* Polls[s]: how often a start polls the port of s (15 and 60 in the code)
    MaxWatchdogs,   \* bound: watchdog threads are counted up to this number
    MaxUpsets       \* bound: crashes, kills, shutdowns and failed launches

Services == {"proxy", "searxng"}

ASSUME ConstantsAssumption ==
    /\ NoApp \notin Apps
    /\ NoProc \notin Procs
    /\ DisableLocal \subseteq Apps
    /\ Launchable \subseteq Apps
    /\ Polls \in [Services -> Nat \ {0}]
    /\ MaxWatchdogs \in Nat \ {0}
    /\ MaxUpsets \in Nat

VARIABLES
    app,        \* app[a]: where the Flask process is in its life
    handle,     \* handle[a]: what _SEARXNG_PROC of a names, while poll() is None
    watchdogs,  \* watchdogs[a]: watchdog threads alive in a
    pc,         \* pc[t]: what the start thread t does next
    home,       \* home[t]: the process the thread t runs in
    polled,     \* polled[t]: polls made in the current wait
    status,     \* status[p]: the subprocess p, dead before its launch
    kind,       \* kind[p]: the service p runs, while it lives
    owner,      \* owner[p]: the process that launched p, while p lives
    upsets      \* disturbances so far

appVars    == <<app, handle, watchdogs>>
threadVars == <<pc, home, polled>>
procVars   == <<status, kind, owner>>
vars       == <<appVars, threadVars, procVars, upsets>>

AppStates  == {"down", "up", "stopping", "waiting", "finalizing"}
Steps      == {"idle", "probeProxy", "launchProxy", "waitProxy",
               "probe", "launch", "wait"}
ProcStates == {"dead", "booting", "serving"}

\* A wait has polls left: the for loops of the two waits end.
Waiting(t) ==
    \/ pc[t] = "waitProxy" /\ polled[t] < Polls["proxy"]
    \/ pc[t] = "wait" /\ polled[t] < Polls["searxng"]

TypeOK ==
    /\ app \in [Apps -> AppStates]
    /\ handle \in [Apps -> Procs \cup {NoProc}]
    /\ watchdogs \in [Apps -> 0..MaxWatchdogs]
    /\ pc \in [Threads -> Steps]
    /\ home \in [Threads -> Apps \cup {NoApp}]
    /\ polled \in [Threads -> Nat]
    /\ \A t \in Threads : polled[t] # 0 => Waiting(t)
    /\ status \in [Procs -> ProcStates]
    /\ kind \in [Procs -> Services \cup {"none"}]
    /\ owner \in [Procs -> Apps \cup {NoApp}]
    /\ upsets \in 0..MaxUpsets

-----------------------------------------------------------------------------
(* The ports.  One process listens on the port of a service at a time; a   *)
(* second one fails to bind and exits.                                     *)

Live(p) == status[p] # "dead"

PortOpen(s) == \E p \in Procs : status[p] = "serving" /\ kind[p] = s

LiveSearxng == {p \in Procs : Live(p) /\ kind[p] = "searxng"}

(* The end of the subprocess p.  Every use of _SEARXNG_PROC asks poll() or  *)
(* acts on a live process, so one that names a dead process is as None.    *)
Die(p) ==
    /\ status' = [status EXCEPT ![p] = "dead"]
    /\ kind' = [kind EXCEPT ![p] = "none"]
    /\ owner' = [owner EXCEPT ![p] = NoApp]
    /\ handle' = [a \in Apps |-> IF handle[a] = p THEN NoProc ELSE handle[a]]

Upset == upsets < MaxUpsets /\ upsets' = upsets + 1

-----------------------------------------------------------------------------
Init ==
    /\ app = [a \in Apps |-> "down"]
    /\ handle = [a \in Apps |-> NoProc]
    /\ watchdogs = [a \in Apps |-> 0]
    /\ pc = [t \in Threads |-> "idle"]
    /\ home = [t \in Threads |-> NoApp]
    /\ polled = [t \in Threads |-> 0]
    /\ status = [p \in Procs |-> "dead"]
    /\ kind = [p \in Procs |-> "none"]
    /\ owner = [p \in Procs |-> NoApp]
    /\ upsets = 0

(* start_searxng(): one new thread, unless the environment forbids it.  It *)
(* looks at SEARXNG_DISABLE_LOCAL_START only, and at no port.              *)
StartSearxng(a) ==
    IF a \in DisableLocal
    THEN UNCHANGED threadVars
    ELSE \E t \in Threads :
            /\ pc[t] = "idle"
            /\ pc' = [pc EXCEPT ![t] = "probeProxy"]
            /\ home' = [home EXCEPT ![t] = a]
            /\ polled' = [polled EXCEPT ![t] = 0]

\* create_app() of a process that starts, for the first time or again.
CreateApp(a) ==
    /\ app[a] = "down"
    /\ app' = [app EXCEPT ![a] = "up"]
    /\ StartSearxng(a)
    /\ UNCHANGED <<handle, watchdogs, procVars, upsets>>

(* _ensure_local_searxng_started() of one request.  Its health check fails *)
(* when the port is closed and also when a busy instance does not answer   *)
(* within 0.3 seconds, so it may fail at any time.                         *)
EnsureLocalStarted(a) ==
    /\ app[a] = "up"
    /\ StartSearxng(a)
    /\ UNCHANGED <<appVars, procVars, upsets>>

\* Mutant of WatchdogRound: the thread ends after it restarted SearXNG.
WatchdogRoundOnce(a) ==
    /\ app[a] # "down"
    /\ watchdogs[a] > 0
    /\ ~PortOpen("searxng")
    /\ StartSearxng(a)
    /\ watchdogs' = [watchdogs EXCEPT ![a] = @ - 1]
    /\ UNCHANGED <<app, handle, procVars, upsets>>

\* One round of the loop of _watch in any of a's watchdog threads.
WatchdogRound(a) ==
    /\ app[a] # "down"
    /\ watchdogs[a] > 0
    /\ ~PortOpen("searxng")
    /\ StartSearxng(a)
    /\ UNCHANGED <<appVars, procVars, upsets>>

-----------------------------------------------------------------------------
(* The steps of a start thread, _start_searxng_blocking(), which first     *)
(* runs _start_proxy_blocking().                                           *)

GoTo(t, step) ==
    /\ pc' = [pc EXCEPT ![t] = step]
    /\ polled' = [polled EXCEPT ![t] = 0]
    /\ UNCHANGED home

Finish(t) ==
    /\ pc' = [pc EXCEPT ![t] = "idle"]
    /\ polled' = [polled EXCEPT ![t] = 0]
    /\ home' = [home EXCEPT ![t] = NoApp]

PollAgain(t) ==
    /\ polled' = [polled EXCEPT ![t] = @ + 1]
    /\ UNCHANGED <<pc, home>>

\* _start_watchdog(): one more daemon thread, whatever runs already.
StartWatchdog(a) ==
    watchdogs' = [watchdogs EXCEPT ![a] = IF @ < MaxWatchdogs THEN @ + 1 ELSE @]

\* subprocess.Popen of the service s by the process a.
Popen(p, s, a) ==
    /\ ~Live(p)
    /\ status' = [status EXCEPT ![p] = "booting"]
    /\ kind' = [kind EXCEPT ![p] = s]
    /\ owner' = [owner EXCEPT ![p] = a]

ProbeProxy(t) ==
    /\ pc[t] = "probeProxy"
    /\ GoTo(t, IF PortOpen("proxy") THEN "probe" ELSE "launchProxy")
    /\ UNCHANGED <<appVars, procVars, upsets>>

\* Mutant of LaunchProxy: both services share one global.
LaunchProxyAsHandle(t) ==
    /\ pc[t] = "launchProxy"
    /\ \E p \in Procs :
          /\ Popen(p, "proxy", home[t])
          /\ handle' = [handle EXCEPT ![home[t]] = p]
    /\ GoTo(t, "waitProxy")
    /\ UNCHANGED <<app, watchdogs, upsets>>

LaunchProxy(t) ==
    /\ pc[t] = "launchProxy"
    /\ \/ /\ \E p \in Procs : Popen(p, "proxy", home[t])
          /\ GoTo(t, "waitProxy")
          /\ UNCHANGED upsets
       \/ /\ Upset                      \* Popen raises; the exception is printed
          /\ GoTo(t, "probe")
          /\ UNCHANGED procVars
    /\ UNCHANGED appVars

\* The proxy's start gives up silently: SearXNG is started all the same.
WaitProxy(t) ==
    /\ pc[t] = "waitProxy"
    /\ IF PortOpen("proxy") \/ polled[t] + 1 = Polls["proxy"]
       THEN GoTo(t, "probe")
       ELSE PollAgain(t)
    /\ UNCHANGED <<appVars, procVars, upsets>>

ProbeOpen(t) ==
    /\ PortOpen("searxng")
    /\ StartWatchdog(home[t])
    /\ Finish(t)

ProbeClosed(t) ==
    /\ ~PortOpen("searxng")
    /\ IF home[t] \in Launchable THEN GoTo(t, "launch") ELSE Finish(t)
    /\ UNCHANGED watchdogs

\* Mutant of Probe: the port is not probed before the launch.
ProbeIgnoresPort(t) ==
    /\ pc[t] = "probe"
    /\ IF home[t] \in Launchable THEN GoTo(t, "launch") ELSE Finish(t)
    /\ UNCHANGED <<appVars, procVars, upsets>>

Probe(t) ==
    /\ pc[t] = "probe"
    /\ ProbeOpen(t) \/ ProbeClosed(t)
    /\ UNCHANGED <<app, handle, procVars, upsets>>

\* Mutant of Launch: the process the global names is terminated first.
LaunchReplaces(t) ==
    /\ pc[t] = "launch"
    /\ \E p \in Procs :
          /\ ~Live(p)
          /\ status' = [q \in Procs |-> IF q = p THEN "booting"
                                       ELSE IF q = handle[home[t]] THEN "dead"
                                       ELSE status[q]]
          /\ kind' = [q \in Procs |-> IF q = p THEN "searxng"
                                     ELSE IF q = handle[home[t]] THEN "none"
                                     ELSE kind[q]]
          /\ owner' = [q \in Procs |-> IF q = p THEN home[t]
                                      ELSE IF q = handle[home[t]] THEN NoApp
                                      ELSE owner[q]]
          /\ handle' = [handle EXCEPT ![home[t]] = p]
    /\ GoTo(t, "wait")
    /\ UNCHANGED <<app, watchdogs, upsets>>

Launch(t) ==
    /\ pc[t] = "launch"
    /\ \/ /\ \E p \in Procs :
                /\ Popen(p, "searxng", home[t])
                /\ handle' = [handle EXCEPT ![home[t]] = p]
          /\ GoTo(t, "wait")
          /\ UNCHANGED upsets
       \/ /\ Upset
          /\ Finish(t)
          /\ UNCHANGED <<handle, procVars>>
    /\ UNCHANGED <<app, watchdogs>>

\* Mutant of Wait: while True instead of the 60 polls.
WaitForever(t) ==
    /\ pc[t] = "wait"
    /\ IF PortOpen("searxng")
       THEN StartWatchdog(home[t]) /\ Finish(t)
       ELSE UNCHANGED <<watchdogs, threadVars>>
    /\ UNCHANGED <<app, handle, procVars, upsets>>

(* The wait polls the port, not the process it launched: the port of a     *)
(* process launched by another start ends it as well.                      *)
Wait(t) ==
    /\ pc[t] = "wait"
    /\ IF PortOpen("searxng")
       THEN StartWatchdog(home[t]) /\ Finish(t)
       ELSE /\ IF polled[t] + 1 = Polls["searxng"] THEN Finish(t) ELSE PollAgain(t)
            /\ UNCHANGED watchdogs
    /\ UNCHANGED <<app, handle, procVars, upsets>>

StartStep(t) ==
    \/ ProbeProxy(t) \/ LaunchProxy(t) \/ WaitProxy(t)
    \/ Probe(t) \/ Launch(t) \/ Wait(t)

-----------------------------------------------------------------------------
(* The subprocesses, seen from the code that polls their ports.            *)

\* A booted process binds its port, or exits when another one holds it.
Bind(p) ==
    /\ status[p] = "booting"
    /\ IF PortOpen(kind[p])
       THEN Die(p)
       ELSE /\ status' = [status EXCEPT ![p] = "serving"]
            /\ UNCHANGED <<kind, owner, handle>>
    /\ UNCHANGED <<app, watchdogs, threadVars, upsets>>

Crash(p) ==
    /\ Live(p)
    /\ Upset
    /\ Die(p)
    /\ UNCHANGED <<app, watchdogs, threadVars>>

-----------------------------------------------------------------------------
(* The end of a Flask process.  The threads are daemons: they run on while *)
(* stop_searxng() does, and vanish with the process.  stop_searxng() reads *)
(* the global again at its poll(), its terminate() and its wait().         *)

\* terminate() or kill() of what the global names now.
Signal(a) ==
    IF handle[a] # NoProc
    THEN Die(handle[a])
    ELSE UNCHANGED <<handle, procVars>>

\* The process ends normally: atexit runs stop_searxng(), which asks poll().
StopSearxng(a) ==
    /\ app[a] = "up"
    /\ Upset
    /\ app' = [app EXCEPT ![a] = IF handle[a] # NoProc THEN "stopping" ELSE "finalizing"]
    /\ UNCHANGED <<handle, watchdogs, threadVars, procVars>>

StopTerminate(a) ==
    /\ app[a] = "stopping"
    /\ Signal(a)
    /\ app' = [app EXCEPT ![a] = "waiting"]
    /\ UNCHANGED <<watchdogs, threadVars, upsets>>

\* wait(timeout=5), and a kill() when what the global names lives on.
StopWait(a) ==
    /\ app[a] = "waiting"
    /\ Signal(a)
    /\ app' = [app EXCEPT ![a] = "finalizing"]
    /\ UNCHANGED <<watchdogs, threadVars, upsets>>

\* The process is gone, with its threads and its memory.
Vanish(a) ==
    /\ app' = [app EXCEPT ![a] = "down"]
    /\ handle' = [handle EXCEPT ![a] = NoProc]
    /\ watchdogs' = [watchdogs EXCEPT ![a] = 0]
    /\ pc' = [t \in Threads |-> IF home[t] = a THEN "idle" ELSE pc[t]]
    /\ polled' = [t \in Threads |-> IF home[t] = a THEN 0 ELSE polled[t]]
    /\ home' = [t \in Threads |-> IF home[t] = a THEN NoApp ELSE home[t]]

Exit(a) ==
    /\ app[a] = "finalizing"
    /\ Vanish(a)
    /\ UNCHANGED <<procVars, upsets>>

\* SIGKILL or a crash: atexit does not run.
AppKilled(a) ==
    /\ app[a] = "up"
    /\ Upset
    /\ Vanish(a)
    /\ UNCHANGED procVars

-----------------------------------------------------------------------------
Next ==
    \/ \E a \in Apps :
          \/ CreateApp(a) \/ EnsureLocalStarted(a) \/ WatchdogRound(a)
          \/ StopSearxng(a) \/ StopTerminate(a) \/ StopWait(a)
          \/ Exit(a) \/ AppKilled(a)
    \/ \E t \in Threads : StartStep(t)
    \/ \E p \in Procs : Bind(p) \/ Crash(p)

Spec == Init /\ [][Next]_vars

(* The scheduler runs every thread, a launched process boots, and a       *)
(* process that ends does end.  Nothing makes requests arrive, processes   *)
(* crash or apps start.  A watchdog's round is enabled only while a thread *)
(* identity is free, which the code does not need: hence SF.               *)
Fairness ==
    /\ \A t \in Threads : WF_vars(StartStep(t))
    /\ \A p \in Procs : WF_vars(Bind(p))
    /\ \A a \in Apps :
          /\ SF_vars(WatchdogRound(a))
          /\ WF_vars(StopTerminate(a)) /\ WF_vars(StopWait(a)) /\ WF_vars(Exit(a))

FairSpec == Spec /\ Fairness

-----------------------------------------------------------------------------
(* Safety.                                                                 *)

(* The global names only processes this very Flask process launched as    *)
(* SearXNG, and a process that ended names none: stop_searxng() can never  *)
(* stop the instance of another worker, nor the proxy.                     *)
HandleIsOwn ==
    \A a \in Apps :
        /\ app[a] = "down" => handle[a] = NoProc
        /\ handle[a] # NoProc =>
              /\ Live(handle[a])
              /\ owner[handle[a]] = a
              /\ kind[handle[a]] = "searxng"

(* A worker whose environment forbids the local start runs no start        *)
(* thread, no watchdog and no subprocess, whoever asks for a start.        *)
DisabledIsPassive ==
    \A a \in DisableLocal :
        /\ watchdogs[a] = 0
        /\ handle[a] = NoProc
        /\ \A t \in Threads : home[t] # a
        /\ \A p \in Procs : owner[p] # a

(* A thread runs in a process that exists: with its process it is gone, so *)
(* no start goes on, and no watchdog wakes, for a process that ended.      *)
ThreadsOfLiveApps ==
    /\ \A t \in Threads : pc[t] = "idle" <=> home[t] = NoApp
    /\ \A t \in Threads : home[t] # NoApp => app[home[t]] # "down"
    /\ \A a \in Apps : app[a] = "down" => watchdogs[a] = 0

(* Once a process supervises SearXNG it does so until it ends: no step of  *)
(* any thread takes a watchdog away.                                       *)
SupervisionLasts ==
    [][\A a \in Apps : watchdogs[a] > 0 /\ app'[a] # "down" => watchdogs'[a] > 0]_vars

(* A subprocess that serves is stopped by nobody but the process that     *)
(* launched it, on its way out, or by a crash: a start, a failed bind or a *)
(* watchdog never takes down the instance that answers requests.           *)
ServingIsLeftAlone ==
    [][\A p \in Procs :
          status[p] = "serving" /\ status'[p] = "dead" =>
             \/ upsets' > upsets
             \/ app[owner[p]] = "stopping" /\ app'[owner[p]] = "waiting"
             \/ app[owner[p]] = "waiting" /\ app'[owner[p]] = "finalizing"]_vars

-----------------------------------------------------------------------------
(* Liveness.                                                               *)

(* "Background thread that restarts SearXNG if it dies": with a watchdog   *)
(* alive, a closed port opens again, or the process ends.                  *)
SupervisedRecovers ==
    \A a \in Launchable :
        watchdogs[a] > 0 /\ ~PortOpen("searxng")
            ~> PortOpen("searxng") \/ app[a] # "up"

(* A start ends, however its probes, launches and waits turn out: the      *)
(* daemon threads that create_app, the watchdogs and the requests spawn do *)
(* not pile up.                                                            *)
StartsEnd == \A t \in Threads : pc[t] # "idle" ~> pc[t] = "idle"

(* How many steps the start t has left at most.  Its steps run once in     *)
(* this order; a wait runs once more for each of its polls.                *)
StartRank(t) ==
    LET searxng == Polls["searxng"]
        proxy == Polls["proxy"]
        after == [wait        |-> 0,
                  launch      |-> searxng,
                  probe       |-> searxng + 1,
                  waitProxy   |-> searxng + 2,
                  launchProxy |-> searxng + 2 + proxy,
                  probeProxy  |-> searxng + 3 + proxy]
        now == IF pc[t] = "wait" THEN searxng - polled[t]
               ELSE IF pc[t] = "waitProxy" THEN proxy - polled[t]
               ELSE 1
    IN  IF pc[t] = "idle" THEN 0 ELSE now + after[pc[t]]

(* Why a start ends: each step of its thread has fewer steps left, and no  *)
(* other step gives a running start any back; the process that ends takes  *)
(* its starts along.                                                       *)
StartsAdvance ==
    [][\A t \in Threads :
          IF StartStep(t)
          THEN StartRank(t)' \in Nat /\ StartRank(t)' < StartRank(t)
          ELSE pc[t] # "idle" => StartRank(t)' \in {StartRank(t), 0}]_vars

(* Two SearXNG processes can be launched at once, but when the disturbances *)
(* end the losers of the race for the port exit: at most one stays.        *)
DuplicatesDieOut == <>[](Cardinality(LiveSearxng) <= 1)

-----------------------------------------------------------------------------
(* What the documentation says and the code does not do.                   *)

(* core/__init__.py:38: the port check "guards against double-starts, so   *)
(* it's safe to call from both the reloader parent and child".             *)
NoDoubleStart == Cardinality(LiveSearxng) <= 1

(* stop_searxng, searxng.py:181: "Terminate the SearXNG subprocess on app  *)
(* shutdown".                                                              *)
StopTerminates ==
    [][\A a \in Apps :
          app[a] = "finalizing" /\ app'[a] = "down" =>
             \A p \in LiveSearxng : owner[p] # a]_vars
=============================================================================
