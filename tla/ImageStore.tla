------------------------------ MODULE ImageStore ------------------------------
(* The /placeholder route (core/routes/search.py) and install_image        *)
(* (core/services/image.py): request threads download candidate images to  *)
(* files named after their url and send the first one that is there.       *)
(*                                                                         *)
(* Threads share the directory and no lock.  A file is created under its   *)
(* final name and filled chunk by chunk, so its name, its inode and the    *)
(* descriptors of its writers are told apart: opening it again truncates   *)
(* the same inode under a writer, removing it leaves a writer an inode     *)
(* without a name.                                                         *)
EXTENDS Naturals, FiniteSets

CONSTANTS
    Threads,    \* request threads
    Urls,       \* image urls
    Inodes,     \* identities of files on disk
    None,       \* no file, no descriptor, no url
    Length,     \* Length[u]: the chunks of u's response
    MaxSize,    \* MAX_IMAGE_SIZE in chunks
    MaxCrashes  \* bound: how often the server process dies

ASSUME StoreAssumption ==
    /\ None \notin Inodes /\ None \notin Urls
    /\ Length \in [Urls -> Nat]
    /\ MaxSize \in Nat
    /\ MaxCrashes \in Nat

VARIABLES
    file,      \* file[u]: the inode under u's name in placeholders/
    content,   \* content[i]: the chunks of inode i that are written, the others are holes
    pc,        \* pc[t]: the next step of thread t
    todo,      \* todo[t]: the candidates not tried yet
    url,       \* url[t]: the candidate install_image works on
    fd,        \* fd[t]: the inode t writes to
    got,       \* got[t]: chunks received so far
    outcome,   \* outcome[t]: what the request is answered with
    crashes    \* crashes so far

fileVars == <<file, content>>
vars     == <<fileVars, pc, todo, url, fd, got, outcome, crashes>>

Steps == {"idle", "next", "exists", "get", "open", "write", "cleanup", "remove",
          "serve", "send", "done"}
Outcomes == {"pending", "complete", "partial", "fallback", "error"}

\* The chunks of an image that is stored in full.
Whole(u) == 1..Length[u]

Oversize(u) == Length[u] > MaxSize

TypeOK ==
    /\ file \in [Urls -> Inodes \cup {None}]
    /\ content \in [Inodes -> SUBSET (1..MaxSize)]
    /\ pc \in [Threads -> Steps]
    /\ todo \in [Threads -> SUBSET Urls]
    /\ url \in [Threads -> Urls \cup {None}]
    /\ fd \in [Threads -> Inodes \cup {None}]
    /\ got \in [Threads -> 0..MaxSize]
    /\ outcome \in [Threads -> Outcomes]
    /\ crashes \in 0..MaxCrashes

Init ==
    /\ file = [u \in Urls |-> None]
    /\ content = [i \in Inodes |-> {}]
    /\ pc = [t \in Threads |-> "idle"]
    /\ todo = [t \in Threads |-> {}]
    /\ url = [t \in Threads |-> None]
    /\ fd = [t \in Threads |-> None]
    /\ got = [t \in Threads |-> 0]
    /\ outcome = [t \in Threads |-> "pending"]
    /\ crashes = 0

-----------------------------------------------------------------------------
Goto(t, step) == pc' = [pc EXCEPT ![t] = step]

\* install_image is over, with a path or with None; its locals are gone.
Leave(t, step) ==
    /\ Goto(t, step)
    /\ fd' = [fd EXCEPT ![t] = None]
    /\ got' = [got EXCEPT ![t] = 0]

Finish(t, result) ==
    /\ outcome' = [outcome EXCEPT ![t] = result]
    /\ Leave(t, "done")

\* A request, with the urls the image search found.
Request(t, candidates) ==
    /\ pc[t] = "idle"
    /\ todo' = [todo EXCEPT ![t] = candidates]
    /\ Goto(t, "next")
    /\ UNCHANGED <<fileVars, url, fd, got, outcome, crashes>>

\* Mutant of NextCandidate: a candidate that failed is tried again.
NextCandidateAgain(t) ==
    /\ pc[t] = "next"
    /\ \/ /\ todo[t] = {}
          /\ Finish(t, "fallback")
          /\ UNCHANGED url
       \/ \E u \in todo[t] :
             /\ url' = [url EXCEPT ![t] = u]
             /\ Goto(t, "exists")
             /\ UNCHANGED <<fd, got, outcome>>
    /\ UNCHANGED <<fileVars, todo, crashes>>

(* The next candidate, or the fallback picture.  A url that is_safe_url    *)
(* refuses is skipped.                                                     *)
NextCandidate(t) ==
    /\ pc[t] = "next"
    /\ \/ /\ todo[t] = {}
          /\ Finish(t, "fallback")
          /\ UNCHANGED <<todo, url>>
       \/ \E u \in todo[t] :
             /\ todo' = [todo EXCEPT ![t] = @ \ {u}]
             /\ url' = [url EXCEPT ![t] = u]
             /\ \/ Goto(t, "exists")
                \/ Goto(t, "next")
             /\ UNCHANGED <<fd, got, outcome>>
    /\ UNCHANGED <<fileVars, crashes>>

\* os.path.exists: the file counts as downloaded as soon as it has its name.
Exists(t) ==
    /\ pc[t] = "exists"
    /\ Goto(t, IF file[url[t]] # None THEN "serve" ELSE "get")
    /\ UNCHANGED <<fileVars, todo, url, fd, got, outcome, crashes>>

\* The response's head: an image, something else, or an exception.
Get(t) ==
    /\ pc[t] = "get"
    /\ \E step \in {"open", "next", "cleanup"} : Goto(t, step)
    /\ UNCHANGED <<fileVars, todo, url, fd, got, outcome, crashes>>

\* open(filepath, "wb") creates the file or truncates the one that is there.
Open(t) ==
    /\ pc[t] = "open"
    /\ \E i \in Inodes :
          /\ IF file[url[t]] # None
             THEN i = file[url[t]]
             ELSE \A u \in Urls, s \in Threads : file[u] # i /\ fd[s] # i
          /\ file' = [file EXCEPT ![url[t]] = i]
          /\ content' = [content EXCEPT ![i] = {}]
          /\ fd' = [fd EXCEPT ![t] = i]
    /\ Goto(t, "write")
    /\ UNCHANGED <<todo, url, got, outcome, crashes>>

Unlink(u) == file' = [file EXCEPT ![u] = None]

\* The next chunk goes to the writer's own offset of the inode it opened.
WriteChunk(t) ==
    /\ pc[t] = "write" /\ got[t] < Length[url[t]] /\ got[t] < MaxSize
    /\ got' = [got EXCEPT ![t] = @ + 1]
    /\ content' = [content EXCEPT ![fd[t]] = @ \cup {got[t] + 1}]
    /\ UNCHANGED <<file, pc, todo, url, fd, outcome, crashes>>

\* Mutant of RejectOversize: the file is closed and stays.
RejectOversizeKeeps(t) ==
    /\ pc[t] = "write" /\ got[t] < Length[url[t]] /\ got[t] = MaxSize
    /\ Leave(t, "next")
    /\ UNCHANGED <<fileVars, todo, url, outcome, crashes>>

\* One chunk too many: the file is removed, and os.remove raises when it is gone.
RejectOversize(t) ==
    /\ pc[t] = "write" /\ got[t] < Length[url[t]] /\ got[t] = MaxSize
    /\ IF file[url[t]] # None
       THEN Unlink(url[t]) /\ Leave(t, "next")
       ELSE UNCHANGED file /\ Leave(t, "cleanup")
    /\ UNCHANGED <<content, todo, url, outcome, crashes>>

EndOfStream(t) ==
    /\ pc[t] = "write" /\ got[t] = Length[url[t]]
    /\ Leave(t, "serve")
    /\ UNCHANGED <<fileVars, todo, url, outcome, crashes>>

\* Mutant of StreamBreaks: the except branch does not clean up.
StreamBreaksKeeps(t) ==
    /\ pc[t] = "write"
    /\ Leave(t, "next")
    /\ UNCHANGED <<fileVars, todo, url, outcome, crashes>>

\* The connection breaks, or the disk is full.
StreamBreaks(t) ==
    /\ pc[t] = "write"
    /\ Leave(t, "cleanup")
    /\ UNCHANGED <<fileVars, todo, url, outcome, crashes>>

\* The except branch: what is under the name now goes, whoever wrote it.
Cleanup(t) ==
    /\ pc[t] = "cleanup"
    /\ Goto(t, IF file[url[t]] # None THEN "remove" ELSE "next")
    /\ UNCHANGED <<fileVars, todo, url, fd, got, outcome, crashes>>

\* os.remove raises out of install_image, and of the route, when the file is gone.
Remove(t) ==
    /\ pc[t] = "remove"
    /\ IF file[url[t]] # None
       THEN Unlink(url[t]) /\ Goto(t, "next") /\ UNCHANGED <<fd, got, outcome>>
       ELSE UNCHANGED file /\ Finish(t, "error")
    /\ UNCHANGED <<content, todo, url, crashes>>

\* The route has a path: it asks whether the file is there before it sends it.
Serve(t) ==
    /\ pc[t] = "serve"
    /\ Goto(t, IF file[url[t]] # None THEN "send" ELSE "next")
    /\ UNCHANGED <<fileVars, todo, url, fd, got, outcome, crashes>>

\* send_file opens the file and sends what it holds.
Send(t) ==
    /\ pc[t] = "send"
    /\ Finish(t, IF file[url[t]] = None THEN "error"
                 ELSE IF content[file[url[t]]] = Whole(url[t]) THEN "complete"
                 ELSE "partial")
    /\ UNCHANGED <<fileVars, todo, url, crashes>>

Done(t) ==
    /\ pc[t] = "done"
    /\ Goto(t, "idle")
    /\ todo' = [todo EXCEPT ![t] = {}]
    /\ url' = [url EXCEPT ![t] = None]
    /\ outcome' = [outcome EXCEPT ![t] = "pending"]
    /\ UNCHANGED <<fileVars, fd, got, crashes>>

\* The server dies and starts again; the directory is as it was.
Crash ==
    /\ crashes < MaxCrashes
    /\ crashes' = crashes + 1
    /\ pc' = [t \in Threads |-> "idle"]
    /\ todo' = [t \in Threads |-> {}]
    /\ url' = [t \in Threads |-> None]
    /\ fd' = [t \in Threads |-> None]
    /\ got' = [t \in Threads |-> 0]
    /\ outcome' = [t \in Threads |-> "pending"]
    /\ UNCHANGED fileVars

Step(t) ==
    \/ NextCandidate(t) \/ Exists(t) \/ Get(t) \/ Open(t) \/ WriteChunk(t)
    \/ RejectOversize(t) \/ EndOfStream(t) \/ StreamBreaks(t) \/ Cleanup(t)
    \/ Remove(t) \/ Serve(t) \/ Send(t) \/ Done(t)

Next ==
    \/ \E t \in Threads : Step(t) \/ \E c \in SUBSET Urls : Request(t, c)
    \/ Crash

Spec == Init /\ [][Next]_vars

\* A thread runs on: every wait for the network has a timeout.
FairSpec == Spec /\ \A t \in Threads : WF_vars(Step(t))

-----------------------------------------------------------------------------
(* Safety.                                                                 *)

(* The threads that may still complete or remove the file they opened.      *)
Busy(u) == {t \in Threads : url[t] = u /\ pc[t] \in {"write", "cleanup", "remove"}}

(* Writers truncate, overwrite and unlink each other's files; when all of   *)
(* them are done with an image, its file is whole or there is none, until   *)
(* the server dies for the first time.                                     *)
SettledFilesAreWhole ==
    \A u \in Urls :
        crashes = 0 /\ Busy(u) = {} /\ file[u] # None => content[file[u]] = Whole(u)

(* The name of one image never leads to the file of another, nor does a     *)
(* writer write into the file of another image than its own.               *)
FilesAreApart ==
    /\ \A u, v \in Urls : u # v /\ file[u] # None => file[u] # file[v]
    /\ \A t \in Threads, u \in Urls : fd[t] # None /\ file[u] = fd[t] => url[t] = u

(* Nothing above MAX_IMAGE_SIZE settles on the disk before the server dies   *)
(* for the first time, or is ever sent whole.                              *)
NothingOversizeStays ==
    /\ \A u \in Urls : crashes = 0 /\ Oversize(u) /\ file[u] # None => Busy(u) # {}
    /\ \A t \in Threads : outcome[t] = "complete" => ~Oversize(url[t])

-----------------------------------------------------------------------------
(* Liveness: every request is answered.                                    *)
RequestsEnd == \A t \in Threads : pc[t] = "next" ~> pc[t] = "idle"

(* The steps a thread has left at most before it takes the next candidate, *)
(* or answers: the steps of install_image in their order, and one for each *)
(* chunk up to the limit.                                                  *)
Rank(t) ==
    CASE pc[t] = "idle"               -> 0
      [] pc[t] = "done"               -> 1
      [] pc[t] = "next"               -> 2
      [] pc[t] \in {"send", "remove"} -> 3
      [] pc[t] \in {"serve", "cleanup"} -> 4
      [] pc[t] = "write"              -> 5 + MaxSize - got[t]
      [] pc[t] = "open"               -> 6 + MaxSize
      [] pc[t] = "get"                -> 7 + MaxSize
      [] pc[t] = "exists"             -> 8 + MaxSize

(* Why every request is answered: each step of its thread uses up a        *)
(* candidate, or brings it nearer to the end of the one it works on; the   *)
(* other threads, which remove and truncate its files, and the death of    *)
(* the server never put it back.                                           *)
ImagesAdvance ==
    [][\A t \in Threads :
          IF Step(t)
          THEN \/ todo'[t] \subseteq todo[t] /\ todo'[t] # todo[t]
               \/ /\ todo'[t] = todo[t]
                  /\ Rank(t)' \in Nat /\ Rank(t)' < Rank(t)
          ELSE pc[t] # "idle" =>
                  /\ todo'[t] \in {todo[t], {}}
                  /\ Rank(t)' \in {Rank(t), 0}]_vars

-----------------------------------------------------------------------------
(* What the documentation says and the code does not do.                   *)

(* install_image, image.py:66: "Download *url* to *base_dir* (if not        *)
(* already cached) and return the path": the path of a downloaded image.    *)
SentIsWhole == \A t \in Threads : outcome[t] # "partial"
=============================================================================
