--------------------------- MODULE ImageStoreProofs ---------------------------
(* What ImageStore promises for any number of request threads, images and  *)
(* files, any size limit and any lengths of the responses.                 *)
EXTENDS ImageStore, TLAPS

USE DEF Steps, Outcomes, fileVars

-----------------------------------------------------------------------------
(* The inductive invariant.                                                *)

\* The steps at which a thread works on a candidate.
Working == {"exists", "get", "open", "write", "cleanup", "remove", "serve", "send"}

\* A writer has an inode, within the length of its image; nobody else has one.
Descriptors ==
    \A t \in Threads :
        /\ pc[t] \in Working => url[t] \in Urls
        /\ pc[t] = "write" => fd[t] \in Inodes /\ got[t] <= Length[url[t]]
        /\ pc[t] # "write" => fd[t] = None /\ got[t] = 0

\* A file holds chunks of its own image only.
OwnChunks == \A u \in Urls : file[u] # None => content[file[u]] \subseteq Whole(u)

(* The thread t is going to make u's file whole or to remove it: it writes  *)
(* to that file and nothing it wrote was truncated, or it cleans up.       *)
Responsible(t, u) ==
    /\ url[t] = u
    /\ \/ pc[t] \in {"cleanup", "remove"}
       \/ pc[t] = "write" /\ fd[t] = file[u] /\ 1..got[t] \subseteq content[file[u]]

\* A file that is not whole is some thread's responsibility.
Accounted ==
    \A u \in Urls :
        file[u] # None =>
            content[file[u]] = Whole(u) \/ \E t \in Threads : Responsible(t, u)

Types == TypeOK /\ Descriptors
Inv == Types /\ FilesAreApart /\ OwnChunks

-----------------------------------------------------------------------------
LEMMA TypesInit == Init => Types
  BY StoreAssumption DEF Init, Types, TypeOK, Descriptors, Working

LEMMA InvInit == Init => Inv /\ Accounted
  BY TypesInit, StoreAssumption
     DEF Init, Inv, FilesAreApart, OwnChunks, Accounted

(* Types: one step per action.                                             *)
LEMMA TypesStep == Types /\ [Next]_vars => Types'
<1> SUFFICES ASSUME Types, [Next]_vars PROVE Types'
  OBVIOUS
<1> USE StoreAssumption DEF Types, TypeOK, Goto, Leave, Finish
<1>1. ASSUME NEW t \in Threads, NEW c \in SUBSET Urls, Request(t, c) PROVE Types'
  <2>1. TypeOK'
    BY <1>1 DEF Request
  <2>2. Descriptors'
    BY <1>1 DEF Request, Descriptors, Working
  <2> QED
    BY <2>1, <2>2
<1>2. ASSUME NEW t \in Threads, NextCandidate(t) PROVE Types'
  <2>1. TypeOK'
    BY <1>2 DEF NextCandidate
  <2>2. Descriptors'
    BY <1>2 DEF NextCandidate, Descriptors, Working
  <2> QED
    BY <2>1, <2>2
<1>3. ASSUME NEW t \in Threads, Exists(t) \/ Get(t) \/ Cleanup(t) \/ Serve(t) PROVE Types'
  <2>1. TypeOK'
    BY <1>3 DEF Exists, Get, Cleanup, Serve
  <2>2. Descriptors'
    BY <1>3 DEF Exists, Get, Cleanup, Serve, Descriptors, Working
  <2> QED
    BY <2>1, <2>2
<1>4. ASSUME NEW t \in Threads, Open(t) PROVE Types'
  <2>1. TypeOK'
    <3>1. PICK i \in Inodes :
             /\ file' = [file EXCEPT ![url[t]] = i]
             /\ content' = [content EXCEPT ![i] = {}]
             /\ fd' = [fd EXCEPT ![t] = i]
      BY <1>4 DEF Open
    <3>2. {} \in SUBSET (1..MaxSize)
      OBVIOUS
    <3>3. content' \in [Inodes -> SUBSET (1..MaxSize)]
      BY <3>1, <3>2
    <3>4. /\ file' \in [Urls -> Inodes \cup {None}]
          /\ fd' \in [Threads -> Inodes \cup {None}]
      BY <3>1
    <3> QED
      BY <1>4, <3>3, <3>4 DEF Open
  <2>2. Descriptors'
    BY <1>4 DEF Open, Descriptors, Working
  <2> QED
    BY <2>1, <2>2
<1>5. ASSUME NEW t \in Threads, WriteChunk(t) PROVE Types'
  <2>1. got[t] + 1 \in 1..MaxSize
    BY <1>5 DEF WriteChunk
  <2>2. TypeOK'
    <3>1. content[fd[t]] \cup {got[t] + 1} \in SUBSET (1..MaxSize)
      BY <1>5, <2>1 DEF WriteChunk, Descriptors
    <3>2. content' \in [Inodes -> SUBSET (1..MaxSize)]
      BY <1>5, <3>1 DEF WriteChunk
    <3>3. got' \in [Threads -> 0..MaxSize]
      BY <1>5, <2>1 DEF WriteChunk
    <3> QED
      BY <1>5, <3>2, <3>3 DEF WriteChunk
  <2>3. url[t] \in Urls /\ Length[url[t]] \in Nat
    BY <1>5 DEF WriteChunk, Descriptors, Working
  <2>4. Descriptors'
    BY <1>5, <2>3 DEF WriteChunk, Descriptors, Working
  <2> QED
    BY <2>2, <2>4
<1>6. ASSUME NEW t \in Threads, RejectOversize(t) \/ EndOfStream(t) \/ StreamBreaks(t)
      PROVE  Types'
  <2>1. TypeOK'
    BY <1>6 DEF RejectOversize, EndOfStream, StreamBreaks, Unlink
  <2>2. Descriptors'
    BY <1>6 DEF RejectOversize, EndOfStream, StreamBreaks, Unlink, Descriptors, Working
  <2> QED
    BY <2>1, <2>2
<1>7. ASSUME NEW t \in Threads, Remove(t) \/ Send(t) PROVE Types'
  <2>1. TypeOK'
    BY <1>7 DEF Remove, Send, Unlink
  <2>2. Descriptors'
    BY <1>7 DEF Remove, Send, Unlink, Descriptors, Working
  <2> QED
    BY <2>1, <2>2
<1>8. ASSUME NEW t \in Threads, Done(t) PROVE Types'
  <2>1. TypeOK'
    BY <1>8 DEF Done
  <2>2. Descriptors'
    BY <1>8 DEF Done, Descriptors, Working
  <2> QED
    BY <2>1, <2>2
<1>9. CASE Crash
  <2>1. TypeOK'
    BY <1>9 DEF Crash
  <2>2. Descriptors'
    BY <1>9 DEF Crash, Descriptors, Working
  <2> QED
    BY <2>1, <2>2
<1>10. CASE UNCHANGED vars
  BY <1>10 DEF vars, Descriptors, Working
<1> QED
  BY <1>1, <1>2, <1>3, <1>4, <1>5, <1>6, <1>7, <1>8, <1>9, <1>10 DEF Next, Step

-----------------------------------------------------------------------------
(* Files of different images are different, and hold only their own chunks. *)

(* An open takes the file under the name, or an inode that neither a name   *)
(* nor a descriptor leads to.                                              *)
LEMMA OpenApart ==
    ASSUME Inv, NEW t \in Threads, Open(t) PROVE FilesAreApart' /\ OwnChunks'
<1>1. url[t] \in Urls
  BY DEF Inv, Types, Descriptors, Working, Open
<1>2. PICK i \in Inodes :
         /\ IF file[url[t]] # None
            THEN i = file[url[t]]
            ELSE \A u \in Urls, s \in Threads : file[u] # i /\ fd[s] # i
         /\ file' = [file EXCEPT ![url[t]] = i]
         /\ content' = [content EXCEPT ![i] = {}]
         /\ fd' = [fd EXCEPT ![t] = i]
  BY DEF Open
<1>3. \A u \in Urls : u # url[t] => file[u] # i
  BY <1>1, <1>2, StoreAssumption DEF Inv, FilesAreApart
<1>4. \A s \in Threads : fd[s] = i => url[s] = url[t]
  BY <1>1, <1>2, StoreAssumption DEF Inv, FilesAreApart
<1>5. UNCHANGED url
  BY DEF Open
<1>6. FilesAreApart'
  BY <1>1, <1>2, <1>3, <1>4, <1>5 DEF Inv, Types, TypeOK, FilesAreApart
<1>7. OwnChunks'
  BY <1>1, <1>2, <1>3 DEF Inv, Types, TypeOK, OwnChunks
<1> QED
  BY <1>6, <1>7

\* A writer adds the next chunk of its image to the file it opened.
LEMMA WriteApart ==
    ASSUME Inv, NEW t \in Threads, WriteChunk(t) PROVE FilesAreApart' /\ OwnChunks'
<1>1. /\ url[t] \in Urls /\ fd[t] \in Inodes /\ got[t] \in Nat
      /\ got[t] < Length[url[t]] /\ Length[url[t]] \in Nat
      /\ content' = [content EXCEPT ![fd[t]] = content[fd[t]] \cup {got[t] + 1}]
      /\ UNCHANGED <<file, url, fd>>
  BY StoreAssumption DEF Inv, Types, TypeOK, Descriptors, Working, WriteChunk
<1>2. FilesAreApart'
  BY <1>1 DEF Inv, FilesAreApart
<1>3. got[t] + 1 \in Whole(url[t])
  BY <1>1 DEF Whole
<1>4. ASSUME NEW u \in Urls, file[u] # None PROVE content'[file[u]] \subseteq Whole(u)
  <2>1. content[file[u]] \subseteq Whole(u) /\ file[u] \in Inodes
    BY <1>4 DEF Inv, OwnChunks, Types, TypeOK
  <2>2. CASE file[u] = fd[t]
    <3>1. url[t] = u
      BY <1>1, <1>4, <2>2, StoreAssumption DEF Inv, FilesAreApart
    <3> QED
      BY <1>1, <1>3, <2>1, <2>2, <3>1 DEF Inv, Types, TypeOK
  <2>3. CASE file[u] # fd[t]
    BY <1>1, <2>1, <2>3 DEF Inv, Types, TypeOK
  <2> QED
    BY <2>2, <2>3
<1>5. OwnChunks'
  BY <1>1, <1>4 DEF OwnChunks
<1> QED
  BY <1>2, <1>5

\* Every other step takes names and descriptors away at most, and no candidate
\* changes while its file is written.
LEMMA OtherApart ==
    ASSUME Inv, UNCHANGED content,
           \A u \in Urls : file'[u] \in {file[u], None},
           \A t \in Threads : fd'[t] # None => fd'[t] = fd[t] /\ url'[t] = url[t]
    PROVE  FilesAreApart' /\ OwnChunks'
  BY DEF Inv, FilesAreApart, OwnChunks

LEMMA ApartStep == Inv /\ [Next]_vars => FilesAreApart' /\ OwnChunks'
<1> SUFFICES ASSUME Inv, [Next]_vars PROVE FilesAreApart' /\ OwnChunks'
  OBVIOUS
<1> USE DEF Inv, Types, TypeOK, Goto, Leave, Finish, Unlink
<1>1. ASSUME NEW t \in Threads, NEW c \in SUBSET Urls, Request(t, c)
      PROVE  FilesAreApart' /\ OwnChunks'
  BY <1>1, OtherApart DEF Request
<1>2. ASSUME NEW t \in Threads, NextCandidate(t) PROVE FilesAreApart' /\ OwnChunks'
  BY <1>2, OtherApart DEF NextCandidate, Descriptors
<1>3. ASSUME NEW t \in Threads, Exists(t) \/ Get(t) \/ Cleanup(t) \/ Serve(t)
      PROVE  FilesAreApart' /\ OwnChunks'
  BY <1>3, OtherApart DEF Exists, Get, Cleanup, Serve
<1>4. ASSUME NEW t \in Threads, RejectOversize(t) \/ EndOfStream(t) \/ StreamBreaks(t)
      PROVE  FilesAreApart' /\ OwnChunks'
  BY <1>4, OtherApart DEF RejectOversize, EndOfStream, StreamBreaks
<1>5. ASSUME NEW t \in Threads, Remove(t) \/ Send(t) PROVE FilesAreApart' /\ OwnChunks'
  BY <1>5, OtherApart DEF Remove, Send
<1>6. ASSUME NEW t \in Threads, Done(t) PROVE FilesAreApart' /\ OwnChunks'
  BY <1>6, OtherApart DEF Done, Descriptors
<1>7. CASE Crash
  BY <1>7, OtherApart DEF Crash
<1>8. CASE UNCHANGED vars
  BY <1>8, OtherApart DEF vars
<1> QED
  BY <1>1, <1>2, <1>3, <1>4, <1>5, <1>6, <1>7, <1>8, OpenApart, WriteApart DEF Next, Step

LEMMA InvStep == Inv /\ [Next]_vars => Inv'
  BY TypesStep, ApartStep DEF Inv

-----------------------------------------------------------------------------
(* Files that are not whole are accounted for while the server lives.      *)

\* A step that changes no file keeps the responsibilities, if it keeps those of t.
LEMMA AccountedFrame ==
    ASSUME Inv, Accounted, NEW t \in Threads, UNCHANGED <<file, content>>,
           \A s \in Threads \ {t} :
               pc'[s] = pc[s] /\ url'[s] = url[s] /\ fd'[s] = fd[s] /\ got'[s] = got[s],
           \A u \in Urls : Responsible(t, u) /\ file[u] # None =>
               content[file[u]] = Whole(u) \/ Responsible(t, u)'
    PROVE  Accounted'
<1> SUFFICES ASSUME NEW u \in Urls, file[u] # None, content[file[u]] # Whole(u)
             PROVE  \E s \in Threads : Responsible(s, u)'
  BY DEF Accounted
<1>1. PICK s \in Threads : Responsible(s, u)
  BY DEF Accounted
<1>2. Responsible(s, u)'
  BY <1>1 DEF Responsible
<1> QED
  BY <1>2

\* A thread that unlinks a file leaves it nothing to account for.
LEMMA AccountedUnlink ==
    ASSUME Inv, Accounted, NEW t \in Threads, Unlink(url[t]), UNCHANGED content,
           \A s \in Threads \ {t} :
               pc'[s] = pc[s] /\ url'[s] = url[s] /\ fd'[s] = fd[s] /\ got'[s] = got[s]
    PROVE  Accounted'
<1> SUFFICES ASSUME NEW u \in Urls, file'[u] # None, content'[file'[u]] # Whole(u)
             PROVE  \E s \in Threads : Responsible(s, u)'
  BY DEF Accounted, Whole
<1>1. file'[u] = file[u] /\ u # url[t]
  BY DEF Unlink, Inv, Types, TypeOK
<1>2. PICK s \in Threads : Responsible(s, u)
  BY <1>1 DEF Accounted
<1>3. s # t
  BY <1>1, <1>2 DEF Responsible
<1>4. Responsible(s, u)'
  BY <1>1, <1>2, <1>3 DEF Responsible
<1> QED
  BY <1>4

\* The last one to open a file is responsible for it.
LEMMA AccountedOpen ==
    ASSUME Inv, Accounted, NEW t \in Threads, Open(t) PROVE Accounted'
<1>1. url[t] \in Urls /\ got[t] = 0
  BY DEF Inv, Types, Descriptors, Working, Open
<1>2. PICK i \in Inodes :
         /\ IF file[url[t]] # None
            THEN i = file[url[t]]
            ELSE \A u \in Urls, s \in Threads : file[u] # i /\ fd[s] # i
         /\ file' = [file EXCEPT ![url[t]] = i]
         /\ content' = [content EXCEPT ![i] = {}]
         /\ fd' = [fd EXCEPT ![t] = i]
  BY DEF Open
<1>3. \A u \in Urls : u # url[t] => file[u] # i /\ file'[u] = file[u]
  BY <1>1, <1>2, StoreAssumption DEF Inv, FilesAreApart, Types, TypeOK
<1>4. pc' = [pc EXCEPT ![t] = "write"] /\ UNCHANGED <<url, got>>
  BY DEF Open, Goto
<1>5. Responsible(t, url[t])'
  <2>1. pc'[t] = "write" /\ fd'[t] = i /\ file'[url[t]] = i
    BY <1>1, <1>2, <1>4 DEF Inv, Types, TypeOK
  <2>2. 1..got'[t] = {}
    BY <1>1, <1>4
  <2> QED
    BY <1>4, <2>1, <2>2 DEF Responsible
<1>6. ASSUME NEW u \in Urls, u # url[t], file[u] # None, content'[file'[u]] # Whole(u)
      PROVE  \E s \in Threads : Responsible(s, u)'
  <2>1. content'[file'[u]] = content[file[u]]
    BY <1>2, <1>3, <1>6 DEF Inv, Types, TypeOK
  <2>2. PICK s \in Threads : Responsible(s, u)
    BY <1>6, <2>1 DEF Accounted
  <2>3. s # t
    BY <1>6, <2>2 DEF Responsible
  <2>4. pc'[s] = pc[s] /\ url'[s] = url[s] /\ fd'[s] = fd[s] /\ got'[s] = got[s]
    BY <1>2, <1>4, <2>3 DEF Inv, Types, TypeOK
  <2>5. Responsible(s, u)'
    BY <1>3, <1>6, <2>1, <2>2, <2>4 DEF Responsible
  <2> QED
    BY <2>5
<1> QED
  BY <1>3, <1>4, <1>5, <1>6 DEF Accounted, Whole

\* A chunk more: of the writer's own image, which is what its file may hold.
LEMMA AccountedWrite ==
    ASSUME Inv, Accounted, NEW t \in Threads, WriteChunk(t), OwnChunks' PROVE Accounted'
<1>1. /\ url[t] \in Urls /\ fd[t] \in Inodes /\ got[t] \in Nat
      /\ content' = [content EXCEPT ![fd[t]] = content[fd[t]] \cup {got[t] + 1}]
      /\ got' = [got EXCEPT ![t] = got[t] + 1]
      /\ UNCHANGED <<file, pc, url, fd>>
  BY DEF Inv, Types, TypeOK, Descriptors, Working, WriteChunk
<1>2. \A i \in Inodes : content[i] \subseteq content'[i]
  BY <1>1 DEF Inv, Types, TypeOK
<1> SUFFICES ASSUME NEW u \in Urls, file[u] # None, content'[file[u]] # Whole(u)
             PROVE  \E s \in Threads : Responsible(s, u)'
  BY <1>1 DEF Accounted, Whole
<1>3. file[u] \in Inodes
  BY DEF Inv, Types, TypeOK
<1>4. content[file[u]] # Whole(u)
  BY <1>1, <1>2, <1>3 DEF OwnChunks, Whole
<1>5. PICK s \in Threads : Responsible(s, u)
  BY <1>4 DEF Accounted
<1>6. CASE s = t
  <2>1. fd[t] = file[u] /\ 1..got[t] \subseteq content[file[u]]
    BY <1>5, <1>6 DEF Responsible, WriteChunk
  <2>2. got'[t] = got[t] + 1
    BY <1>1 DEF Inv, Types, TypeOK
  <2>3. got[t] + 1 \in content'[file[u]]
    BY <1>1, <2>1 DEF Inv, Types, TypeOK
  <2>4. 1..got'[t] \subseteq content'[file[u]]
    BY <1>1, <1>2, <1>3, <2>1, <2>2, <2>3
  <2> QED
    BY <1>1, <1>5, <1>6, <2>1, <2>4 DEF Responsible
<1>7. CASE s # t
  <2>1. got'[s] = got[s]
    BY <1>1, <1>7 DEF Inv, Types, TypeOK
  <2> QED
    BY <1>1, <1>2, <1>3, <1>5, <2>1 DEF Responsible
<1> QED
  BY <1>6, <1>7

\* A writer at the end of its stream has written all the chunks.
LEMMA AccountedEnd ==
    ASSUME Inv, Accounted, NEW t \in Threads, EndOfStream(t) PROVE Accounted'
<1>1. /\ url[t] \in Urls /\ got[t] = Length[url[t]] /\ pc[t] = "write"
      /\ UNCHANGED <<file, content, url>>
  BY DEF Inv, Types, Descriptors, Working, EndOfStream, fileVars
<1>2. \A s \in Threads \ {t} :
          pc'[s] = pc[s] /\ url'[s] = url[s] /\ fd'[s] = fd[s] /\ got'[s] = got[s]
  BY DEF EndOfStream, Leave, Goto, Inv, Types, TypeOK
<1>3. \A u \in Urls : Responsible(t, u) /\ file[u] # None => content[file[u]] = Whole(u)
  BY <1>1 DEF Responsible, Inv, OwnChunks, Whole
<1> QED
  BY <1>1, <1>2, <1>3, AccountedFrame

LEMMA AccountedStep ==
    Inv /\ (crashes = 0 => Accounted) /\ [Next]_vars => (crashes' = 0 => Accounted')
<1> SUFFICES ASSUME Inv, crashes = 0 => Accounted, [Next]_vars, crashes' = 0 PROVE Accounted'
  OBVIOUS
<1>0. crashes = 0 /\ ~Crash
  BY DEF Next, Step, Request, NextCandidate, Exists, Get, Open, WriteChunk, RejectOversize,
     EndOfStream, StreamBreaks, Cleanup, Remove, Serve, Send, Done, Crash, vars, Inv, Types, TypeOK
<1> Accounted
  BY <1>0
<1> USE DEF Goto, Leave, Finish
<1>1. ASSUME NEW t \in Threads, NEW c \in SUBSET Urls, Request(t, c) PROVE Accounted'
  BY <1>1, AccountedFrame DEF Request, Responsible, Inv, Types, TypeOK
<1>2. ASSUME NEW t \in Threads, NextCandidate(t) PROVE Accounted'
  BY <1>2, AccountedFrame DEF NextCandidate, Responsible, Inv, Types, TypeOK
<1>3. ASSUME NEW t \in Threads, Exists(t) \/ Get(t) \/ Serve(t) \/ Cleanup(t)
      PROVE  Accounted'
  BY <1>3, AccountedFrame DEF Exists, Get, Serve, Cleanup, Responsible, Inv, Types, TypeOK
<1>4. ASSUME NEW t \in Threads, RejectOversize(t) PROVE Accounted'
  <2>1. CASE file[url[t]] # None
    BY <1>4, <2>1, AccountedUnlink DEF RejectOversize, Inv, Types, TypeOK
  <2>2. CASE file[url[t]] = None
    BY <1>4, <2>2, AccountedFrame DEF RejectOversize, Responsible, Inv, Types, TypeOK
  <2> QED
    BY <2>1, <2>2
<1>5. ASSUME NEW t \in Threads, StreamBreaks(t) PROVE Accounted'
  BY <1>5, AccountedFrame DEF StreamBreaks, Responsible, Inv, Types, TypeOK
<1>6. ASSUME NEW t \in Threads, Remove(t) PROVE Accounted'
  <2>1. CASE file[url[t]] # None
    BY <1>6, <2>1, AccountedUnlink DEF Remove, Inv, Types, TypeOK
  <2>2. CASE file[url[t]] = None
    BY <1>6, <2>2, AccountedFrame DEF Remove, Responsible, Inv, Types, TypeOK
  <2> QED
    BY <2>1, <2>2
<1>7. ASSUME NEW t \in Threads, Send(t) \/ Done(t) PROVE Accounted'
  BY <1>7, AccountedFrame DEF Send, Done, Responsible, Inv, Types, TypeOK
<1>9. CASE UNCHANGED vars
  BY <1>9 DEF vars, Accounted, Responsible, Whole
<1>10. OwnChunks'
  BY InvStep DEF Inv
<1> QED
  BY <1>1, <1>2, <1>3, <1>4, <1>5, <1>6, <1>7, <1>0, <1>9, <1>10,
     AccountedOpen, AccountedWrite, AccountedEnd DEF Next, Step

-----------------------------------------------------------------------------
(* The theorems.                                                           *)

THEOREM InvHolds == Spec => []Inv
<1>1. Init => Inv
  BY InvInit
<1> QED
  BY <1>1, InvStep, PTL DEF Spec

(* No write ever passes MAX_IMAGE_SIZE, whoever writes to the same file.   *)
THEOREM TypeCorrect == Spec => []TypeOK
<1>1. Inv => TypeOK
  BY DEF Inv, Types
<1> QED
  BY <1>1, InvHolds, PTL

(* No request ever reads or writes the file of another image.              *)
THEOREM ApartHolds == Spec => []FilesAreApart
<1>1. Inv => FilesAreApart
  BY DEF Inv
<1> QED
  BY <1>1, InvHolds, PTL

(* Until the server dies, concurrent downloads of one image leave a whole   *)
(* file or none.                                                           *)
THEOREM SettledHolds == Spec => []SettledFilesAreWhole
<1>1. Init => Inv /\ (crashes = 0 => Accounted)
  BY InvInit
<1>2. Inv /\ (crashes = 0 => Accounted) /\ [Next]_vars => Inv' /\ (crashes = 0 => Accounted)'
  BY InvStep, AccountedStep
<1>3. (crashes = 0 => Accounted) => SettledFilesAreWhole
  BY DEF Accounted, Responsible, SettledFilesAreWhole, Busy
<1> QED
  BY <1>1, <1>2, <1>3, PTL DEF Spec

-----------------------------------------------------------------------------
(* What is sent whole fits the limit: only whole files make an outcome      *)
(* "complete", and it stands until the thread is done.                     *)
CompleteFits ==
    \A t \in Threads :
        outcome[t] = "complete" => pc[t] = "done" /\ ~Oversize(url[t])

LEMMA CompleteFitsFrame ==
    ASSUME Inv, CompleteFits, NEW t \in Threads,
           \A s \in Threads \ {t} :
               pc'[s] = pc[s] /\ url'[s] = url[s] /\ outcome'[s] = outcome[s],
           outcome'[t] = "complete" => pc'[t] = "done" /\ ~Oversize(url'[t])
    PROVE  CompleteFits'
  BY DEF CompleteFits, Oversize

LEMMA WholeFits ==
    ASSUME Inv, NEW u \in Urls, file[u] # None, content[file[u]] = Whole(u)
    PROVE  ~Oversize(u)
<1>1. Whole(u) \subseteq 1..MaxSize
  BY DEF Inv, Types, TypeOK
<1>2. Length[u] \in Nat /\ MaxSize \in Nat
  BY StoreAssumption
<1> QED
  BY <1>1, <1>2 DEF Whole, Oversize

LEMMA CompleteFitsStep == Inv /\ CompleteFits /\ [Next]_vars => CompleteFits'
<1> SUFFICES ASSUME Inv, CompleteFits, [Next]_vars PROVE CompleteFits'
  OBVIOUS
<1> USE DEF Goto, Leave, Finish
<1>1. ASSUME NEW t \in Threads, NEW c \in SUBSET Urls, Request(t, c) PROVE CompleteFits'
  BY <1>1, CompleteFitsFrame DEF Request, CompleteFits, Inv, Types, TypeOK
<1>2. ASSUME NEW t \in Threads, NextCandidate(t) PROVE CompleteFits'
  BY <1>2, CompleteFitsFrame DEF NextCandidate, CompleteFits, Inv, Types, TypeOK
<1>3. ASSUME NEW t \in Threads, Exists(t) \/ Get(t) \/ Open(t) \/ Serve(t)
      PROVE  CompleteFits'
  BY <1>3, CompleteFitsFrame DEF Exists, Get, Open, Serve, CompleteFits, Inv, Types, TypeOK
<1>4. ASSUME NEW t \in Threads, WriteChunk(t) \/ RejectOversize(t) \/ EndOfStream(t)
      PROVE  CompleteFits'
  BY <1>4, CompleteFitsFrame
     DEF WriteChunk, RejectOversize, EndOfStream, CompleteFits, Inv, Types, TypeOK
<1>5. ASSUME NEW t \in Threads, StreamBreaks(t) \/ Cleanup(t) PROVE CompleteFits'
  BY <1>5, CompleteFitsFrame DEF StreamBreaks, Cleanup, CompleteFits, Inv, Types, TypeOK
<1>6. ASSUME NEW t \in Threads, Remove(t) PROVE CompleteFits'
  BY <1>6, CompleteFitsFrame DEF Remove, CompleteFits, Inv, Types, TypeOK
<1>7. ASSUME NEW t \in Threads, Send(t) PROVE CompleteFits'
  <2>1. url[t] \in Urls
    BY <1>7 DEF Send, Inv, Types, Descriptors, Working
  <2>2. /\ pc'[t] = "done" /\ url'[t] = url[t]
        /\ outcome'[t] = "complete" =>
              file[url[t]] # None /\ content[file[url[t]]] = Whole(url[t])
    BY <1>7 DEF Send, Inv, Types, TypeOK
  <2>3. \A s \in Threads \ {t} :
            pc'[s] = pc[s] /\ url'[s] = url[s] /\ outcome'[s] = outcome[s]
    BY <1>7 DEF Send, Inv, Types, TypeOK
  <2> QED
    BY <2>1, <2>2, <2>3, WholeFits, CompleteFitsFrame
<1>8. ASSUME NEW t \in Threads, Done(t) PROVE CompleteFits'
  BY <1>8, CompleteFitsFrame DEF Done, CompleteFits, Inv, Types, TypeOK
<1>9. CASE Crash
  BY <1>9 DEF Crash, CompleteFits
<1>10. CASE UNCHANGED vars
  BY <1>10 DEF vars, CompleteFits, Oversize
<1> QED
  BY <1>1, <1>2, <1>3, <1>4, <1>5, <1>6, <1>7, <1>8, <1>9, <1>10 DEF Next, Step

(* Until the server dies nothing above MAX_IMAGE_SIZE settles on the disk;  *)
(* nothing above it is ever sent whole.                                    *)
THEOREM OversizeHolds == Spec => []NothingOversizeStays
<1> DEFINE Kept == crashes = 0 => Accounted
<1>1. Init => Inv /\ Kept /\ CompleteFits
  BY InvInit DEF Init, CompleteFits
<1>2. Inv /\ Kept /\ CompleteFits /\ [Next]_vars => Inv' /\ Kept' /\ CompleteFits'
  BY InvStep, AccountedStep, CompleteFitsStep
<1>3. Inv /\ Kept /\ CompleteFits => NothingOversizeStays
  <2> SUFFICES ASSUME Inv, Kept, CompleteFits PROVE NothingOversizeStays
    OBVIOUS
  <2>1. ASSUME crashes = 0, NEW u \in Urls, Oversize(u), file[u] # None PROVE Busy(u) # {}
    <3>1. PICK t \in Threads : Responsible(t, u)
      BY <2>1, WholeFits DEF Accounted
    <3>2. t \in Busy(u)
      BY <3>1 DEF Responsible, Busy
    <3> QED
      BY <3>2
  <2> QED
    BY <2>1 DEF NothingOversizeStays, CompleteFits
<1> HIDE DEF Kept
<1> QED
  BY <1>1, <1>2, <1>3, PTL DEF Spec
-----------------------------------------------------------------------------
(* Why a request is answered.                                              *)

\* The steps left, place by place.
RankIs(t) ==
    /\ pc[t] = "idle" => Rank(t) = 0
    /\ pc[t] = "done" => Rank(t) = 1
    /\ pc[t] = "next" => Rank(t) = 2
    /\ pc[t] \in {"send", "remove"} => Rank(t) = 3
    /\ pc[t] \in {"serve", "cleanup"} => Rank(t) = 4
    /\ pc[t] = "write" => Rank(t) = 5 + MaxSize - got[t]
    /\ pc[t] = "open" => Rank(t) = 6 + MaxSize
    /\ pc[t] = "get" => Rank(t) = 7 + MaxSize
    /\ pc[t] = "exists" => Rank(t) = 8 + MaxSize

LEMMA RankAt == ASSUME TypeOK, NEW t \in Threads PROVE RankIs(t)
<1>1. MaxSize \in Nat /\ got[t] \in 0..MaxSize
  BY StoreAssumption DEF TypeOK
<1> QED
  BY <1>1 DEF RankIs, Rank

LEMMA RankAtNext == ASSUME TypeOK', NEW t \in Threads PROVE RankIs(t)'
<1>1. (TypeOK => RankIs(t))'
  BY RankAt, PTL
<1> QED
  BY <1>1

\* The two ways in which a step of a thread brings it on.
Onward(t) ==
    \/ todo'[t] \subseteq todo[t] /\ todo'[t] # todo[t]
    \/ /\ todo'[t] = todo[t]
       /\ Rank(t)' \in Nat /\ Rank(t)' < Rank(t)

\* From place to place, with the same candidates left.
LEMMA PlacesDescend ==
    ASSUME TypeOK, TypeOK', NEW t \in Threads, todo'[t] = todo[t],
           \/ pc[t] = "done" /\ pc'[t] = "idle"
           \/ pc[t] = "next" /\ pc'[t] = "done"
           \/ pc[t] \in {"send", "remove"} /\ pc'[t] \in {"done", "next"}
           \/ pc[t] \in {"serve", "cleanup"} /\ pc'[t] \in {"send", "remove", "next"}
           \/ pc[t] = "write" /\ pc'[t] \in {"serve", "cleanup", "next"}
           \/ pc[t] = "write" /\ pc'[t] = "write" /\ got'[t] = got[t] + 1
           \/ pc[t] = "open" /\ pc'[t] = "write"
           \/ pc[t] = "get" /\ pc'[t] \in {"open", "next", "cleanup"}
           \/ pc[t] = "exists" /\ pc'[t] \in {"serve", "get"}
    PROVE  Onward(t)
<1> DEFINE was == got[t]
           is == got'[t]
           from == pc[t]
           to == pc'[t]
           rank == Rank(t)
           rankNext == Rank(t)'
<1>1. MaxSize \in Nat /\ was \in 0..MaxSize /\ is \in 0..MaxSize
  BY StoreAssumption DEF TypeOK
<1>2. /\ from = "done" => rank = 1
      /\ from = "next" => rank = 2
      /\ from \in {"send", "remove"} => rank = 3
      /\ from \in {"serve", "cleanup"} => rank = 4
      /\ from = "write" => rank = 5 + MaxSize - was
      /\ from = "open" => rank = 6 + MaxSize
      /\ from = "get" => rank = 7 + MaxSize
      /\ from = "exists" => rank = 8 + MaxSize
  BY RankAt DEF RankIs
<1>3. /\ to = "idle" => rankNext = 0
      /\ to = "done" => rankNext = 1
      /\ to = "next" => rankNext = 2
      /\ to \in {"send", "remove"} => rankNext = 3
      /\ to \in {"serve", "cleanup"} => rankNext = 4
      /\ to = "write" => rankNext = 5 + MaxSize - is
      /\ to = "open" => rankNext = 6 + MaxSize
      /\ to = "get" => rankNext = 7 + MaxSize
  BY RankAtNext DEF RankIs
<1>4. \/ from = "done" /\ to = "idle"
      \/ from = "next" /\ to = "done"
      \/ from \in {"send", "remove"} /\ to \in {"done", "next"}
      \/ from \in {"serve", "cleanup"} /\ to \in {"send", "remove", "next"}
      \/ from = "write" /\ to \in {"serve", "cleanup", "next"}
      \/ from = "write" /\ to = "write" /\ is = was + 1
      \/ from = "open" /\ to = "write"
      \/ from = "get" /\ to \in {"open", "next", "cleanup"}
      \/ from = "exists" /\ to \in {"serve", "get"}
  OBVIOUS
<1> HIDE DEF was, is, from, to, rank, rankNext
<1>5. rankNext \in Nat /\ rankNext < rank
  BY <1>1, <1>2, <1>3, <1>4
<1> QED
  BY <1>5 DEF rank, rankNext, Onward

LEMMA StepGoesOn == ASSUME TypeOK, TypeOK', NEW t \in Threads, Step(t) PROVE Onward(t)
<1> USE DEF TypeOK, Goto, Leave, Finish
<1>1. CASE NextCandidate(t)
  <2>1. CASE todo[t] = {} /\ pc'[t] = "done" /\ todo'[t] = todo[t]
    BY <1>1, <2>1, PlacesDescend DEF NextCandidate
  <2>2. ASSUME NEW u \in todo[t], todo' = [todo EXCEPT ![t] = todo[t] \ {u}]
        PROVE  Onward(t)
    <3>1. todo'[t] = todo[t] \ {u}
      BY <2>2
    <3>2. u \in todo[t] /\ u \notin todo'[t]
      BY <3>1
    <3> QED
      BY <3>1, <3>2 DEF Onward
  <2> QED
    BY <1>1, <2>1, <2>2 DEF NextCandidate
<1>2. CASE Exists(t)
  BY <1>2, PlacesDescend DEF Exists
<1>3. CASE Get(t)
  BY <1>3, PlacesDescend DEF Get
<1>4. CASE Open(t)
  BY <1>4, PlacesDescend DEF Open
<1>5. CASE WriteChunk(t)
  BY <1>5, PlacesDescend DEF WriteChunk
<1>6. CASE RejectOversize(t)
  BY <1>6, PlacesDescend DEF RejectOversize
<1>7. CASE EndOfStream(t)
  BY <1>7, PlacesDescend DEF EndOfStream
<1>8. CASE StreamBreaks(t)
  BY <1>8, PlacesDescend DEF StreamBreaks
<1>9. CASE Cleanup(t)
  BY <1>9, PlacesDescend DEF Cleanup
<1>10. CASE Remove(t)
  BY <1>10, PlacesDescend DEF Remove
<1>11. CASE Serve(t)
  BY <1>11, PlacesDescend DEF Serve
<1>12. CASE Send(t)
  BY <1>12, PlacesDescend DEF Send
<1>13. CASE Done(t)
  <2>1. pc[t] = "done" /\ pc'[t] = "idle" /\ todo'[t] = {}
    BY <1>13 DEF Done
  <2>2. CASE todo[t] = {}
    BY <2>1, <2>2, PlacesDescend
  <2>3. CASE todo[t] # {}
    BY <2>1, <2>3 DEF Onward
  <2> QED
    BY <2>2, <2>3
<1> QED
  BY <1>1, <1>2, <1>3, <1>4, <1>5, <1>6, <1>7, <1>8, <1>9, <1>10, <1>11, <1>12, <1>13
     DEF Step

\* The step of another thread, and the death of the server, seen by a thread.
LEMMA OthersLeaveThread ==
    ASSUME TypeOK, [Next]_vars, NEW t \in Threads, pc[t] # "idle", ~Step(t)
    PROVE  \/ pc'[t] = pc[t] /\ got'[t] = got[t] /\ todo'[t] = todo[t]
           \/ pc'[t] = "idle" /\ todo'[t] = {}
<1> USE DEF TypeOK, Goto, Leave, Finish
<1>1. ASSUME NEW s \in Threads, Step(s)
      PROVE  pc'[t] = pc[t] /\ got'[t] = got[t] /\ todo'[t] = todo[t]
  <2>1. s # t
    BY <1>1
  <2> QED
    BY <1>1, <2>1
       DEF Step, NextCandidate, Exists, Get, Open, WriteChunk, RejectOversize, EndOfStream,
           StreamBreaks, Cleanup, Remove, Serve, Send, Done
<1>2. ASSUME NEW s \in Threads, NEW c \in SUBSET Urls, Request(s, c)
      PROVE  pc'[t] = pc[t] /\ got'[t] = got[t] /\ todo'[t] = todo[t]
  BY <1>2 DEF Request
<1>3. CASE Crash
  BY <1>3 DEF Crash
<1>4. CASE UNCHANGED vars
  BY <1>4 DEF vars
<1> QED
  BY <1>1, <1>2, <1>3, <1>4 DEF Next

(* Every step of a request thread uses up a candidate or brings it nearer  *)
(* to the end of the one it works on, for any images and any size limit,   *)
(* and neither the threads that remove its files nor the death of the      *)
(* server put it back: every request is answered that is scheduled.        *)
THEOREM ImagesComeNearer == Spec => ImagesAdvance
<1> DEFINE Advance ==
      \A t \in Threads :
          IF Step(t)
          THEN \/ todo'[t] \subseteq todo[t] /\ todo'[t] # todo[t]
               \/ /\ todo'[t] = todo[t]
                  /\ Rank(t)' \in Nat /\ Rank(t)' < Rank(t)
          ELSE pc[t] # "idle" =>
                  /\ todo'[t] \in {todo[t], {}}
                  /\ Rank(t)' \in {Rank(t), 0}
<1>1. TypeOK /\ TypeOK' /\ [Next]_vars => [Advance]_vars
  <2> SUFFICES ASSUME TypeOK, TypeOK', [Next]_vars, NEW t \in Threads
               PROVE  IF Step(t)
                      THEN Onward(t)
                      ELSE pc[t] # "idle" =>
                              /\ todo'[t] \in {todo[t], {}}
                              /\ Rank(t)' \in {Rank(t), 0}
    BY DEF Onward
  <2>1. CASE Step(t)
    BY <2>1, StepGoesOn
  <2>2. CASE ~Step(t) /\ pc[t] # "idle"
    <3>1. RankIs(t) /\ RankIs(t)' /\ pc[t] \in Steps
      BY RankAt, RankAtNext DEF TypeOK
    <3>2. CASE pc'[t] = "idle" /\ todo'[t] = {}
      BY <2>2, <3>1, <3>2 DEF RankIs
    <3>3. CASE pc'[t] = pc[t] /\ got'[t] = got[t] /\ todo'[t] = todo[t]
      BY <2>2, <3>1, <3>3 DEF RankIs
    <3> QED
      BY <2>2, <3>2, <3>3, OthersLeaveThread
  <2> QED
    BY <2>1, <2>2
<1>2. Spec => []TypeOK
  BY TypeCorrect
<1> QED
  BY <1>1, <1>2, PTL DEF Spec, ImagesAdvance
=============================================================================
