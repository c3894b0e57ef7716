----------------------------- MODULE CachedSearch -----------------------------
(* What the callers of the search backend are promised of the cache: an    *)
(* answer is for the request, comes from the cache only while its entry is *)
(* fresh, and a response with results that a source gave is kept for the   *)
(* next one and reaches the caller as it is.  Who is asked, how often and  *)
(* in which order is not told here.                                        *)
EXTENDS Naturals

CONSTANTS
    Threads,
    Requests,
    To,         \* To[r]: the responses that answer the request r
    Full,       \* the responses that have results
    Ttl,        \* how long an entry is fresh
    None        \* no request, no entry and no response

VARIABLES
    now,
    cache,      \* the entries, by request
    phase,      \* how far a thread's request is
    asked,      \* the request
    since,      \* when it arrived
    offer,      \* the entry its thread found
    answer      \* what its caller is going to get

vars == <<now, cache, phase, asked, since, offer, answer>>

Init ==
    /\ now = 0
    /\ cache = <<>>
    /\ phase = [t \in Threads |-> "idle"]
    /\ asked = [t \in Threads |-> None]
    /\ since = [t \in Threads |-> 0]
    /\ offer = [t \in Threads |-> None]
    /\ answer = [t \in Threads |-> None]

Stale(entry) == now - entry.ts >= Ttl

Pass ==
    /\ now' = now + 1
    /\ UNCHANGED <<cache, phase, asked, since, offer, answer>>

Ask(t, r) ==
    /\ phase[t] = "idle"
    /\ phase' = [phase EXCEPT ![t] = "open"]
    /\ asked' = [asked EXCEPT ![t] = r]
    /\ since' = [since EXCEPT ![t] = now]
    /\ UNCHANGED <<now, cache, offer, answer>>

Look(t) ==
    /\ phase[t] = "open"
    /\ asked[t] \in DOMAIN cache
    /\ offer' = [offer EXCEPT ![t] = cache[asked[t]]]
    /\ UNCHANGED <<now, cache, phase, asked, since, answer>>

Choose(t, response, next) ==
    /\ answer' = [answer EXCEPT ![t] = response]
    /\ phase' = [phase EXCEPT ![t] = next]
    /\ UNCHANGED <<now, cache, asked, since, offer>>

Hit(t) ==
    /\ phase[t] = "open"
    /\ offer[t] # None
    /\ ~Stale(offer[t])
    /\ Choose(t, offer[t].data, "chosen")

(* The key of a stale offer is dropped, with what was stored since.        *)
Drop(t) ==
    /\ phase[t] = "open"
    /\ offer[t] # None
    /\ Stale(offer[t])
    /\ cache' = [k \in DOMAIN cache \ {asked[t]} |-> cache[k]]
    /\ offer' = [offer EXCEPT ![t] = None]
    /\ UNCHANGED <<now, phase, asked, since, answer>>

(* A source has results, which are kept; only stale entries make room.     *)
Find(t) ==
    /\ phase[t] = "open"
    /\ offer[t] = None
    /\ \E response \in To[asked[t]] \cap Full : Choose(t, response, "found")

Keep(t) ==
    /\ phase[t] = "found"
    /\ \E gone \in SUBSET {k \in DOMAIN cache : Stale(cache[k])} :
           cache' = [k \in (DOMAIN cache \ gone) \cup {asked[t]} |->
                        IF k = asked[t] THEN [data |-> answer[t], ts |-> now] ELSE cache[k]]
    /\ phase' = [phase EXCEPT ![t] = "chosen"]
    /\ UNCHANGED <<now, asked, since, offer, answer>>

(* No source has results.                                                  *)
GiveUp(t) ==
    /\ phase[t] = "open"
    /\ offer[t] = None
    /\ \E response \in (To[asked[t]] \ Full) \cup {None} : Choose(t, response, "chosen")

(* The caller gets it, or may look elsewhere for what has no results.      *)
Reply(t) ==
    /\ phase[t] = "chosen"
    /\ \/ Choose(t, answer[t], "done")
       \/ /\ answer[t] \notin Full
          /\ \E response \in To[asked[t]] \cup {None} : Choose(t, response, "done")

Leave(t) ==
    /\ phase[t] = "done"
    /\ phase' = [phase EXCEPT ![t] = "idle"]
    /\ asked' = [asked EXCEPT ![t] = None]
    /\ since' = [since EXCEPT ![t] = 0]
    /\ offer' = [offer EXCEPT ![t] = None]
    /\ answer' = [answer EXCEPT ![t] = None]
    /\ UNCHANGED <<now, cache>>

Next ==
    \/ Pass
    \/ \E t \in Threads :
           \/ \E r \in Requests : Ask(t, r)
           \/ Look(t) \/ Hit(t) \/ Drop(t) \/ Find(t) \/ Keep(t)
           \/ GiveUp(t) \/ Reply(t) \/ Leave(t)

Spec == Init /\ [][Next]_vars
=============================================================================
