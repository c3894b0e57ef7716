---------------------------- MODULE EngineSurvey ----------------------------
(***************************************************************************)
(* What a search promises its user about the engines it asked.  It ends    *)
(* its wait only when every engine has delivered, ended without a word, or *)
(* is told as missing, or was given up; from then on only those it gave up *)
(* may still touch what was collected, and what the user is shown of the   *)
(* engines no longer changes.  Nothing that was entered is lost.  How the  *)
(* engines' threads share the container is not told here.                  *)
(***************************************************************************)
EXTENDS Sequences

CONSTANTS
    Engines,
    Quiet,      \* the engines of which nothing is told
    Items,      \* what may be found
    Places      \* the places in the lists of what they found

VARIABLES
    stage,      \* how far the search is
    asked,      \* the engines that were asked; below they go by their index
    given,      \* those that were given up
    delivered,  \* those that delivered all they found
    silent,     \* those that ended without a word
    told,       \* the engines told to be missing
    entries,    \* who found an item, and where in its list
    before,     \* the entries when the wait ended
    page        \* the items that are shown

vars == <<stage, asked, given, delivered, silent, told, entries, before, page>>

Collected == {i \in Items : entries[i] # {}}

Init ==
    /\ stage = "idle"
    /\ asked = <<>>
    /\ given = {} /\ delivered = {} /\ silent = {} /\ told = {}
    /\ entries = [i \in Items |-> {}]
    /\ before = [i \in Items |-> {}]
    /\ page = {}

Begin ==
    /\ stage = "idle"
    /\ stage' \in {"choosing", "waiting"}
    /\ UNCHANGED <<asked, given, delivered, silent, told, entries, before, page>>

\* An engine is asked, or is told to be missing from the start.
Choose(e) ==
    /\ stage = "choosing"
    /\ \/ asked' = Append(asked, e) /\ UNCHANGED told
       \/ told' = told \cup {e} /\ UNCHANGED asked
    /\ UNCHANGED <<stage, given, delivered, silent, entries, before, page>>

Send ==
    /\ stage = "choosing"
    /\ stage' = "waiting"
    /\ UNCHANGED <<asked, given, delivered, silent, told, entries, before, page>>

\* Engine k may still do something: the search waits for it, or gave it up.
At(k) ==
    /\ k \in DOMAIN asked
    /\ \/ stage = "waiting"
       \/ stage \in {"ended", "scored", "shown", "failed"} /\ k \in given

Enter(k, i, p) ==
    /\ At(k)
    /\ k \notin delivered
    /\ entries' = [entries EXCEPT ![i] = @ \cup {<<k, p>>}]
    /\ UNCHANGED <<stage, asked, given, delivered, silent, told, before, page>>

Deliver(k) ==
    /\ At(k)
    /\ stage # "shown"
    /\ k \notin silent
    /\ delivered' = delivered \cup {k}
    /\ UNCHANGED <<stage, asked, given, silent, told, entries, before, page>>

SayNothing(k) ==
    /\ At(k)
    /\ k \notin delivered
    /\ silent' = silent \cup {k}
    /\ UNCHANGED <<stage, asked, given, delivered, told, entries, before, page>>

Tell(k) ==
    /\ At(k)
    /\ stage # "shown"
    /\ told' = told \cup ({asked[k]} \ Quiet)
    /\ UNCHANGED <<stage, asked, given, delivered, silent, entries, before, page>>

GiveUp(k) ==
    /\ stage = "waiting"
    /\ k \in DOMAIN asked
    /\ given' = given \cup {k}
    /\ told' = told \cup ({asked[k]} \ Quiet)
    /\ UNCHANGED <<stage, asked, delivered, silent, entries, before, page>>

Settled(k) == k \in delivered \cup silent \/ asked[k] \in told \cup Quiet

EndWait ==
    /\ stage = "waiting"
    /\ \A k \in DOMAIN asked : Settled(k)
    /\ stage' = "ended"
    /\ before' = entries
    /\ UNCHANGED <<asked, given, delivered, silent, told, entries, page>>

\* An item was found by an engine that had not found it before.
FoundAnew(i) ==
    \E entry \in entries[i] \ before[i] :
        \A known \in before[i] : asked[known[1]] # asked[entry[1]]

\* It may fail, but only when an engine that was given up found something meanwhile.
Score ==
    /\ stage = "ended"
    /\ \/ stage' = "scored"
       \/ stage' = "failed" /\ \E i \in Items : FoundAnew(i)
    /\ UNCHANGED <<asked, given, delivered, silent, told, entries, before, page>>

Show ==
    /\ stage = "scored"
    /\ stage' = "shown"
    /\ page' = Collected
    /\ UNCHANGED <<asked, given, delivered, silent, told, entries, before>>

Next ==
    \/ Begin \/ Send \/ EndWait \/ Score \/ Show
    \/ \E e \in Engines : Choose(e)
    \/ \E k \in DOMAIN asked :
           \/ Deliver(k) \/ SayNothing(k) \/ Tell(k) \/ GiveUp(k)
           \/ \E i \in Items, p \in Places : Enter(k, i, p)

Spec == Init /\ [][Next]_vars
=============================================================================
