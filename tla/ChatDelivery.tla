----------------------------- MODULE ChatDelivery -----------------------------
(* What the client of a streamed answer is promised, be it a completion of *)
(* /v1/chat/completions or an image of the image proxy: it gets no chunk *)
(* more than there are, it is told that the answer is whole only when it   *)
(* has all of it, and it may be cut off at any time.                       *)
EXTENDS Naturals

VARIABLES
    phase,  \* how far the client is: "idle", "open", "whole" or "cut"
    all,    \* chunks of the answer so far
    final,  \* the answer has no more of them
    out     \* chunks the client has

vars == <<phase, all, final, out>>

Init ==
    /\ phase = "idle"
    /\ all = 0
    /\ final = FALSE
    /\ out = 0

Ask ==
    /\ phase = "idle"
    /\ phase' = "open"
    /\ UNCHANGED <<all, final, out>>

(* The answer grows, or ends, also when its client is gone.                *)
Grow ==
    /\ phase \in {"open", "cut"}
    /\ ~final
    /\ \/ all' = all + 1 /\ UNCHANGED final
       \/ final' = TRUE /\ UNCHANGED all
    /\ UNCHANGED <<phase, out>>

Deliver ==
    /\ phase = "open"
    /\ out < all
    /\ out' = out + 1
    /\ UNCHANGED <<phase, all, final>>

(* The client knows that it has everything.                                *)
Complete ==
    /\ phase = "open"
    /\ final
    /\ phase' = "whole"
    /\ out' = all
    /\ UNCHANGED <<all, final>>

Cut ==
    /\ phase = "open"
    /\ phase' = "cut"
    /\ UNCHANGED <<all, final, out>>

Leave ==
    /\ phase \in {"whole", "cut"}
    /\ phase' = "idle"
    /\ all' = 0
    /\ final' = FALSE
    /\ out' = 0

Next == Ask \/ Grow \/ Deliver \/ Complete \/ Cut \/ Leave

Spec == Init /\ [][Next]_vars
=============================================================================
