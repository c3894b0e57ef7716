----------------------------- MODULE ToolDialogue -----------------------------
(* What the agentic endpoint promises: the model and the tools take turns. *)
(* The model is asked only while no call it made in this request waits for *)
(* its result, takes a bounded number of turns per request, and a request  *)
(* that fails leaves the client with the conversation it had.  Calls that  *)
(* a turn makes as it ends its request stay open: nothing runs them.       *)
EXTENDS Naturals

CONSTANTS
    Calls,      \* identities of tool calls
    Limit       \* the most turns the model takes in one request

VARIABLES
    turn,   \* whose turn it is: the client's, the model's or the tools'
    open,   \* the calls made in this request that have no result
    old,    \* those that had none when it was posted
    held,   \* those of the conversation the client holds
    left    \* turns the model may still take

vars == <<turn, open, old, held, left>>

Init ==
    /\ turn = "client"
    /\ open = {}
    /\ old = {}
    /\ held = {}
    /\ left = 0

(* The client goes on with the conversation it holds, or begins one.       *)
Ask ==
    /\ turn = "client"
    /\ turn' = "model"
    /\ old' \in {held, {}}
    /\ left' \in 0..Limit
    /\ UNCHANGED <<open, held>>

End ==
    /\ turn' = "client"
    /\ open' = {}
    /\ old' = {}
    /\ left' = 0

(* The model speaks, and calls tools or not.                               *)
Speak ==
    /\ turn = "model"
    /\ open = {}
    /\ left > 0
    /\ \/ /\ End
          /\ held' \in SUBSET Calls /\ old \subseteq held'
       \/ /\ turn' = "tools"
          /\ open' \in SUBSET (Calls \ old) /\ open' # {}
          /\ UNCHANGED <<old, held, left>>

(* One call gets its result.  After the last one the model's turn is over. *)
Use ==
    /\ turn = "tools"
    /\ \E c \in open : open' = open \ {c}
    /\ IF open' = {}
       THEN turn' = "model" /\ left' = left - 1
       ELSE UNCHANGED <<turn, left>>
    /\ UNCHANGED <<old, held>>

(* The model has no turn left: the client gets the conversation.           *)
Exhaust ==
    /\ turn = "model"
    /\ open = {}
    /\ left = 0
    /\ End
    /\ held' = old

Fail ==
    /\ turn # "client"
    /\ End
    /\ UNCHANGED held

Next == Ask \/ Speak \/ Use \/ Exhaust \/ Fail

Spec == Init /\ [][Next]_vars
=============================================================================
