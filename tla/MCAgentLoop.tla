----------------------------- MODULE MCAgentLoop -----------------------------
(* Instances of AgentLoop for TLC.                                         *)
EXTENDS AgentLoop

\* A negative number of steps, none, some, and more than the limit.
MCAsked == {-1, 0, 1, 3}
=============================================================================
