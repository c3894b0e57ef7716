------------------------- MODULE MCSearxngSupervisor -------------------------
(* Instances of SearxngSupervisor for TLC.                                 *)
EXTENDS SearxngSupervisor, TLC

\* The polls of a start, 15 and 60 in the code, shortened to their two kinds:
\* the last poll and one before it.
MCPolls == [s \in Services |-> IF s = "proxy" THEN 1 ELSE 2]

\* Identities of threads and of processes are interchangeable.
Symmetry == Permutations(Threads) \cup Permutations(Procs)

=============================================================================
