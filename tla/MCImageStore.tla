----------------------------- MODULE MCImageStore -----------------------------
(* Instances of ImageStore for TLC.                                        *)
EXTENDS ImageStore, TLC

CONSTANTS u1, u2

\* An image within the limit of one chunk, and one that is a chunk too long.
MCTwoUrls == {u1, u2}
MCShortLengths == [u \in MCTwoUrls |-> IF u = u1 THEN 1 ELSE 2]

MCOneUrl == {u1}
MCWholeLength == [u \in MCOneUrl |-> 2]

Symmetry == Permutations(Threads) \cup Permutations(Inodes)
=============================================================================
