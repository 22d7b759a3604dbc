--------------------------- MODULE MCMemoryLimits ---------------------------
(* TLC instance of MemoryLimits.  A megabyte is 1, so that the sizes are the  *)
(* numbers of megabytes the source writes.                                    *)
EXTENDS MemoryLimits

\* A failure, a device below the least threshold, the phone of the README, one whose
\* many pages may use more than 7 GB, and one above the 16 GB that raise the base.
MCHostInfos == {Failed} \cup { Answer(n) : n \in {1024, 3778, 12000, 16385} }

\* jetsam: a failure, the README's limit, none.
MCLimits == {Failed} \cup { Answer(n) : n \in {-1, 1408} }
=============================================================================
