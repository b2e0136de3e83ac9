--------------------------- MODULE MCJobQueueCrash ---------------------------
(* Instances of JobQueueCrash for TLC. *)
EXTENDS JobQueueCrash, TLC
LOCAL INSTANCE FiniteSetsExt

Symmetry == Permutations(Jobs) \cup Permutations(Slots)

\* Two copies of a job can count its attempts past the limit without end; the
\* states in which the jobs together had more attempts than one of them may
\* have, and one extra, are not explored further.
FewAttempts ==
    MapThenSumSet(LAMBDA j : record[j].attempts, Jobs) <= MaxAttempts + 1

\* Two crashes, or one crash and one error, but not all three.
TwoFailures == crashes + faults <= 2
=============================================================================
