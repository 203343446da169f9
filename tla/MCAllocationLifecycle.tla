----------------------- MODULE MCAllocationLifecycle -----------------------
(* Small instances of AllocationLifecycle for TLC. *)
EXTENDS AllocationLifecycle, TLC

CONSTANTS c1, c2, r1, o1, o2

MCCrons == {c1, c2}
MCRequests == {r1}
MCKeys == 1..2
MCOps == {o1, o2}

\* Cron runs and operations are compared only for equality.
Symmetry == Permutations(MCCrons) \cup Permutations(MCOps)

=============================================================================
