---------------------- MODULE MCD1RevisionCoordinator ----------------------
(* Small instances of D1RevisionCoordinator for TLC. *)
EXTENDS D1RevisionCoordinator, TLC

CONSTANTS c1, c2, t1, t2, t3, r1, r2, s1

MCCallers == {c1, c2}
MCTokens == {t1, t2, t3}
MCRevisions == {r1, r2}
MCStamps == {s1}
MCLeaseTtls == {1, 2}
MCFenceTtls == {2}

\* Callers, tokens and revisions are compared only for equality.
Symmetry == Permutations(MCCallers) \cup Permutations(MCTokens) \cup Permutations(MCRevisions)

=============================================================================
