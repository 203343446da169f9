--------------------------- MODULE MCPublication ---------------------------
(* Small instances of Publication for TLC. *)
EXTENDS Publication, TLC

CONSTANTS d1, d2

MCDrainers == {d1, d2}
MCRoutes == 1..2

\* An import changes a page and removes another; a mutation changes all.
MCMutations == {[all |-> FALSE, upsert |-> {1}, remove |-> {2}, import |-> TRUE],
              [all |-> TRUE, upsert |-> {}, remove |-> {}, import |-> FALSE]}

\* An import and a mutation that change one page each.
MCEdits == {[all |-> FALSE, upsert |-> {1}, remove |-> {}, import |-> TRUE],
            [all |-> FALSE, upsert |-> {2}, remove |-> {}, import |-> FALSE]}

\* Consumers are compared only for equality.
Symmetry == Permutations(MCDrainers)

=============================================================================
