--------------------- MODULE MCStaticArtifactOperation ---------------------
(* Small instances of StaticArtifactOperation for TLC. *)
EXTENDS StaticArtifactOperation, TLC

CONSTANTS o1, w1, w2

MCOps == {o1}
MCWorkers == {w1, w2}

\* Consumers are compared only for equality.
Symmetry == Permutations(MCWorkers)

=============================================================================
