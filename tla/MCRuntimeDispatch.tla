------------------------- MODULE MCRuntimeDispatch -------------------------
(* Small instances of RuntimeDispatch for TLC. *)
EXTENDS RuntimeDispatch

CONSTANTS d1, d2, p1, q1, k1, k2

MCDispatches == {d1, d2}
MCPublications == {d2}
MCPrincipals == {q1}
MCPrincipalOf == [d \in MCDispatches |-> q1]
MCProducers == {p1}

OneDispatch == {d2}
OnePublication == {d2}
OnePrincipalOf == [d \in OneDispatch |-> q1]

OneConsumer == {k1}
TwoConsumers == {k1, k2}

=============================================================================
