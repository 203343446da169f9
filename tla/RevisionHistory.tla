-------------------------- MODULE RevisionHistory --------------------------
(***************************************************************************)
(* What a canonical revision coordinator promises the WordPress worker,    *)
(* without tokens, clocks or fences: a versioned register changed by one   *)
(* writer at a time, who has seen exactly the value it replaces, and beside*)
(* it an immutable receipt for every version it ever held.  The contract is*)
(* the RevisionCoordinator interface of revision-coordinator.ts; the D1    *)
(* coordinator is shown to implement it, and the modules of the work done  *)
(* under a lease are built on it.                                          *)
(***************************************************************************)
EXTENDS Naturals

CONSTANTS
    Writers,      \* requests and jobs that may hold a lease
    Pointers,     \* pointers to an immutable canonical manifest
    None,         \* the absent pointer, token or lease
    MaxVersion    \* bound on the version counter

VARIABLES
    version,      \* the canonical version
    pointer,      \* the canonical pointer, None while the site is empty
    receipts,     \* version -> the pointer committed as that version, or None
    basis,        \* writer -> the value its lease was granted on, or None
    holders       \* the writers whose lease still counts, one at most

vars == <<version, pointer, receipts, basis, holders>>

Versions == 1..MaxVersion

Current == [version |-> version, pointer |-> pointer]

Init ==
    /\ version = 0
    /\ pointer = None
    /\ receipts = [v \in Versions |-> None]
    /\ basis = [w \in Writers |-> None]
    /\ holders = {}

\* A lease is granted: its holder knows the current value, and an older lease that was
\* not given back counts no more, although its holder may not know.
Grant(w) ==
    /\ basis' = [basis EXCEPT ![w] = Current]
    /\ holders' = {w}
    /\ UNCHANGED <<version, pointer, receipts>>

\* A lease ends without a commit.
Forget(w) ==
    /\ basis' = [basis EXCEPT ![w] = None]
    /\ holders' = holders \ {w}
    /\ UNCHANGED <<version, pointer, receipts>>

\* An overdue lease is taken from whoever has it.
Revoke ==
    /\ holders' = {}
    /\ UNCHANGED <<version, pointer, receipts, basis>>

\* The holder replaces exactly the value it was granted, as the next version,
\* and leaves a receipt where there was none.
Commit(w, p) ==
    /\ w \in holders
    /\ basis[w] = Current
    /\ version + 1 \in Versions
    /\ receipts[version + 1] = None
    /\ version' = version + 1
    /\ pointer' = p
    /\ receipts' = [receipts EXCEPT ![version + 1] = p]
    /\ basis' = [basis EXCEPT ![w] = None]
    /\ holders' = {}

\* A pointer and version exported by another coordinator are taken over: into
\* an empty site, or forward; a receipt is never replaced.
Adopt(p, v) ==
    /\ pointer = None \/ version < v
    /\ receipts[v] \in {None, p}
    /\ version' = v
    /\ pointer' = p
    /\ receipts' = [receipts EXCEPT ![v] = p]
    /\ holders' = {}
    /\ UNCHANGED basis

\* The site is emptied; the version moves on so that no old basis matches.
Reset ==
    /\ version' = version + 1
    /\ pointer' = None
    /\ receipts' = [v \in Versions |-> None]
    /\ holders' = {}
    /\ UNCHANGED basis

Next ==
    \/ \E w \in Writers : Grant(w) \/ Forget(w)
    \/ \E w \in Writers, p \in Pointers : Commit(w, p)
    \/ \E p \in Pointers, v \in Versions : Adopt(p, v)
    \/ Revoke \/ Reset

Spec == Init /\ [][Next]_vars

=============================================================================
