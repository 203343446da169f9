------------------------ MODULE D1RevisionCoordinator ------------------------
(***************************************************************************)
(* The D1 revision coordinator of one site (every statement of             *)
(* d1-revision-coordinator.ts filters on site_id, so sites are independent)*)
(* and the workers calling it.                                             *)
(*                                                                         *)
(* A D1 statement, or a batch of them, is one atomic step of the database. *)
(* A worker evaluates Date.now() first and binds it into the statement, so *)
(* a call is two steps or more: Begin binds the time, the other actions are*)
(* the statements, and anything may happen in between.  Expiry is decided  *)
(* by the bound time, which may be older than the clock.                   *)
(***************************************************************************)
EXTENDS Naturals

CONSTANTS
    Callers,      \* requests, jobs and operators that call the coordinator
    Tokens,       \* crypto.randomUUID(): lease and fence tokens
    Revisions,    \* revision identifiers of canonical pointers
    Stamps,       \* the rest of a pointer: manifestKey and persistedAt
    None,         \* SQL NULL
    LeaseTtls,    \* lease durations callers ask for
    FenceTtls,    \* fence durations operators ask for
    MaxTime,      \* bound on the clock
    MaxVersion    \* bound on the version column

ASSUME NoneAssumption == None \notin Tokens \cup Revisions \cup [revision: Revisions, stamp: Stamps]
ASSUME TtlAssumption == LeaseTtls \subseteq Nat \ {0} /\ FenceTtls \subseteq Nat \ {0}
ASSUME BoundAssumption == MaxTime \in Nat /\ MaxVersion \in Nat

VARIABLES
    clock,        \* Date.now() of the workers
    pointer,      \* revision, manifest_key, persisted_at of the state row
    version,      \* version of the state row
    lease,        \* the four lease_* columns of the state row
    receipts,     \* wp_codebox_commits: version -> pointer
    fence,        \* the wp_codebox_fences row
    issued,       \* tokens already drawn
    held,         \* caller -> the RevisionLease it was given
    call          \* caller -> its call in progress

vars == <<clock, pointer, version, lease, receipts, fence, issued, held, call>>

Pointers == [revision: Revisions, stamp: Stamps]
Versions == 1..MaxVersion
Times == 0..MaxTime
Expiries == Nat

NoLease == [token |-> None, base |-> None, version |-> 0, expires |-> 0]
NoFence == [token |-> None, expires |-> 0]
NotHeld == [token |-> None, pointer |-> None, version |-> 0, expires |-> 0]
Idle    == [op |-> "idle", at |-> 0, token |-> None]
NoReceipts == [v \in Versions |-> None]

Operations ==
    {"acquire", "renew", "finish", "commit", "acquireFence", "renewFence", "releaseFence",
     "adopt", "reset"}

\* Where a call may stand: its first statement bound, or a later one of a call of several.
Steps == {"idle", "granted", "adopting"} \cup Operations

TypeOK ==
    /\ clock \in Times
    /\ pointer \in Pointers \cup {None}
    /\ version \in 0..MaxVersion
    /\ lease \in [token: Tokens \cup {None}, base: Revisions \cup {None},
                  version: 0..MaxVersion, expires: Expiries]
    /\ receipts \in [Versions -> Pointers \cup {None}]
    /\ fence \in [token: Tokens \cup {None}, expires: Expiries]
    /\ issued \in SUBSET Tokens
    /\ held \in [Callers -> [token: Tokens \cup {None}, pointer: Pointers \cup {None},
                             version: 0..MaxVersion, expires: Expiries]]
    /\ call \in [Callers -> [op: Steps, at: Times, token: Tokens \cup {None}]]

\* Seeded defect: the whole pointer stored as lease_base_revision.
WholePointer(p) == p

RevisionOf(p) == IF p = None THEN None ELSE p.revision

Init ==
    /\ clock = 0
    /\ pointer = None
    /\ version = 0
    /\ lease = NoLease
    /\ receipts = NoReceipts
    /\ fence = NoFence
    /\ issued = {}
    /\ held = [c \in Callers |-> NotHeld]
    /\ call = [c \in Callers |-> Idle]

(***************************************************************************)
(* The WHERE clauses the statements share.                                 *)
(***************************************************************************)

\* Seeded defect: a lease is taken over one tick before it expires.
LeaseFreeEarly(at) == lease.token = None \/ lease.expires <= at + 1

\* lease_token IS NULL OR lease_expires_at <= now
LeaseFree(at) == lease.token = None \/ lease.expires <= at

\* EXISTS (SELECT 1 FROM wp_codebox_fences WHERE expires_at > now)
FenceActive(at) == fence.token # None /\ fence.expires > at

\* lease_token = ? AND lease_expires_at > now
LeaseLive(token, at) == lease.token = token /\ lease.expires > at

\* token = ? AND expires_at > now
FenceLive(token, at) == fence.token = token /\ fence.expires > at

-----------------------------------------------------------------------------
(***************************************************************************)
(* Time and callers.                                                       *)
(***************************************************************************)

Tick ==
    /\ clock < MaxTime
    /\ clock' = clock + 1
    /\ UNCHANGED <<pointer, version, lease, receipts, fence, issued, held, call>>

\* The token an operation takes: a fence token is handed to the operator who asked for
\* the fence and stays good while its row does; an adoption may come without one.
TokensFor(op) ==
    CASE op \in {"renewFence", "releaseFence"} -> {fence.token}
      [] op = "adopt" -> {None, fence.token}
      [] OTHER -> {None}

\* A caller enters an operation and evaluates Date.now().  A caller that already
\* holds a lease does not acquire another; the lease operations take the lease they
\* were given, expired or not.
Begin(c, op) ==
    /\ call[c] = Idle
    /\ (op \in {"renew", "finish", "commit"}) <=> (held[c] # NotHeld)
    /\ \E t \in TokensFor(op) : call' = [call EXCEPT ![c] = [op |-> op, at |-> clock, token |-> t]]
    /\ UNCHANGED <<clock, pointer, version, lease, receipts, fence, issued, held>>

\* The worker is evicted or its request ends without a release: what it knew is lost.
Vanish(c) ==
    /\ call[c] # Idle \/ held[c] # NotHeld
    /\ call' = [call EXCEPT ![c] = Idle]
    /\ held' = [held EXCEPT ![c] = NotHeld]
    /\ UNCHANGED <<clock, pointer, version, lease, receipts, fence, issued>>

\* The call returns, with or without RevisionConflict.
Return(c) == call' = [call EXCEPT ![c] = Idle]

\* The statement matched no row: RevisionConflict, nothing written.
Conflict(c, op, matched) ==
    /\ call[c].op = op
    /\ ~matched
    /\ Return(c)
    /\ UNCHANGED <<clock, pointer, version, lease, receipts, fence, issued, held>>

-----------------------------------------------------------------------------
(***************************************************************************)
(* Leases.                                                                 *)
(***************************************************************************)

\* Seeded defect: the NOT EXISTS fence clause dropped.
CanAcquireUnfenced(at) == LeaseFree(at)

CanAcquire(at) == LeaseFree(at) /\ ~FenceActive(at)

\* beginStateLease, the UPDATE.
Acquire(c) ==
    /\ call[c].op = "acquire"
    /\ CanAcquire(call[c].at)
    /\ \E t \in Tokens \ issued, ttl \in LeaseTtls :
        /\ issued' = issued \cup {t}
        /\ lease' = [token |-> t, base |-> RevisionOf(pointer), version |-> version,
                     expires |-> call[c].at + ttl]
        /\ call' = [call EXCEPT ![c].op = "granted", ![c].token = t]
    /\ UNCHANGED <<clock, pointer, version, receipts, fence, held>>

\* beginStateLease, the row read back: the lease is the caller's only if the row still
\* carries its token.
ReadGrant(c) ==
    /\ call[c].op = "granted"
    /\ lease.token = call[c].token
    /\ held' = [held EXCEPT ![c] = [token |-> call[c].token, pointer |-> pointer,
                                    version |-> lease.version, expires |-> lease.expires]]
    /\ Return(c)
    /\ UNCHANGED <<clock, pointer, version, lease, receipts, fence, issued>>

GrantLost(c) == Conflict(c, "granted", lease.token = call[c].token)

\* renewStateLease.
CanRenew(token, at) == LeaseLive(token, at) /\ ~FenceActive(at)

Renew(c) ==
    /\ call[c].op = "renew"
    /\ CanRenew(held[c].token, call[c].at)
    /\ \E ttl \in LeaseTtls :
        /\ lease' = [lease EXCEPT !.expires = call[c].at + ttl]
        /\ held' = [held EXCEPT ![c].expires = call[c].at + ttl]
    /\ Return(c)
    /\ UNCHANGED <<clock, pointer, version, receipts, fence, issued>>

\* finishLease, for release and abort.  Callers drop the lease whatever the answer.
Finish(c) ==
    /\ call[c].op = "finish"
    /\ lease' = IF LeaseLive(held[c].token, call[c].at) THEN NoLease ELSE lease
    /\ held' = [held EXCEPT ![c] = NotHeld]
    /\ Return(c)
    /\ UNCHANGED <<clock, pointer, version, receipts, fence, issued>>

\* Seeded defect: the commit compares revisions only.
CanCommitByRevision(h, at) == RevisionOf(pointer) = RevisionOf(h.pointer)

\* commitStateLease: the first statement's WHERE clause.
CanCommit(h, at) ==
    /\ LeaseLive(h.token, at)
    /\ version = h.version
    /\ lease.version = h.version
    /\ RevisionOf(pointer) = RevisionOf(h.pointer)
    /\ lease.base = RevisionOf(h.pointer)

\* Seeded defect: the receipt is keyed by the version the lease was granted on.
AddReceiptAtBase(v, p) == [receipts EXCEPT ![IF v > 1 THEN v - 1 ELSE v] = p]

\* INSERT OR IGNORE: a receipt already there is kept.
AddReceipt(v, p) == IF receipts[v] = None THEN [receipts EXCEPT ![v] = p] ELSE receipts

\* commitStateLease, the batch that applies: promotion and receipt in one transaction.
Commit(c) ==
    /\ call[c].op = "commit"
    /\ CanCommit(held[c], call[c].at)
    /\ version < MaxVersion
    /\ \E p \in Pointers :
        /\ pointer' = p
        /\ receipts' = AddReceipt(version + 1, p)
    /\ version' = version + 1
    /\ lease' = NoLease
    /\ held' = [held EXCEPT ![c] = NotHeld]
    /\ Return(c)
    /\ UNCHANGED <<clock, fence, issued>>

-----------------------------------------------------------------------------
(***************************************************************************)
(* The cutover fence.                                                      *)
(***************************************************************************)

CanAcquireFence(at) == LeaseFree(at) /\ ~FenceActive(at)

\* acquireMutationFence: insert the row, or replace an expired one.
AcquireFence(c) ==
    /\ call[c].op = "acquireFence"
    /\ CanAcquireFence(call[c].at)
    /\ \E t \in Tokens \ issued, ttl \in FenceTtls :
        /\ issued' = issued \cup {t}
        /\ fence' = [token |-> t, expires |-> call[c].at + ttl]
    /\ Return(c)
    /\ UNCHANGED <<clock, pointer, version, lease, receipts, held>>

\* renewMutationFence.
RenewFence(c) ==
    /\ call[c].op = "renewFence"
    /\ FenceLive(call[c].token, call[c].at)
    /\ \E ttl \in FenceTtls : fence' = [fence EXCEPT !.expires = call[c].at + ttl]
    /\ Return(c)
    /\ UNCHANGED <<clock, pointer, version, lease, receipts, issued, held>>

\* releaseMutationFence deletes the row.
ReleaseFence(c) ==
    /\ call[c].op = "releaseFence"
    /\ FenceLive(call[c].token, call[c].at)
    /\ fence' = NoFence
    /\ Return(c)
    /\ UNCHANGED <<clock, pointer, version, lease, receipts, issued, held>>

-----------------------------------------------------------------------------
(***************************************************************************)
(* Adoption and reset.                                                     *)
(***************************************************************************)

\* adoptWordPressState up to its batch: the fence is read, at a time of its own, and an
\* active one must come with a token.
AdoptCheck(c) ==
    /\ call[c].op = "adopt"
    /\ FenceActive(clock) => call[c].token # None
    /\ call' = [call EXCEPT ![c].op = "adopting"]
    /\ UNCHANGED <<clock, pointer, version, lease, receipts, fence, issued, held>>

\* Refused: an active fence and no token, or requireFence and no active fence.
AdoptRefused(c) == Conflict(c, "adopt", FenceActive(clock) /\ call[c].token # None)

\* The batch's first statement: its WHERE clause, for pointer p as version v.
CanAdopt(p, v, token, at) ==
    /\ LeaseFree(at)
    /\ FenceActive(at) => FenceLive(token, at)
    /\ pointer = None \/ (version = v /\ pointer = p) \/ version < v
    /\ receipts[v] \in {None, p}

\* The batch: the pointer, its version and its receipt in one transaction, the lease
\* columns cleared.  The rows read back afterwards only decide the answer.
Adopt(c, p, v) ==
    /\ call[c].op = "adopting"
    /\ CanAdopt(p, v, call[c].token, call[c].at)
    /\ pointer' = p
    /\ version' = v
    /\ receipts' = AddReceipt(v, p)
    /\ lease' = NoLease
    /\ Return(c)
    /\ UNCHANGED <<clock, fence, issued, held>>

AdoptConflict(c, p, v) ==
    Conflict(c, "adopting", CanAdopt(p, v, call[c].token, call[c].at))

\* Seeded defect: reset does not wait for a live lease.
CanResetLeased(at) == ~FenceActive(at)

CanReset(at) == LeaseFree(at) /\ ~FenceActive(at)

\* resetWordPressState: both statements of the batch have the same condition, so the
\* receipts go exactly when the pointer does.
Reset(c) ==
    /\ call[c].op = "reset"
    /\ CanReset(call[c].at)
    /\ version < MaxVersion
    /\ pointer' = None
    /\ version' = version + 1
    /\ lease' = NoLease
    /\ receipts' = NoReceipts
    /\ Return(c)
    /\ UNCHANGED <<clock, fence, issued, held>>

-----------------------------------------------------------------------------

Refused(c) ==
    \/ Conflict(c, "acquire", CanAcquire(call[c].at))
    \/ GrantLost(c)
    \/ Conflict(c, "renew", CanRenew(held[c].token, call[c].at))
    \/ Conflict(c, "commit", CanCommit(held[c], call[c].at))
    \/ Conflict(c, "acquireFence", CanAcquireFence(call[c].at))
    \/ Conflict(c, "renewFence", FenceLive(call[c].token, call[c].at))
    \/ Conflict(c, "releaseFence", FenceLive(call[c].token, call[c].at))
    \/ Conflict(c, "reset", CanReset(call[c].at))
    \/ AdoptRefused(c)

Step(c) ==
    \/ \E op \in Operations : Begin(c, op)
    \/ Vanish(c)
    \/ Acquire(c) \/ ReadGrant(c) \/ Renew(c) \/ Finish(c) \/ Commit(c)
    \/ AcquireFence(c) \/ RenewFence(c) \/ ReleaseFence(c)
    \/ AdoptCheck(c)
    \/ \E p \in Pointers, v \in Versions : Adopt(c, p, v) \/ AdoptConflict(c, p, v)
    \/ Reset(c)
    \/ Refused(c)

Next == Tick \/ \E c \in Callers : Step(c)

Spec == Init /\ [][Next]_vars

-----------------------------------------------------------------------------
(***************************************************************************)
(* Properties.                                                             *)
(***************************************************************************)

\* The caller was given a lease that has not expired.
Live(c) == held[c] # NotHeld /\ held[c].expires > clock

\* At no time do two callers both hold a lease that, by the clock, is still good,
\* although expiry is decided with bound times that may be old.
\* (beginStateLease, renewStateLease)
ExclusiveWriter == \A c, d \in Callers : Live(c) /\ Live(d) => c = d

\* While a caller's lease is good nothing but its own commit changes the canonical
\* pointer, the version or a receipt: no commit, adoption or reset by another.
\* (commitStateLease, adoptWordPressState, resetWordPressState)
StableUnderLease ==
    [][<<pointer, version, receipts>>' # <<pointer, version, receipts>>
         => \A c \in Callers : Live(c) => held'[c] = NotHeld]_vars

\* The commit table is exactly the history behind the current pointer: nothing beyond
\* the current version (so no INSERT OR IGNORE of a commit is ever ignored, and a
\* refused commit has written nothing), the current version present as the current
\* pointer, and an empty site without receipts.
\* (commitStateLease, adoptWordPressState, resetWordPressState)
ReceiptsMatchHistory ==
    /\ \A v \in Versions : v > version => receipts[v] = None
    /\ pointer # None => version \in Versions /\ receipts[version] = pointer
    /\ pointer = None => receipts = NoReceipts

\* While a fence is active no lease is granted or extended, the site is not emptied,
\* and the canonical version moves only for a commit under a lease granted before or
\* for an adoption that carries the fence's token (README.md, Coordinator Cutover).
FenceRejects ==
    [][FenceActive(clock) =>
         /\ lease'.token \in {lease.token, None}
         /\ lease'.expires <= lease.expires
         /\ pointer' = None => pointer = None
         /\ version' # version =>
              \E c \in Callers :
                /\ call[c] # Idle /\ call'[c] = Idle
                /\ call[c].op = "commit" \/ call[c].token = fence.token]_vars

\* What a caller believes it holds, and the callers who are right.
Basis == [c \in Callers |->
            IF held[c] = NotHeld THEN None
            ELSE [version |-> held[c].version, pointer |-> held[c].pointer]]

Holders == {c \in Callers : held[c] # NotHeld /\ held[c].token = lease.token}

History == INSTANCE RevisionHistory
             WITH Writers <- Callers, basis <- Basis, holders <- Holders

\* Committing is compare-and-swap on the complete pointer and version the latest lease
\* was granted on, although the statement compares only version and revision, and a
\* lease that another caller has taken over never commits again.
\* (the RevisionCoordinator interface of revision-coordinator.ts)
LinearHistory == History!Spec

-----------------------------------------------------------------------------
(***************************************************************************)
(* The inductive invariant behind them.                                    *)
(***************************************************************************)

\* Bound times lie in the past.
CallsBound == \A c \in Callers : call[c].at <= clock

\* The lease columns are set and cleared together, and describe the current row.
LeaseRow ==
    /\ lease.token = None => lease = NoLease
    /\ lease.token # None => lease.version = version /\ lease.base = RevisionOf(pointer)

\* The lease token a caller knows: of a lease it holds, or is about to read back.
TokenOf(c) == IF call[c].op = "granted" THEN call[c].token ELSE held[c].token

\* Lease tokens come from one draw each and have one owner.
TokensOwned ==
    /\ lease.token \in issued \cup {None}
    /\ \A c \in Callers :
        /\ TokenOf(c) \in issued \cup {None}
        /\ call[c].op = "granted" => held[c] = NotHeld /\ call[c].token # None
        /\ call[c].op \in {"renew", "finish", "commit"} <=> (call[c] # Idle /\ held[c] # NotHeld)
        /\ held[c] # NotHeld => held[c].token # None
    /\ \A c, d \in Callers : TokenOf(c) = TokenOf(d) /\ TokenOf(c) # None => c = d

\* A lease whose token is still in the row is what the row says.
HeldMatchesRow ==
    \A c \in Callers : held[c] # NotHeld /\ lease.token = held[c].token =>
        /\ held[c].version = version
        /\ held[c].pointer = pointer
        /\ held[c].expires = lease.expires

\* A lease that is good by the clock is still in the row.
LiveLeaseInRow == \A c \in Callers : Live(c) => lease.token = held[c].token

\* The inductive invariant: ExclusiveWriter and ReceiptsMatchHistory follow from it.
IndInv ==
    /\ TypeOK
    /\ CallsBound
    /\ LeaseRow
    /\ TokensOwned
    /\ HeldMatchesRow
    /\ LiveLeaseInRow
    /\ ReceiptsMatchHistory

=============================================================================
