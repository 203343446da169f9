--------------------------- MODULE StateCoordinator ---------------------------
(***************************************************************************)
(* The Durable Object revision coordinator of one site,                    *)
(* WordPressStateCoordinator of state-coordinator.ts, and the workers      *)
(* calling it.                                                             *)
(*                                                                         *)
(* fetch() chains every request behind the previous one, so a handler runs *)
(* alone; the model runs a handler in one step unless it awaits R2 between *)
(* two durable writes, as commit and reset do.  The object may be evicted  *)
(* at any point and loses the handler, not its storage; a reply may be     *)
(* lost, so that its caller never learns what the handler did.             *)
(***************************************************************************)
EXTENDS Naturals

CONSTANTS
    Callers,      \* requests and operators that call the coordinator
    Tokens,       \* crypto.randomUUID(): lease and fence tokens
    Revisions,    \* revision identifiers of canonical pointers
    Stamps,       \* the rest of a pointer: manifestKey and persistedAt
    None,         \* null and undefined
    LeaseTtls,    \* lease durations callers ask for
    FenceTtls,    \* fence durations operators ask for
    MaxTime,      \* bound on the clock
    MaxVersion    \* bound on the version

ASSUME TtlAssumption == LeaseTtls \subseteq Nat \ {0} /\ FenceTtls \subseteq Nat \ {0}
ASSUME BoundAssumption == MaxTime \in Nat /\ MaxVersion \in Nat

VARIABLES
    clock,        \* Date.now()
    stored,       \* the record under STORAGE_KEY, None when there is none
    receipts,     \* wordpress-state-commit/<version> -> pointer
    current,      \* markdown/current.json in R2
    handler,      \* the handler awaiting R2 between its durable writes, or None
    issued,       \* tokens already drawn
    held,         \* caller -> the lease it was given, or None
    everStored    \* a record was stored once: R2 no longer seeds a migrated site

vars == <<clock, stored, receipts, current, handler, issued, held, everStored>>

Pointers == [revision: Revisions, stamp: Stamps]
Versions == 1..MaxVersion
Leases == [token: Tokens, base: Pointers \cup {None}, version: 0..MaxVersion, expires: Nat]
Fences == [token: Tokens, expires: Nat]
Records == [pointer: Pointers \cup {None}, version: 0..MaxVersion,
            lease: Leases \cup {None}, fence: Fences \cup {None}]
Commits == [op: {"commit"}, caller: Callers, record: Records, pointer: Pointers]
Resets == [op: {"reset"}]

\* null and undefined are no identifier and no object.
ASSUME NoneAssumption ==
    None \notin Tokens \cup Revisions \cup Pointers \cup Leases \cup Fences \cup Records
                   \cup Commits \cup Resets

TypeOK ==
    /\ clock \in 0..MaxTime
    /\ stored \in Records \cup {None}
    /\ receipts \in [Versions -> Pointers \cup {None}]
    /\ current \in Pointers \cup {None}
    /\ handler \in Commits \cup Resets \cup {None}
    /\ issued \in SUBSET Tokens
    /\ held \in [Callers -> Leases \cup {None}]
    /\ everStored \in BOOLEAN

\* A site new to the coordinator: R2 may hold a pointer from before it.
Init ==
    /\ clock = 0
    /\ stored = None
    /\ receipts = [v \in Versions |-> None]
    /\ current \in Pointers \cup {None}
    /\ handler = None
    /\ issued = {}
    /\ held = [c \in Callers |-> None]
    /\ everStored = FALSE

-----------------------------------------------------------------------------

\* record(): what is stored, or a first record made from the pointer in R2.
Record ==
    IF stored # None THEN stored
    ELSE [pointer |-> current, version |-> 0, lease |-> None, fence |-> None]

RevisionOf(p) == IF p = None THEN None ELSE p.revision

LeaseLive(r) == r.lease # None /\ r.lease.expires > clock

\* activeFence(); an expired fence it deletes is one that is no longer active.
FenceActive(r) == r.fence # None /\ r.fence.expires > clock

\* requireLease().
HoldsLease(r, c) == LeaseLive(r) /\ held[c] # None /\ held[c].token = r.lease.token

\* Seeded defect: handlers overlap while one awaits R2.
Overlapping == TRUE

\* fetch(): the next handler starts when the one before has ended.
Serialized == handler = None

Save(r) == stored' = r /\ everStored' = TRUE

\* The handler of c ends, and its reply is delivered or lost.
Reply(c, lease) == held' \in {held, [held EXCEPT ![c] = lease]}

\* A handler that only reads (current, committed, fenceStatus) or refuses: record(), which
\* it calls first, may still make and store the first record.
Answer ==
    /\ Serialized
    /\ Save(Record)
    /\ UNCHANGED <<clock, receipts, current, handler, issued, held>>

Tick ==
    /\ clock < MaxTime
    /\ clock' = clock + 1
    /\ UNCHANGED <<stored, receipts, current, handler, issued, held, everStored>>

\* A caller's request ends; what it knew is lost.
Vanish(c) ==
    /\ held[c] # None
    /\ held' = [held EXCEPT ![c] = None]
    /\ UNCHANGED <<clock, stored, receipts, current, handler, issued, everStored>>

\* The object is evicted in the middle of a handler; the caller gets an error.
Evict ==
    /\ handler # None
    /\ handler' = None
    /\ UNCHANGED <<clock, stored, receipts, current, issued, held, everStored>>

-----------------------------------------------------------------------------

\* Seeded defect: begin does not look at the fence.
CanBeginFenced(r) == ~LeaseLive(r)

CanBegin(r) == ~LeaseLive(r) /\ ~FenceActive(r)

\* begin().
Begin(c) ==
    /\ Serialized
    /\ held[c] = None
    /\ CanBegin(Record)
    /\ \E t \in Tokens \ issued, ttl \in LeaseTtls :
        LET lease == [token |-> t, base |-> Record.pointer, version |-> Record.version,
                      expires |-> clock + ttl]
        IN  /\ Save([Record EXCEPT !.lease = lease])
            /\ Reply(c, lease)
            /\ issued' = issued \cup {t}
    /\ UNCHANGED <<clock, receipts, current, handler>>

\* renew().
Renew(c) ==
    /\ Serialized
    /\ HoldsLease(Record, c)
    /\ \E ttl \in LeaseTtls :
        LET lease == [Record.lease EXCEPT !.expires = clock + ttl]
        IN  Save([Record EXCEPT !.lease = lease]) /\ Reply(c, lease)
    /\ UNCHANGED <<clock, receipts, current, handler, issued>>

\* release() and abort(); the caller drops the lease whatever the answer.
Finish(c) ==
    /\ Serialized
    /\ HoldsLease(Record, c)
    /\ Save([Record EXCEPT !.lease = None])
    /\ held' = [held EXCEPT ![c] = None]
    /\ UNCHANGED <<clock, receipts, current, handler, issued>>

\* commit()'s comparison of what the caller read with the lease and the record.
CanCommit(r, c) ==
    /\ HoldsLease(r, c)
    /\ RevisionOf(held[c].base) = RevisionOf(r.lease.base)
    /\ held[c].version = r.lease.version
    /\ r.version = r.lease.version
    /\ RevisionOf(r.pointer) = RevisionOf(r.lease.base)

\* commit(), up to and including the put of current.json.
CommitPut(c) ==
    /\ Serialized
    /\ CanCommit(Record, c)
    /\ Record.version < MaxVersion
    /\ \E p \in Pointers :
        /\ current' = p
        /\ handler' = [op |-> "commit", caller |-> c, record |-> Record, pointer |-> p]
    /\ UNCHANGED <<clock, stored, receipts, issued, held, everStored>>

\* Seeded defect: the version is advanced twice.
PromotedTwice(r, p) == [r EXCEPT !.pointer = p, !.version = r.version + 2, !.lease = None]

Promoted(r, p) == [r EXCEPT !.pointer = p, !.version = r.version + 1, !.lease = None]

\* Seeded defect: the receipt is keyed by the version before the increment.
ReceiptBehind(v, p) == [receipts EXCEPT ![IF v > 1 THEN v - 1 ELSE v] = p]

PutReceipt(v, p) == [receipts EXCEPT ![v] = p]

\* commit(), the storage transaction: receipt and record together, written from the
\* record as the handler read it.
CommitStore ==
    /\ handler # None /\ handler.op = "commit"
    /\ LET r == handler.record IN
        /\ Save(Promoted(r, handler.pointer))
        /\ receipts' = PutReceipt(r.version + 1, handler.pointer)
    /\ Reply(handler.caller, None)
    /\ handler' = None
    /\ UNCHANGED <<clock, current, issued>>

\* acquireFence().
AcquireFence ==
    /\ Serialized
    /\ ~LeaseLive(Record) /\ ~FenceActive(Record)
    /\ \E t \in Tokens \ issued, ttl \in FenceTtls :
        /\ Save([Record EXCEPT !.lease = None, !.fence = [token |-> t, expires |-> clock + ttl]])
        /\ issued' = issued \cup {t}
    /\ UNCHANGED <<clock, receipts, current, handler, held>>

\* renewFence(), with the token of the fence.
RenewFence ==
    /\ Serialized
    /\ FenceActive(Record)
    /\ \E ttl \in FenceTtls : Save([Record EXCEPT !.fence.expires = clock + ttl])
    /\ UNCHANGED <<clock, receipts, current, handler, issued, held>>

\* releaseFence(), with the token of the fence.
ReleaseFence ==
    /\ Serialized
    /\ FenceActive(Record)
    /\ Save([Record EXCEPT !.fence = None])
    /\ UNCHANGED <<clock, receipts, current, handler, issued, held>>

\* adopt() of pointer p as version v, with the fence's token or without any.
Adopt(p, v, token) ==
    LET r == Record IN
    /\ Serialized
    /\ FenceActive(r) => token = r.fence.token
    /\ ~LeaseLive(r)
    /\ \/ r.version = 0 /\ r.pointer = None
       \/ r.version = v /\ r.pointer = p
       \/ v > r.version
    /\ receipts[v] \in {None, p}
    /\ Save([r EXCEPT !.pointer = p, !.version = v, !.lease = None])
    /\ receipts' = PutReceipt(v, p)
    /\ UNCHANGED <<clock, current, handler, issued, held>>

\* Seeded defect: reset deletes the record before the pointer in R2.
ResetRecordFirst(n) ==
    IF n = 1 THEN stored' = None /\ everStored' = TRUE /\ UNCHANGED current
    ELSE current' = None /\ UNCHANGED <<stored, everStored>>

\* The two durable writes of reset(): current.json goes first.
ResetWrite(n) ==
    IF n = 1 THEN Save(Record) /\ current' = None
    ELSE stored' = None /\ UNCHANGED <<current, everStored>>

\* reset(), up to and including its first write.
ResetDelete ==
    /\ Serialized
    /\ ~FenceActive(Record) /\ ~LeaseLive(Record)
    /\ ResetWrite(1)
    /\ handler' = [op |-> "reset"]
    /\ UNCHANGED <<clock, receipts, issued, held>>

\* reset(), its second write.  The commit receipts stay.
ResetStore ==
    /\ handler # None /\ handler.op = "reset"
    /\ ResetWrite(2)
    /\ handler' = None
    /\ UNCHANGED <<clock, receipts, issued, held>>

-----------------------------------------------------------------------------

Next ==
    \/ Tick \/ Evict \/ Answer
    \/ \E c \in Callers : Vanish(c) \/ Begin(c) \/ Renew(c) \/ Finish(c) \/ CommitPut(c)
    \/ CommitStore
    \/ AcquireFence \/ RenewFence \/ ReleaseFence
    \/ \E p \in Pointers, v \in Versions, t \in issued \cup {None} : Adopt(p, v, t)
    \/ ResetDelete \/ ResetStore

Spec == Init /\ [][Next]_vars

-----------------------------------------------------------------------------
(***************************************************************************)
(* Properties.                                                             *)
(***************************************************************************)

\* A site emptied by a reset stays empty: when a later request makes a new record from
\* R2, it never finds a pointer there again, even if the object was evicted between the
\* two deletions, or between the put and the transaction of an earlier commit.
\* (reset, record)
ResetSticks ==
    [][everStored /\ stored = None /\ stored' # None /\ stored'.version = 0
         => stored'.pointer = None]_vars

\* The pointer never changes under an unchanged or a smaller version: no commit replaces
\* one it has not seen, although commit awaits R2 between its check and its transaction
\* and the lease may expire meanwhile. (commit, fetch)
NoOverwrite ==
    [][stored # None /\ stored' # None /\ stored'.pointer # stored.pointer
         => stored'.version > stored.version]_vars

\* The current version always has its receipt, and it is the current pointer, wherever an
\* eviction strikes. (commit, adopt)
ReceiptForCurrent ==
    stored # None /\ stored.version > 0 => receipts[stored.version] = stored.pointer

\* While a fence is active neither a commit nor a reset reaches the record or R2, not even
\* one that began before the fence. (acquireFence, fetch)
FenceFreezes ==
    [][stored # None /\ FenceActive(stored) =>
         /\ current' = current
         /\ stored' # None
         /\ stored'.version # stored.version => handler = None]_vars

\* A fence and a lease are never both good. (begin, acquireFence, renew, renewFence)
FenceExcludesLease == stored # None => ~(FenceActive(stored) /\ LeaseLive(stored))

\* No commit and no adoption rewrites the receipt of a version the record has reached.
\* (After a reset versions start again, so receipts ahead of the record are rewritten.)
\* (commit, adopt: "Coordinator adoption cannot replace an existing commit receipt.")
PastReceiptsStand ==
    [][\A v \in Versions :
         stored # None /\ v <= stored.version /\ receipts[v] # None
             => receipts'[v] = receipts[v]]_vars

=============================================================================
