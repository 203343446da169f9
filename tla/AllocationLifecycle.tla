------------------------ MODULE AllocationLifecycle ------------------------
(***************************************************************************)
(* The life of one elastic site allocation (allocation-lifecycle.ts): its  *)
(* owner renews or deletes it, the minute cron expires it and reclaims its *)
(* R2 objects page by page and its D1 rows in bounded passes, while        *)
(* requests that were let in before still write, and so do the two writers *)
(* of worker.ts that never ask whether the allocation is active: the       *)
(* scheduled WordPress cron, and the bootstrap of a request for            *)
(* `?phase=health`.                                                        *)
(*                                                                         *)
(* Every D1 statement, R2 call and batch is one step.  Each works with a   *)
(* Date.now() its caller read up to MaxLag before it runs, a cron run with *)
(* its scheduled time.  Cron runs may overlap, fail or be evicted between  *)
(* any two of their steps.                                                 *)
(***************************************************************************)
EXTENDS FiniteSetsExt, Integers

CONSTANTS
    Crons,          \* cron invocations that may overlap
    Requests,       \* requests and queue consumers that write for the site
    Keys,           \* the keys of the site's R2 objects, numbers in listing order
    Ops,            \* operation rows of the site
    Configured,     \* whether WORDPRESS_SITE_CONTEXTS names the site, too
    None,           \* SQL NULL
    TtlMs, RetainMs,  \* the retention policy
    WriteTime,      \* an invocation admitted by assertActive writes for less than this
    MaxLag,         \* age of the clock reading a statement, or a cron run, works with
    PageLimit,      \* objects and rows one pass deletes
    MaxTime,        \* bound on the clock
    MaxCounted      \* errors and evictions strike until so many objects are counted as deleted

\* The grace period outlives whoever was admitted before the deletion began.
GraceAssumption ==
    /\ {TtlMs, RetainMs, WriteTime, MaxLag, MaxTime, MaxCounted} \subseteq Nat
    /\ PageLimit \in Nat \ {0}
    /\ Keys \subseteq Nat \ {0}
    /\ None \notin Nat
    /\ Configured \in BOOLEAN
    /\ WriteTime + MaxLag <= RetainMs
    /\ MaxLag <= TtlMs

ASSUME Grace == GraceAssumption

VARIABLES
    clock,          \* Date.now()
    row,            \* the lifecycle row
    receipts,       \* the receipt in wp_codebox_site_deletion_receipts, or None
    objects,        \* the keys in R2 that a writer admitted by assertActive put
    strays,         \* the keys in R2 that a writer put who was never asked
    op,             \* operation -> its row
    cron,           \* cron run -> its local state
    owner,          \* whether the owner's deletion still has work to cancel
    request         \* request -> when it was admitted, or None

vars == <<clock, row, receipts, objects, strays, op, cron, owner, request>>

\* Seeded defect: a cron run that starts without a count.
IdleUncounted == [pc |-> "idle", at |-> 0, fence |-> 0, cursor |-> None, counted |-> None,
                  page |-> {}, next |-> None, unresolved |-> 0]

Idle == [pc |-> "idle", at |-> 0, fence |-> 0, cursor |-> None, counted |-> 0, page |-> {},
         next |-> None, unresolved |-> 0]

TypeOK ==
    /\ clock \in 0..MaxTime
    /\ row \in [state: {"active", "deleting", "tombstoned"}, expires: Nat, retain: Nat,
                fence: {1, 2}, cursor: Keys \cup {None}, counted: Nat, receipt: Nat \cup {None}]
    /\ receipts \in Nat \cup {None}
    /\ objects \subseteq Keys
    /\ strays \subseteq Keys
    /\ op \in [Ops -> {"absent", "queued", "running", "succeeded", "failed", "deleted"}]
    /\ cron \in [Crons -> [pc: {"idle", "expire", "cancel", "pending", "get", "list", "delete",
                               "clean", "count", "update", "tombstone", "events"},
                          at: 0..MaxTime, fence: 0..2, cursor: Keys \cup {None}, counted: Nat,
                          page: SUBSET Keys, next: Keys \cup {None}, unresolved: Nat]]
    /\ owner \in {"idle", "cancel"}
    /\ request \in [Requests -> (0..MaxTime) \cup {None}]

\* The row that create inserts at time 0 for a site that is then used.
Init ==
    /\ clock = 0
    /\ row = [state |-> "active", expires |-> TtlMs, retain |-> TtlMs + RetainMs, fence |-> 1,
              cursor |-> None, counted |-> 0, receipt |-> None]
    /\ receipts = None
    /\ objects = {}
    /\ strays = {}
    /\ op = [o \in Ops |-> "absent"]
    /\ cron = [c \in Crons |-> Idle]
    /\ owner = "idle"
    /\ request = [r \in Requests |-> None]

\* The clock readings a statement that runs now may carry.
Readings == {at \in 0..clock : clock - at <= MaxLag}

\* An invocation that was let in still runs at time now.
Running(r, now) == request[r] # None /\ now < request[r] + WriteTime

\* Whoever has had its time is over.
Tick ==
    /\ clock < MaxTime
    /\ clock' = clock + 1
    /\ request' = [r \in Requests |-> IF Running(r, clock + 1) THEN request[r] ELSE None]
    /\ UNCHANGED <<row, receipts, objects, strays, op, cron, owner>>

-----------------------------------------------------------------------------
(***************************************************************************)
(* The owner.                                                              *)
(***************************************************************************)

\* renew: only while active and not yet expired by the caller's clock.
Renew ==
    /\ \E at \in Readings :
        /\ row.state = "active"
        /\ row.expires > at
        /\ row' = [row EXCEPT !.expires = at + TtlMs, !.retain = at + TtlMs + RetainMs]
    /\ UNCHANGED <<clock, receipts, objects, strays, op, cron, owner, request>>

\* Seeded defect: a deletion needs no grace period of its own.
RetainNow(at) == IF row.retain < at THEN row.retain ELSE at

\* retain_until = MIN(retain_until, now + retainMs)
RetainUntil(at) == IF row.retain < at + RetainMs THEN row.retain ELSE at + RetainMs

\* The UPDATE of beginDeletion.
Marked(at) ==
    [row EXCEPT !.state = "deleting", !.fence = @ + 1, !.retain = RetainUntil(at), !.cursor = None]

OwnerDelete ==
    /\ owner = "idle"
    /\ row.state = "active"
    /\ \E at \in Readings : row' = Marked(at)
    /\ owner' = "cancel"
    /\ UNCHANGED <<clock, receipts, objects, strays, op, cron, request>>

\* cancelWork, in statements after the one that marked the row.
Cancelled == [o \in Ops |-> IF op[o] \in {"queued", "running"} THEN "failed" ELSE op[o]]

OwnerCancel ==
    /\ owner = "cancel"
    /\ op' = Cancelled
    /\ owner' = "idle"
    /\ UNCHANGED <<clock, row, receipts, objects, strays, cron, request>>

\* The API request is evicted before it has cancelled the work.
OwnerGone ==
    /\ owner = "cancel"
    /\ owner' = "idle"
    /\ UNCHANGED <<clock, row, receipts, objects, strays, op, cron, request>>

-----------------------------------------------------------------------------
(***************************************************************************)
(* Whoever works for the site.                                             *)
(***************************************************************************)

\* Seeded defect: the work of an allocation is admitted by its expiry alone.
AdmitsUnexpired(at) == row.expires > at

\* activeLifecycle and assertActive.  A row created under the first fence is refused under
\* the second by the state, too.
Admits(at) == row.state = "active" /\ row.expires > at

\* createOrConverge's insert, and claimExact's update.
Create(o) ==
    /\ op[o] = "absent"
    /\ \E at \in Readings : Admits(at)
    /\ op' = [op EXCEPT ![o] = "queued"]
    /\ UNCHANGED <<clock, row, receipts, objects, strays, cron, owner, request>>

Claim(o) ==
    /\ op[o] = "queued"
    /\ \E at \in Readings : Admits(at)
    /\ op' = [op EXCEPT ![o] = "running"]
    /\ UNCHANGED <<clock, row, receipts, objects, strays, cron, owner, request>>

\* ownedUpdate and terminalBatch have the same guard: a claimed operation is completed or
\* retried.
Work(o) ==
    /\ op[o] = "running"
    /\ \E at \in Readings : Admits(at)
    /\ \E state \in {"queued", "succeeded"} : op' = [op EXCEPT ![o] = state]
    /\ UNCHANGED <<clock, row, receipts, objects, strays, cron, owner, request>>

\* assertActive lets an invocation in: a request of a protected route, a queued publication
\* job or import.
Enter(r) ==
    /\ request[r] = None
    /\ \E at \in Readings : Admits(at)
    /\ request' = [request EXCEPT ![r] = clock]
    /\ UNCHANGED <<clock, row, receipts, objects, strays, op, cron, owner>>

\* It puts an object.
Put(r, k) ==
    /\ Running(r, clock)
    /\ objects' = objects \cup {k}
    /\ UNCHANGED <<clock, row, receipts, strays, op, cron, owner, request>>

\* A request for `?phase=health` is of no protected route: on a site without a canonical
\* revision it puts a whole one, whatever the lifecycle row says.  Whether the site has a
\* revision is the coordinator's to know, and left open here.
Bootstrap(k) ==
    /\ strays' = strays \cup {k}
    /\ UNCHANGED <<clock, row, receipts, objects, op, cron, owner, request>>

-----------------------------------------------------------------------------
(***************************************************************************)
(* The minute cron: expire, pendingDeletions, reclaim.                     *)
(***************************************************************************)

At(c, pc) == cron' = [cron EXCEPT ![c].pc = pc]
Stop(c) == cron' = [cron EXCEPT ![c] = Idle]

\* A run keeps the scheduled time it was triggered with, and the platform ends a run that
\* lasts too long.
Timely(c) == clock - cron[c].at <= MaxLag

\* expire lists the allocations that are overdue at the scheduled time.
CronSelect(c) ==
    /\ cron[c].pc = "idle"
    /\ row.state # "tombstoned"
    /\ \E at \in Readings :
        cron' = [cron EXCEPT ![c] =
            [Idle EXCEPT !.at = at,
                         !.pc = IF row.state = "active" /\ row.expires <= at THEN "expire"
                                ELSE "pending"]]
    /\ UNCHANGED <<clock, row, receipts, objects, strays, op, owner, request>>

\* beginDeletion for one of them; a competing owner or sweeper may have fenced it already.
CronExpire(c) ==
    /\ cron[c].pc = "expire"
    /\ Timely(c)
    /\ IF row.state = "active" THEN row' = Marked(cron[c].at) /\ At(c, "cancel")
       ELSE At(c, "pending") /\ UNCHANGED row
    /\ UNCHANGED <<clock, receipts, objects, strays, op, owner, request>>

CronCancel(c) ==
    /\ cron[c].pc = "cancel"
    /\ Timely(c)
    /\ op' = Cancelled
    /\ At(c, "pending")
    /\ UNCHANGED <<clock, row, receipts, objects, strays, owner, request>>

\* pendingDeletions.
CronPending(c) ==
    /\ cron[c].pc = "pending"
    /\ Timely(c)
    /\ IF row.state = "deleting" /\ row.retain <= cron[c].at
       THEN cron' = [cron EXCEPT ![c].pc = "get", ![c].fence = row.fence]
       ELSE Stop(c)
    /\ UNCHANGED <<clock, row, receipts, objects, strays, op, owner, request>>

\* reclaim reads the row again; what it counts later starts from this reading.
CronGet(c) ==
    /\ cron[c].pc = "get"
    /\ Timely(c)
    /\ IF row.state = "deleting" /\ row.fence = cron[c].fence /\ row.retain <= cron[c].at
       THEN cron' = [cron EXCEPT ![c].pc = "list", ![c].cursor = row.cursor,
                                 ![c].counted = row.counted]
       ELSE Stop(c)
    /\ UNCHANGED <<clock, row, receipts, objects, strays, op, owner, request>>

After(cursor) == {k \in objects \cup strays : cursor = None \/ k > cursor}

\* One page of the listing.
FirstKeys(available) == {k \in available : Cardinality({j \in available : j < k}) < PageLimit}

CronList(c) ==
    /\ cron[c].pc = "list"
    /\ Timely(c)
    /\ LET available == After(cron[c].cursor)
           page == FirstKeys(available)
       IN cron' = [cron EXCEPT ![c].pc = "delete", ![c].page = page,
                               ![c].next = IF page # available THEN Max(page) ELSE None]
    /\ UNCHANGED <<clock, row, receipts, objects, strays, op, owner, request>>

CronDelete(c) ==
    /\ cron[c].pc = "delete"
    /\ Timely(c)
    /\ objects' = objects \ cron[c].page
    /\ strays' = strays \ cron[c].page
    /\ At(c, IF cron[c].next = None THEN "clean" ELSE "update")
    /\ UNCHANGED <<clock, row, receipts, op, owner, request>>

Present == {o \in Ops : op[o] \notin {"absent", "deleted"}}

\* cleanupWork after the last page: a bounded number of rows goes, and what is left is
\* counted later.
CronClean(c) ==
    /\ cron[c].pc = "clean"
    /\ Timely(c)
    /\ \E gone \in SUBSET Present :
        /\ Cardinality(gone) = IF Cardinality(Present) < PageLimit THEN Cardinality(Present)
                               ELSE PageLimit
        /\ op' = [o \in Ops |-> IF o \in gone THEN "deleted" ELSE op[o]]
    /\ At(c, "count")
    /\ UNCHANGED <<clock, row, receipts, objects, strays, owner, request>>

CronCount(c) ==
    /\ cron[c].pc = "count"
    /\ Timely(c)
    /\ cron' = [cron EXCEPT ![c].pc = "update", ![c].unresolved = Cardinality(Present)]
    /\ UNCHANGED <<clock, row, receipts, objects, strays, op, owner, request>>

\* The checkpoint, guarded by the fence.
CronUpdate(c) ==
    /\ cron[c].pc = "update"
    /\ Timely(c)
    /\ IF row.state = "deleting" /\ row.fence = cron[c].fence
       THEN /\ row' = [row EXCEPT !.cursor = cron[c].next,
                                  !.counted = @ + Cardinality(cron[c].page)]
            /\ IF cron[c].next # None \/ cron[c].unresolved > 0 THEN Stop(c) ELSE At(c, "tombstone")
       ELSE Stop(c) /\ UNCHANGED row
    /\ UNCHANGED <<clock, receipts, objects, strays, op, owner, request>>

\* Seeded defect: the tombstone is written whatever the row says by then.
CanTombstoneAgain(c) == row.fence = cron[c].fence

CanTombstone(c) == row.state = "deleting" /\ row.fence = cron[c].fence

\* The batch of the receipt: INSERT OR IGNORE beside a guarded UPDATE.
CronTombstone(c) ==
    /\ cron[c].pc = "tombstone"
    /\ Timely(c)
    /\ LET receipt == cron[c].counted + Cardinality(cron[c].page) IN
        /\ receipts' = IF receipts = None THEN receipt ELSE receipts
        /\ row' = IF CanTombstone(c)
                  THEN [row EXCEPT !.state = "tombstoned", !.cursor = None, !.receipt = receipt]
                  ELSE row
    /\ Stop(c)
    /\ UNCHANGED <<clock, objects, strays, op, owner, request>>

\* The rest of a scheduled invocation is begun here as a run of its own: it takes a site that
\* is configured, or whose row activeSites reads as active, whether it has expired or not.
CronSites(c) ==
    /\ cron[c].pc = "idle"
    /\ Configured \/ row.state = "active"
    /\ \E at \in Readings : cron' = [cron EXCEPT ![c] = [Idle EXCEPT !.at = at, !.pc = "events"]]
    /\ UNCHANGED <<clock, row, receipts, objects, strays, op, owner, request>>

\* runScheduledWordPressCron executes a due event and persists what it changed.
CronEvent(c, k) ==
    /\ cron[c].pc = "events"
    /\ Timely(c)
    /\ strays' = strays \cup {k}
    /\ UNCHANGED <<clock, row, receipts, objects, op, cron, owner, request>>

\* No event is due, or the invocation has run its share of them.
CronBounded(c) ==
    /\ cron[c].pc = "events"
    /\ Timely(c)
    /\ Stop(c)
    /\ UNCHANGED <<clock, row, receipts, objects, strays, op, owner, request>>

\* An error, an eviction or the platform's limit ends the cron run where it is.
CronGone(c) ==
    /\ cron[c].pc # "idle"
    /\ Timely(c) => row.counted < MaxCounted
    /\ Stop(c)
    /\ UNCHANGED <<clock, row, receipts, objects, strays, op, owner, request>>

CronStep(c) ==
    \/ CronSelect(c) \/ CronExpire(c) \/ CronCancel(c) \/ CronPending(c) \/ CronGet(c)
    \/ CronList(c) \/ CronDelete(c) \/ CronClean(c) \/ CronCount(c) \/ CronUpdate(c)
    \/ CronTombstone(c)
    \/ CronSites(c) \/ CronBounded(c) \/ \E k \in Keys : CronEvent(c, k)
    \/ ~Timely(c) /\ CronGone(c)

-----------------------------------------------------------------------------

Next ==
    \/ Tick \/ Renew \/ OwnerDelete \/ OwnerCancel \/ OwnerGone
    \/ \E o \in Ops : Create(o) \/ Claim(o) \/ Work(o)
    \/ \E r \in Requests : Enter(r) \/ \E k \in Keys : Put(r, k)
    \/ \E k \in Keys : Bootstrap(k)
    \/ \E c \in Crons : CronStep(c) \/ CronGone(c)

Spec == Init /\ [][Next]_vars

-----------------------------------------------------------------------------
(***************************************************************************)
(* Properties.                                                             *)
(***************************************************************************)

\* A tombstone says that nothing is left of what was admitted: no object of a writer that
\* assertActive let in, not even one put late or behind the cursor, and no operation row,
\* however the cron runs overlapped, failed and resumed, and whatever the writers that are
\* never asked put meanwhile.  Their own objects are not spoken of: the code lets them be put
\* behind the cursor, and after the tombstone.  (reclaim, assertActive, the retention period)
TombstoneIsEmpty == row.state = "tombstoned" => objects = {} /\ Present = {}

\* Once a deletion has begun, no operation of the site is created, claimed or completed any
\* more, even if the caller's work was never cancelled: what was bound before is refused.
\* (activeLifecycle, beginDeletion)
DeletionFencesWork ==
    [][row.state # "active" => \A o \in Ops : op'[o] \in {op[o], "failed", "deleted"}]_vars

\* A deletion is never taken back, and its receipt is written once: the row and the receipt
\* table name the same one ("tombstone receipts are immutable").
\* (reclaim, renew)
TombstoneStands ==
    [][/\ row.state # "active" => row'.state # "active" /\ row'.retain = row.retain
       /\ row.state = "tombstoned" => row' = row /\ receipts' = receipts /\ row.receipt = receipts]_vars

=============================================================================
