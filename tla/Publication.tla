---------------------------- MODULE Publication ----------------------------
(***************************************************************************)
(* Publication of one site: the jobs a canonical mutation leaves in R2, the*)
(* queue consumers that drain them (drainPublicationJob in worker.ts), the *)
(* operator's own publication, and the object published/current.json they  *)
(* all write.  The site's canonical history is the register RevisionHistory*)
(* promises; publication work is done under leases of it.                  *)
(*                                                                         *)
(* An R2 object is read and written in single steps.  A write and the      *)
(* renewal of the lease that follows it are one step: a lease may lapse    *)
(* before a write that the code makes after a renewal, and is then found   *)
(* lost at the next one.  A consumer may be evicted between any two steps. *)
(* Revisions are numbered as they are drawn.                               *)
(***************************************************************************)
EXTENDS FiniteSetsExt, Integers

CONSTANTS
    Drainers,       \* queue consumer invocations
    Site,           \* the canonical mutations of the site
    Operator,       \* an operator's publication request
    None,           \* an absent object
    Routes,         \* public routes, numbers in the order of their sorting
    Mutations,      \* what a mutation may be: the changes it reports, and whether it is an import
    MaxRevisions,   \* bound on the revisions persisted
    MaxVersion,     \* bound on the canonical version
    MaxEditions,    \* bound on the publications written
    MaxFaults       \* bound on evictions, failed dispatches and lapses of a lease or claim in use

VARIABLES
    version, pointer, receipts, basis, holders,  \* the coordinator, as in RevisionHistory
    content,        \* revision -> route -> the last revision that changed its page, or 0
    jobs,           \* revision -> its publication job, which is immutable, or None
    deleted,        \* the jobs whose objects were deleted
    dispatch,       \* revision -> its dispatch row
    op,             \* revision -> the state of the operation that imported it, since its commit
    receipt,        \* revision -> the job's immutable receipt
    claim,          \* revision -> the job's claim object
    progress,       \* revision -> the job's progress object
    pages,          \* the page snapshots in R2, <<revision, route>>
    published,      \* published/current.json
    drainer,        \* consumer -> its local state
    site,           \* the local state of a canonical mutation
    operator,       \* what the operator is about to publish, or None
    wentLive,       \* history: revisions whose job was promoted
    faults          \* how many of them so far

coordinator == <<version, pointer, receipts, basis, holders>>
bucket == <<jobs, deleted, receipt, claim, progress, pages, published>>
rows == <<dispatch, op>>
vars == <<coordinator, content, bucket, rows, drainer, site, operator, wentLive, faults>>

Revisions == 1..MaxRevisions
Versions == 1..MaxVersion
Writers == Drainers \cup {Site, Operator}
Pointers == Revisions

History == INSTANCE RevisionHistory

Plans == [upsert: SUBSET Routes, remove: SUBSET Routes]
Jobs == [version: Versions, changes: Mutations]
Leases == [version: Versions, pointer: Revisions \cup {None}]
Claims == [by: Drainers \cup {None}, expired: BOOLEAN]
Progress == [plan: Plans, rendered: SUBSET Routes]
Publications == [version: Versions, revision: Revisions, source: Revisions \cup {None},
                 routes: [Routes -> 0..MaxRevisions], edition: 1..MaxEditions]

\* promoted, superseded and orphaned are the outcomes of a job.
Outcomes == {"promoted", "superseded", "orphaned"}

ASSUME NoneAssumption ==
    None \notin Revisions \cup Jobs \cup Leases \cup Claims \cup Progress \cup Publications
              \cup Outcomes \cup Drainers
ASSUME WriterAssumption == Site # Operator /\ Site \notin Drainers /\ Operator \notin Drainers
ASSUME RouteAssumption ==
    /\ Routes \subseteq Nat
    /\ Mutations \subseteq [all: BOOLEAN, upsert: SUBSET Routes, remove: SUBSET Routes, import: BOOLEAN]
ASSUME BoundAssumption ==
    {MaxRevisions, MaxVersion, MaxEditions} \subseteq Nat \ {0} /\ MaxFaults \in Nat

\* Seeded defect: the local state of a consumer without an outcome.
IdleBare == [pc |-> "idle", job |-> None, seen |-> None, claimed |-> FALSE, work |-> None,
             current |-> None, outcome |-> "none"]

Idle == [pc |-> "idle", job |-> None, seen |-> None, claimed |-> FALSE, work |-> None,
         current |-> None, outcome |-> None]

Working == {"read", "claim", "look", "plan", "page", "note", "promote", "mark", "receipt", "settle",
            "delete"}
Leaving == {"rendered", "pending", "done", "failed"}

TypeOK ==
    /\ version \in Versions /\ pointer \in Revisions \cup {None}
    /\ receipts \in [Versions -> Revisions \cup {None}]
    /\ basis \in [Writers -> Leases \cup {None}]
    /\ holders \in SUBSET Writers
    /\ content \in [Revisions -> [Routes -> 0..MaxRevisions]]
    /\ jobs \in [Revisions -> Jobs \cup {None}]
    /\ deleted \in SUBSET Revisions
    /\ dispatch \in [Revisions -> {"none", "open", "done", "dead"}]
    /\ op \in [Revisions -> {"none", "running", "pending"} \cup Outcomes]
    /\ receipt \in [Revisions -> Outcomes \cup {None}]
    /\ claim \in [Revisions -> Claims \cup {None}]
    /\ progress \in [Revisions -> Progress \cup {None}]
    /\ pages \in SUBSET (Revisions \X Routes)
    /\ published \in Publications
    /\ drainer \in [Drainers -> [pc: Working \cup Leaving \cup {"idle"}, job: Revisions \cup {None},
                                seen: Claims \cup {None}, claimed: BOOLEAN, work: Progress \cup {None},
                                current: Publications \cup {None}, outcome: Outcomes \cup {None}]]
    /\ site \in [pc: {"idle", "leased", "quiet", "mutation", "import", "wake", "complete", "again"},
                 revision: Revisions]
    /\ operator \in {None} \cup SUBSET Routes
    /\ wentLive \in SUBSET Revisions
    /\ faults \in 0..MaxFaults

\* A site with a first revision that an operator has published.
Init ==
    /\ version = 1 /\ pointer = 1
    /\ receipts = [v \in Versions |-> IF v = 1 THEN 1 ELSE None]
    /\ basis = [w \in Writers |-> None]
    /\ holders = {}
    /\ content = [r \in Revisions |-> [rt \in Routes |-> IF r = 1 THEN 1 ELSE 0]]
    /\ jobs = [r \in Revisions |-> None]
    /\ deleted = {}
    /\ dispatch = [r \in Revisions |-> "none"]
    /\ op = [r \in Revisions |-> "none"]
    /\ receipt = [r \in Revisions |-> None]
    /\ claim = [r \in Revisions |-> None]
    /\ progress = [r \in Revisions |-> None]
    /\ pages = {1} \X Routes
    /\ published = [version |-> 1, revision |-> 1, source |-> None,
                    routes |-> [rt \in Routes |-> 1], edition |-> 1]
    /\ drainer = [d \in Drainers |-> Idle]
    /\ site = [pc |-> "idle", revision |-> 1]
    /\ operator = None
    /\ wentLive = {}
    /\ faults = 0

-----------------------------------------------------------------------------
(***************************************************************************)
(* A canonical mutation: ordinary, or an import whose operation waits for  *)
(* the publication.                                                        *)
(***************************************************************************)

Existing(publication) == {rt \in Routes : publication.routes[rt] # 0}

publicationPlan(publication, changes) ==
    LET upsert == changes.upsert \cup (IF changes.all THEN Existing(publication) ELSE {}) IN
    [upsert |-> upsert, remove |-> changes.remove \ upsert]

\* The pages of a revision that made these changes to another one.
Changed(base, r, changes) ==
    [rt \in Routes |->
        CASE rt \in changes.upsert -> r
          [] rt \in changes.remove \ changes.upsert -> 0
          [] changes.all /\ base[rt] # 0 /\ rt \notin changes.remove \cup changes.upsert -> r
          [] OTHER -> base[rt]]

SiteAcquire ==
    /\ site.pc = "idle"
    /\ holders = {}
    /\ version < MaxVersion /\ site.revision < MaxRevisions
    /\ History!Grant(Site)
    /\ site' = [site EXCEPT !.pc = "leased"]
    /\ UNCHANGED <<content, bucket, rows, drainer, operator, wentLive, faults>>

\* persistRuntime and enqueuePublicationJob: the job is staged in R2 before the commit, for
\* the version the commit will make.  A site that was reset is bootstrapped without a job.
SiteStage ==
    /\ site.pc = "leased"
    /\ LET r == site.revision + 1 IN
        /\ \E changes \in Mutations :
            LET plan == publicationPlan(published, changes)
                quiet == basis[Site].pointer = None \/ plan.upsert \cup plan.remove = {}
                base == IF basis[Site].pointer = None THEN [rt \in Routes |-> r]
                        ELSE content[basis[Site].pointer]
            IN
            /\ content' = [content EXCEPT ![r] = Changed(base, r, changes)]
            /\ jobs' = IF quiet THEN jobs
                       ELSE [jobs EXCEPT ![r] = [version |-> basis[Site].version + 1,
                                                 changes |-> changes]]
            /\ site' = [pc |-> IF quiet THEN "quiet" ELSE IF changes.import THEN "import" ELSE "mutation",
                        revision |-> r]
    /\ UNCHANGED <<coordinator, deleted, receipt, claim, progress, pages, published, rows, drainer,
                   operator, wentLive, faults>>

\* commitLease, or the conflict that ends the request.  The row of an import's operation names
\* the commit before it is made, and is completed later.
SiteCommit ==
    /\ site.pc \in {"quiet", "mutation", "import"}
    /\ \/ /\ History!Commit(Site, site.revision)
          /\ site' = [site EXCEPT !.pc = IF @ = "quiet" THEN "idle" ELSE "wake"]
          /\ op' = IF site.pc = "import" THEN [op EXCEPT ![site.revision] = "running"] ELSE op
       \/ /\ Site \notin holders
          /\ History!Forget(Site)
          /\ site' = [site EXCEPT !.pc = "idle"]
          /\ UNCHANGED op
    /\ UNCHANGED <<content, bucket, dispatch, drainer, operator, wentLive, faults>>

\* dispatchRuntimeWork wakes the job, an import's too, before its operation is completed.  A
\* statement that throws there is caught.
SiteWake ==
    /\ site.pc = "wake"
    /\ \/ dispatch' = [dispatch EXCEPT ![site.revision] = "open"] /\ UNCHANGED faults
       \/ faults < MaxFaults /\ faults' = faults + 1 /\ UNCHANGED dispatch
    /\ site' = [site EXCEPT !.pc = IF op[site.revision] = "none" THEN "idle" ELSE "complete"]
    /\ UNCHANGED <<coordinator, content, bucket, op, drainer, operator, wentLive>>

\* complete: the operation's row becomes publication-pending, if the claim still stands.
SiteComplete ==
    /\ site.pc = "complete"
    /\ IF op[site.revision] = "running"
       THEN /\ op' = [op EXCEPT ![site.revision] = "pending"]
            /\ site' = [site EXCEPT !.pc = "again"]
       ELSE /\ site' = [site EXCEPT !.pc = "idle"]
            /\ UNCHANGED op
    /\ UNCHANGED <<coordinator, content, bucket, dispatch, drainer, operator, wentLive, faults>>

\* The second dispatch of the job: INSERT OR IGNORE makes a row if the first one did not, and
\* one that is there is not opened again.
SiteAgain ==
    /\ site.pc = "again"
    /\ dispatch' = [dispatch EXCEPT ![site.revision] = IF @ = "none" THEN "open" ELSE @]
    /\ site' = [site EXCEPT !.pc = "idle"]
    /\ UNCHANGED <<coordinator, content, bucket, op, drainer, operator, wentLive, faults>>

\* The invocation is evicted, or the commit's answer or recordCommit fails, which end it, too.
SiteVanish ==
    /\ site.pc # "idle"
    /\ faults < MaxFaults
    /\ faults' = faults + 1
    /\ basis' = [basis EXCEPT ![Site] = None]
    /\ site' = [site EXCEPT !.pc = "idle"]
    /\ UNCHANGED <<version, pointer, receipts, holders, content, bucket, rows, drainer, operator,
                   wentLive>>

\* The claim of the operation lapsed, and whoever took it over found the commit
\* (StaticArtifactOperation): the row is completed, without a dispatch.  The receipt may have
\* been read before a reset.  An operation that is not taken over, or fails, stays as it is.  It
\* is a fault while the first claimant is still at work.
Recover(r) ==
    /\ op[r] = "running"
    /\ op' = [op EXCEPT ![r] = "pending"]
    /\ IF site.pc # "idle" /\ site.revision = r
       THEN faults < MaxFaults /\ faults' = faults + 1
       ELSE UNCHANGED faults
    /\ UNCHANGED <<coordinator, content, bucket, dispatch, drainer, site, operator, wentLive>>

\* repairMissingDispatches knows the jobs of operations only.
Repair(r) ==
    /\ op[r] = "pending"
    /\ dispatch[r] = "none"
    /\ dispatch' = [dispatch EXCEPT ![r] = "open"]
    /\ UNCHANGED <<coordinator, content, bucket, op, drainer, site, operator, wentLive, faults>>

\* cacheWordPressPage: a visitor of the current revision leaves the page's snapshot.
Visit(rt) ==
    /\ pointer # None
    /\ content[pointer][rt] # 0
    /\ pages' = pages \cup {<<pointer, rt>>}
    /\ UNCHANGED <<coordinator, content, jobs, deleted, receipt, claim, progress, published, rows, drainer,
                   site, operator, wentLive, faults>>

-----------------------------------------------------------------------------
(***************************************************************************)
(* The drain of a job.                                                     *)
(***************************************************************************)

\* renewLease throws a RevisionConflict once the lease is lost.
Renewed(d, pc) == IF d \in holders THEN pc ELSE "failed"

Go(d, pc) == drainer' = [drainer EXCEPT ![d].pc = pc]

\* reconcilePublication: an operation that still waits gets the outcome.
Reconciled(r, outcome) == IF op[r] = "pending" THEN [op EXCEPT ![r] = outcome] ELSE op

\* A delivery begins with reconcilePublicationReceipts, for all pending operations, and a
\* lease.  Without the lease the job is pending.
Take(d, r) ==
    /\ drainer[d].pc = "idle"
    /\ dispatch[r] = "open"
    /\ op' = [j \in Revisions |-> IF op[j] = "pending" /\ receipt[j] # None THEN receipt[j] ELSE op[j]]
    /\ IF holders = {}
       THEN /\ History!Grant(d)
            /\ drainer' = [drainer EXCEPT ![d] = [Idle EXCEPT !.pc = "read", !.job = r]]
       ELSE /\ op' # op
            /\ UNCHANGED <<coordinator, drainer>>
    /\ UNCHANGED <<content, bucket, dispatch, site, operator, wentLive, faults>>

IsClaimed(r) == claim[r] # None /\ ~claim[r].expired

\* readPublicationJob, committed, and the read half of claimPublicationJob.  A job is woken
\* after its commit, so only a reset, which moves the version past it, makes it an orphan: the
\* code's wait for a job that is not committed yet never happens here.
ReadJob(d) ==
    /\ drainer[d].pc = "read"
    /\ LET r == drainer[d].job
           here == r \notin deleted
           ours == here /\ receipts[jobs[r].version] = r
           next == CASE ~here -> "done"
                     [] here /\ ~ours -> Renewed(d, "receipt")
                     [] ours /\ IsClaimed(r) -> "pending"
                     [] ours /\ ~IsClaimed(r) -> Renewed(d, "claim")
       IN drainer' = [drainer EXCEPT ![d] =
            [@ EXCEPT !.pc = next, !.seen = claim[r],
                      !.outcome = IF here /\ ~ours THEN "orphaned" ELSE None]]
    /\ UNCHANGED <<coordinator, content, bucket, rows, site, operator, wentLive, faults>>

\* The write half: only over the claim object that was read.  A claim's token is its claimant,
\* who may draw another one later: the model lets a reader of the first replace the second.
ClaimPut(d) ==
    /\ drainer[d].pc = "claim"
    /\ LET r == drainer[d].job IN
        IF claim[r] = drainer[d].seen
        THEN /\ claim' = [claim EXCEPT ![r] = [by |-> d, expired |-> FALSE]]
             /\ drainer' = [drainer EXCEPT ![d] = [@ EXCEPT !.pc = "look", !.seen = None,
                                                            !.claimed = TRUE]]
        ELSE Go(d, "pending") /\ UNCHANGED claim
    /\ UNCHANGED <<coordinator, content, jobs, deleted, receipt, progress, pages, published, rows, site,
                   operator, wentLive, faults>>

\* Seeded defect: the last route of the plan is taken for rendered.
TodoButLast(work) == {rt \in work.plan.upsert \ work.rendered : rt # Max(work.plan.upsert)}

Todo(work) == work.plan.upsert \ work.rendered

\* Where a job with a plan goes on: to the next route, whose page the revision must have, or
\* to the promotion.
AfterPlan(d, r, work) ==
    IF Todo(work) = {} THEN Renewed(d, "promote")
    ELSE LET rt == Min(Todo(work)) IN
         IF <<r, rt>> \in pages THEN Renewed(d, "note")
         ELSE IF content[r][rt] = 0 THEN "failed" ELSE Renewed(d, "page")

\* recoveredPromotion: what is published was promoted by this job.
Recovered(r) ==
    /\ published.version = jobs[r].version
    /\ published.revision = r
    /\ published.source = r

Superseded(r) == published.version >= jobs[r].version

\* Progress and the current publication are read, and decide what is to be done.
Look(d) ==
    /\ drainer[d].pc = "look"
    /\ LET r == drainer[d].job
           planned == progress[r] # None
           work == IF planned THEN progress[r]
                   ELSE [plan |-> publicationPlan(published, jobs[r].changes), rendered |-> {}]
           outcome == IF Recovered(r) THEN "promoted"
                      ELSE IF Superseded(r) THEN "superseded" ELSE None
           next == IF outcome # None THEN Renewed(d, "receipt")
                   ELSE IF planned THEN AfterPlan(d, r, work) ELSE Renewed(d, "plan")
       IN drainer' = [drainer EXCEPT ![d] = [@ EXCEPT !.pc = next, !.outcome = outcome,
                                                      !.work = work, !.current = published]]
    /\ UNCHANGED <<coordinator, content, bucket, rows, site, operator, wentLive, faults>>

\* writePublicationProgress is unconditional.
PutProgress(d, work) == progress' = [progress EXCEPT ![drainer[d].job] = work]

PutPlan(d) ==
    /\ drainer[d].pc = "plan"
    /\ PutProgress(d, drainer[d].work)
    /\ Go(d, AfterPlan(d, drainer[d].job, drainer[d].work))
    /\ UNCHANGED <<coordinator, content, jobs, deleted, receipt, claim, pages, published, rows, site,
                   operator, wentLive, faults>>

\* The page of one route, rendered from the job's own revision.
PutPage(d) ==
    /\ drainer[d].pc = "page"
    /\ pages' = pages \cup {<<drainer[d].job, Min(Todo(drainer[d].work))>>}
    /\ Go(d, Renewed(d, "note"))
    /\ UNCHANGED <<coordinator, content, jobs, deleted, receipt, claim, progress, published, rows, site,
                   operator, wentLive, faults>>

NoteRoute(d) ==
    /\ drainer[d].pc = "note"
    /\ PutProgress(d, [drainer[d].work EXCEPT !.rendered = @ \cup {Min(Todo(drainer[d].work))}])
    /\ Go(d, "rendered")
    /\ UNCHANGED <<coordinator, content, jobs, deleted, receipt, claim, pages, published, rows, site,
                   operator, wentLive, faults>>

\* What the job publishes: the routes of its plan from its revision, the others as they were.
Incremental(d) ==
    LET plan == drainer[d].work.plan
        r == drainer[d].job
    IN [version |-> jobs[r].version, revision |-> r, source |-> r, edition |-> published.edition + 1,
        routes |-> [rt \in Routes |-> CASE rt \in plan.upsert -> r
                                        [] rt \in plan.remove \ plan.upsert -> 0
                                        [] OTHER -> drainer[d].current.routes[rt]]]

\* Seeded defect: the publication is put without its condition.
UnchangedOrNot(current) == TRUE

\* The etag of current.json; the code draws a random revision for each publication.
UnchangedSince(current) == published.edition = current.edition

\* promoteIncrementalPublication.  A lost race is answered "stale", without a receipt.
Promote(d) ==
    /\ drainer[d].pc = "promote"
    /\ published.edition < MaxEditions
    /\ IF UnchangedSince(drainer[d].current)
       THEN /\ published' = Incremental(d)
            /\ wentLive' = wentLive \cup {drainer[d].job}
            /\ drainer' = [drainer EXCEPT ![d].pc = Renewed(d, "mark"), ![d].outcome = "promoted"]
       ELSE Go(d, "done") /\ UNCHANGED <<published, wentLive>>
    /\ UNCHANGED <<coordinator, content, jobs, deleted, receipt, claim, progress, pages, rows, site,
                   operator, faults>>

\* Seeded defect: the job is deleted before its receipt is written.
MarkAndDelete(d) ==
    /\ drainer[d].pc = "mark"
    /\ PutProgress(d, drainer[d].work)
    /\ Go(d, Renewed(d, "delete"))
    /\ UNCHANGED <<coordinator, content, jobs, deleted, receipt, claim, pages, published, rows, site,
                   operator, wentLive, faults>>

\* completedAt is written to the progress.
Mark(d) ==
    /\ drainer[d].pc = "mark"
    /\ PutProgress(d, drainer[d].work)
    /\ Go(d, Renewed(d, "receipt"))
    /\ UNCHANGED <<coordinator, content, jobs, deleted, receipt, claim, pages, published, rows, site,
                   operator, wentLive, faults>>

\* Seeded defect: a receipt is put over an earlier one.
AnyReceipt(r) == TRUE

\* putImmutableJson accepts only the same bytes again, and a receipt names its time.
NoReceipt(r) == receipt[r] = None

PutReceipt(d) ==
    /\ drainer[d].pc = "receipt"
    /\ LET r == drainer[d].job IN
        IF NoReceipt(r)
        THEN receipt' = [receipt EXCEPT ![r] = drainer[d].outcome] /\ Go(d, "settle")
        ELSE Go(d, "failed") /\ UNCHANGED receipt
    /\ UNCHANGED <<coordinator, content, jobs, deleted, claim, progress, pages, published, rows, site,
                   operator, wentLive, faults>>

Settle(d) ==
    /\ drainer[d].pc = "settle"
    /\ op' = Reconciled(drainer[d].job, drainer[d].outcome)
    /\ Go(d, Renewed(d, "delete"))
    /\ UNCHANGED <<coordinator, content, bucket, dispatch, site, operator, wentLive, faults>>

\* The progress of an orphaned job is left behind.
Delete(d) ==
    /\ drainer[d].pc = "delete"
    /\ deleted' = deleted \cup {drainer[d].job}
    /\ progress' = IF drainer[d].outcome = "orphaned" THEN progress
                   ELSE [progress EXCEPT ![drainer[d].job] = None]
    /\ Go(d, "done")
    /\ UNCHANGED <<coordinator, content, jobs, receipt, claim, pages, published, rows, site, operator,
                   wentLive, faults>>

\* The finally blocks, and what handleQueue makes of the answer or the error: an error on
\* the last delivery is a dead letter.  A claim is released if it is still the consumer's own.
Close(d) ==
    /\ drainer[d].pc \in Leaving
    /\ LET r == drainer[d].job
           own == drainer[d].claimed /\ d \in holders /\ claim[r].by = d
           ends == CASE drainer[d].pc \in {"rendered", "pending"} -> {"open"}
                     [] drainer[d].pc = "done" -> {"done"}
                     [] drainer[d].pc = "failed" -> {"open", "dead"}
       IN
       /\ claim' = IF own THEN [claim EXCEPT ![r] = [by |-> None, expired |-> TRUE]] ELSE claim
       /\ \E end \in ends : dispatch' = [dispatch EXCEPT ![r] = IF @ = "dead" THEN @ ELSE end]
    /\ History!Forget(d)
    /\ drainer' = [drainer EXCEPT ![d] = Idle]
    /\ UNCHANGED <<content, jobs, deleted, receipt, progress, pages, published, op, site, operator,
                   wentLive, faults>>

\* The consumer is evicted: its claim and its lease stay.
Vanish(d) ==
    /\ drainer[d].pc # "idle"
    /\ faults < MaxFaults
    /\ faults' = faults + 1
    /\ basis' = [basis EXCEPT ![d] = None]
    /\ drainer' = [drainer EXCEPT ![d] = Idle]
    /\ UNCHANGED <<version, pointer, receipts, holders, content, bucket, rows, site, operator, wentLive>>

-----------------------------------------------------------------------------
(***************************************************************************)
(* The operator, and time.                                                 *)
(***************************************************************************)

\* publishCanonicalWordPressPages: every chosen route must have a page of the pointer.
OperatorRead ==
    /\ operator = None
    /\ holders = {}
    /\ pointer # None
    /\ published.edition < MaxEditions
    /\ History!Grant(Operator)
    /\ \E chosen \in SUBSET Routes \ {{}} :
        /\ \A rt \in chosen : <<pointer, rt>> \in pages
        /\ operator' = chosen
    /\ UNCHANGED <<content, bucket, rows, drainer, site, wentLive, faults>>

\* The publication is put without a condition, after the last renewal of the lease.
OperatorPut ==
    /\ operator # None
    /\ published.edition < MaxEditions
    /\ published' = [version |-> basis[Operator].version, revision |-> basis[Operator].pointer,
                     source |-> None, edition |-> published.edition + 1,
                     routes |-> [rt \in Routes |->
                        IF rt \in operator THEN basis[Operator].pointer ELSE 0]]
    /\ operator' = None
    /\ History!Forget(Operator)
    /\ UNCHANGED <<content, jobs, deleted, receipt, claim, progress, pages, rows, drainer, site,
                   wentLive, faults>>

\* A renewal finds the lease lost.
OperatorRefused ==
    /\ operator # None
    /\ Operator \notin holders
    /\ operator' = None
    /\ History!Forget(Operator)
    /\ UNCHANGED <<content, bucket, rows, drainer, site, wentLive, faults>>

\* resetCanonicalWordPress forgets the canonical history; what is published stays.
Reset ==
    /\ holders = {}
    /\ pointer # None
    /\ version < MaxVersion
    /\ History!Reset
    /\ UNCHANGED <<content, bucket, rows, drainer, site, operator, wentLive, faults>>

AtWork(w) ==
    CASE w = Site -> site.pc # "idle"
      [] w = Operator -> operator # None
      [] OTHER -> drainer[w].pc # "idle"

\* A lease lapses; while its holder is at work, that is a fault.
Lapse ==
    /\ holders # {}
    /\ History!Revoke
    /\ IF \E w \in holders : AtWork(w)
       THEN faults < MaxFaults /\ faults' = faults + 1
       ELSE UNCHANGED faults
    /\ UNCHANGED <<content, bucket, rows, drainer, site, operator, wentLive>>

\* PUBLICATION_CLAIM_MS pass.
LapseClaim(r) ==
    /\ IsClaimed(r)
    /\ claim' = [claim EXCEPT ![r].expired = TRUE]
    /\ IF AtWork(claim[r].by)
       THEN faults < MaxFaults /\ faults' = faults + 1
       ELSE UNCHANGED faults
    /\ UNCHANGED <<coordinator, content, jobs, deleted, receipt, progress, pages, published, rows,
                   drainer, site, operator, wentLive>>

-----------------------------------------------------------------------------

Mutate ==
    SiteAcquire \/ SiteStage \/ SiteCommit \/ SiteWake \/ SiteComplete \/ SiteAgain \/ SiteVanish

Drain(d) ==
    \/ \E r \in Revisions : Take(d, r)
    \/ ReadJob(d) \/ ClaimPut(d) \/ Look(d) \/ PutPlan(d) \/ PutPage(d) \/ NoteRoute(d) \/ Promote(d)
    \/ Mark(d) \/ PutReceipt(d) \/ Settle(d) \/ Delete(d) \/ Close(d) \/ Vanish(d)

Next ==
    \/ Mutate
    \/ \E d \in Drainers : Drain(d)
    \/ OperatorRead \/ OperatorPut \/ OperatorRefused \/ Reset \/ Lapse
    \/ \E r \in Revisions : Recover(r) \/ Repair(r) \/ LapseClaim(r)
    \/ \E rt \in Routes : Visit(rt)

Spec == Init /\ [][Next]_vars

-----------------------------------------------------------------------------
(***************************************************************************)
(* Properties.                                                             *)
(***************************************************************************)

\* Every published route has its page in R2, whichever consumer rendered it, noted it and
\* promoted it, and under however many lost leases.
\* (drainPublicationJobWhileLeased, publishCanonicalWordPressPages)
PublishedRendered ==
    \A rt \in Existing(published) : <<published.routes[rt], rt>> \in pages

\* A job only ever moves what is published forward: "A stale job cannot overwrite a later
\* canonical version" (README.md, Site Identity), and no route it publishes goes back to an
\* older page.  Only an operator may publish an older revision again.
\* (promoteIncrementalPublication)
PromotionAdvances ==
    [][published' # published /\ published'.source # None =>
        /\ published'.version > published.version
        /\ \A rt \in Routes : published'.routes[rt] # 0 => published'.routes[rt] >= published.routes[rt]]_vars

\* An operation's publication outcome is the one in the job's receipt, and a receipt that
\* says promoted tells the truth, however many consumers drained the job and lost its lease,
\* its claim or their memory.
\* (putImmutableJson, reconcilePublication, recoveredPromotion)
OutcomeIsReceipt ==
    \A r \in Revisions :
        /\ op[r] \in Outcomes => op[r] = receipt[r]
        /\ receipt[r] = "promoted" => r \in wentLive

\* A job is deleted only when it was answered for good.  It may be drained and gone before its
\* operation even waits for it, since it is woken before the operation is completed: the receipt
\* is all that can tell the operation then.  And what is answered "orphaned" is a commit that
\* has left the history, never one that is still to come.
\* (drainPublicationJobWhileLeased, the dispatch after commitLease)
DeletedIsAnswered ==
    \A r \in deleted :
        /\ receipt[r] # None
        /\ receipt[r] = "orphaned" => receipts[jobs[r].version] # r

\* What is published shows no page older than the revision it was published for: "Unchanged
\* route entries retain their older canonical artifacts" (packages/runtime-cloudflare/README.md),
\* changed ones do not.
\* (publicationPlan, the superseded branch of drainPublicationJobWhileLeased)
PublishedIsFresh ==
    \A rt \in Existing(published) :
        content[published.routes[rt]][rt] = content[published.revision][rt]

=============================================================================
