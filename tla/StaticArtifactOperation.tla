---------------------- MODULE StaticArtifactOperation ----------------------
(***************************************************************************)
(* Static artifact operations of one site: the rows of                     *)
(* d1-operation-repository.ts, the queue consumers that run them           *)
(* (runStaticArtifactOperation and the import route of                     *)
(* runCoordinatedWordPressRequest in worker.ts) and the canonical history  *)
(* they commit to, which is the register RevisionHistory promises.         *)
(*                                                                         *)
(* Every D1 statement or batch, and every coordinator call, is one step.   *)
(* A consumer may be evicted between any two, a statement may throw, and a *)
(* commit may be applied although its answer is lost.  A claim's clock is  *)
(* the flag lapsed: a claim may lapse at any time, and a statement bound   *)
(* before that may still land after it.                                    *)
(***************************************************************************)
EXTENDS Naturals

CONSTANTS
    Ops,            \* operation ids of the site, each with its idempotency key
    Workers,        \* queue consumer invocations
    Site,           \* every other canonical mutation of the site
    None,           \* SQL NULL
    AttemptLimit,   \* attempts after which an error is final
    MaxClaims,      \* bound on the claims of one operation
    MaxRevisions,   \* bound on the revisions persisted
    MaxVersion      \* bound on the canonical version

VARIABLES
    op,             \* operation id -> its row
    worker,         \* consumer -> its local state
    version, pointer, receipts, basis, holders,  \* the coordinator, as in RevisionHistory
    drawn,          \* revisions persisted so far
    landed          \* history: every commit that was applied

coordinator == <<version, pointer, receipts, basis, holders>>
vars == <<op, worker, version, pointer, receipts, basis, holders, drawn, landed>>

Versions == 1..MaxVersion
Writers == Workers \cup {Site}

\* A canonical pointer with what matters of the content it names: who wrote it, and
\* the idempotency records the importer finds in the site's options.
Pointers == [revision: 1..MaxRevisions, author: Ops \cup {Site}, imports: SUBSET Ops]

Commits == [version: Versions, pointer: Pointers]
Prepared == [version: Versions, pointer: Pointers, job: BOOLEAN]
Leases == [version: 0..MaxVersion, pointer: Pointers \cup {None}]

ASSUME NoneAssumption == /\ None \notin Ops \cup Pointers \cup Prepared \cup Leases
                         /\ Site \notin Ops \cup Workers \cup {None}
ASSUME BoundAssumption == {AttemptLimit, MaxClaims, MaxRevisions, MaxVersion} \subseteq Nat

Active == {"queued", "running", "retryable"}
Terminal == {"succeeded", "failed"}
States == {"absent", "publication-pending"} \cup Active \cup Terminal

\* Where a consumer stands.  In the steps of Beats it renews its claim next.
Beats == {"start", "booting", "imported", "committing"}
Owning == Beats \cup {"claimed", "check", "acquire", "import", "prepare", "commit", "record",
                      "reread", "complete", "retrying", "failing"}

\* Seeded defect: a row created without a count of its attempts.
AbsentUncounted == [state |-> "absent", attempts |-> None, token |-> 0, lapsed |-> FALSE,
                    prepared |-> None, receipt |-> None]

Absent == [state |-> "absent", attempts |-> 0, token |-> 0, lapsed |-> FALSE,
           prepared |-> None, receipt |-> None]
IdleWorker == [pc |-> "idle", op |-> None, token |-> 0, attempts |-> 0, prepared |-> None,
               lease |-> None, next |-> None, job |-> FALSE]

History == INSTANCE RevisionHistory

TypeOK ==
    /\ op \in [Ops -> [state: States, attempts: 0..MaxClaims, token: 0..MaxClaims,
                       lapsed: BOOLEAN, prepared: Prepared \cup {None},
                       receipt: Prepared \cup {None}]]
    /\ worker \in [Workers -> [pc: Owning \cup {"idle"}, op: Ops \cup {None},
                               token: 0..MaxClaims, attempts: 0..MaxClaims,
                               prepared: Prepared \cup {None}, lease: Leases \cup {None},
                               next: Pointers \cup {None}, job: BOOLEAN]]
    /\ version \in 0..MaxVersion
    /\ pointer \in Pointers \cup {None}
    /\ receipts \in [Versions -> Pointers \cup {None}]
    /\ basis \in [Writers -> Leases \cup {None}]
    /\ holders \in SUBSET Writers
    /\ drawn \in 0..MaxRevisions
    /\ landed \in SUBSET Commits

Init ==
    /\ op = [o \in Ops |-> Absent]
    /\ worker = [w \in Workers |-> IdleWorker]
    /\ History!Init
    /\ drawn = 0
    /\ landed = {}

-----------------------------------------------------------------------------
(***************************************************************************)
(* The operation row.                                                      *)
(***************************************************************************)

\* createOrConverge: the partial unique index admits one active operation per site.
Create(o) ==
    /\ op[o].state = "absent"
    /\ \A other \in Ops : op[other].state \notin Active
    /\ op' = [op EXCEPT ![o].state = "queued"]
    /\ UNCHANGED <<worker, coordinator, drawn, landed>>

\* claim_expires_at passes.
Lapse(o) ==
    /\ op[o].state = "running"
    /\ ~op[o].lapsed
    /\ op' = [op EXCEPT ![o].lapsed = TRUE]
    /\ UNCHANGED <<worker, coordinator, drawn, landed>>

Claimable(o) ==
    \/ op[o].state \in {"queued", "retryable"}
    \/ op[o].state = "running" /\ op[o].lapsed

\* claimExact's batch.  A claim token is drawn once per claim, so the attempt's number
\* stands for it.
Claim(w, o) ==
    /\ worker[w].pc = "idle"
    /\ Claimable(o)
    /\ op[o].attempts < MaxClaims
    /\ LET n == op[o].attempts + 1 IN
        /\ op' = [op EXCEPT ![o] = [@ EXCEPT !.state = "running", !.attempts = n,
                                             !.token = n, !.lapsed = FALSE]]
        /\ worker' = [worker EXCEPT ![w] = [IdleWorker EXCEPT !.pc = "claimed", !.op = o,
                                                              !.token = n]]
    /\ UNCHANGED <<coordinator, drawn, landed>>

\* claimExact reads the row back in a statement of its own.
ReadClaim(w) ==
    /\ worker[w].pc = "claimed"
    /\ LET row == op[worker[w].op] IN
        worker' = [worker EXCEPT
            ![w] = [@ EXCEPT !.attempts = row.attempts, !.prepared = row.prepared,
                             !.pc = IF row.prepared = None THEN "start" ELSE "check"]]
    /\ UNCHANGED <<op, coordinator, drawn, landed>>

\* Seeded defect: an update checks that the operation runs, not who runs it.
OwnsAny(w) == op[worker[w].op].state = "running"

\* The WHERE clause of ownedUpdate and terminalBatch.
Owns(w) ==
    /\ op[worker[w].op].state = "running"
    /\ op[worker[w].op].token = worker[w].token

\* An update of the row that matched.
Update(w, row, pc) ==
    /\ op' = [op EXCEPT ![worker[w].op] = row]
    /\ worker' = [worker EXCEPT ![w].pc = pc]
    /\ UNCHANGED <<coordinator, drawn, landed>>

\* What the catch block of runStaticArtifactOperation decides.
AfterError(w) == IF worker[w].attempts >= AttemptLimit THEN "failing" ELSE "retrying"

\* The consumer is done with its message.
Leave(w) == worker' = [worker EXCEPT ![w] = IdleWorker]

-----------------------------------------------------------------------------
(***************************************************************************)
(* One consumer, step by step.                                             *)
(***************************************************************************)

\* Seeded defect: a receipt of the prepared version, whatever its pointer.
shouldRecoverByVersion(prepared) == receipts[prepared.version] # None

\* shouldRecoverPreparedCommit, asked with coordinator.committed(prepared.version).
shouldRecoverPreparedCommit(prepared) == receipts[prepared.version] = prepared.pointer

CheckReceipt(w) ==
    /\ worker[w].pc = "check"
    /\ worker' = [worker EXCEPT
        ![w].pc = IF shouldRecoverPreparedCommit(worker[w].prepared) THEN "reread" ELSE "start"]
    /\ UNCHANGED <<op, coordinator, drawn, landed>>

\* renew and checkpoint; the heartbeats of one phase are one step.
Heartbeat(w) ==
    /\ worker[w].pc \in Beats
    /\ Owns(w)
    /\ Update(w, [op[worker[w].op] EXCEPT !.lapsed = FALSE],
              CASE worker[w].pc = "start" -> "acquire"
                [] worker[w].pc = "booting" -> "import"
                [] worker[w].pc = "imported" -> "prepare"
                [] worker[w].pc = "committing" -> "commit")

\* readStaticArtifactImport throws a StaticArtifactImportError, which no retry mends.
BadInput(w) ==
    /\ worker[w].pc = "acquire"
    /\ worker' = [worker EXCEPT ![w].pc = "failing"]
    /\ UNCHANGED <<op, coordinator, drawn, landed>>

Acquire(w) ==
    /\ worker[w].pc = "acquire"
    /\ History!Grant(w)
    /\ worker' = [worker EXCEPT ![w].pc = "booting", ![w].lease = History!Current]
    /\ UNCHANGED <<op, drawn, landed>>

Draw(author, imports) == [revision |-> drawn + 1, author |-> author, imports |-> imports]

Land(p) == landed' = landed \cup {[version |-> version + 1, pointer |-> p]}

\* bootstrapCanonicalRuntime: a lease on an empty site is spent on the seed.
Bootstrap(w) ==
    /\ worker[w].pc = "booting"
    /\ worker[w].lease.pointer = None
    /\ drawn < MaxRevisions
    /\ History!Commit(w, Draw(Site, {}))
    /\ Land(Draw(Site, {}))
    /\ drawn' = drawn + 1
    /\ worker' = [worker EXCEPT ![w].pc = "acquire", ![w].lease = None]
    /\ UNCHANGED op

\* Seeded defect: the importer forgets what it has imported.
DuplicateNever(w) == FALSE

\* The importer's own record of the key in the options of the site it booted.
Duplicate(w) == worker[w].op \in worker[w].lease.pointer.imports

\* The importer applies the artifact, and the result is persisted as a new revision with
\* a publication job if any route is affected.
Import(w) ==
    /\ worker[w].pc = "import"
    /\ worker[w].lease.pointer # None
    /\ ~Duplicate(w)
    /\ drawn < MaxRevisions
    /\ drawn' = drawn + 1
    /\ LET key == worker[w].op
           result == Draw(key, worker[w].lease.pointer.imports \cup {key})
       IN \E job \in BOOLEAN :
            worker' = [worker EXCEPT ![w].pc = "imported", ![w].job = job, ![w].next = result]
    /\ UNCHANGED <<op, coordinator, landed>>

\* "duplicate", "conflict", "failed" or "quality-failed": the lease is released, and the
\* consumer finds no import receipt.
NotImported(w) ==
    /\ worker[w].pc = "import"
    /\ History!Forget(w)
    /\ worker' = [worker EXCEPT ![w].pc = AfterError(w)]
    /\ UNCHANGED <<op, drawn, landed>>

Prepare(w) ==
    /\ worker[w].pc = "prepare"
    /\ Owns(w)
    /\ worker[w].lease.version < MaxVersion
    /\ Update(w, [op[worker[w].op] EXCEPT
                    !.prepared = [version |-> worker[w].lease.version + 1,
                                  pointer |-> worker[w].next, job |-> worker[w].job]],
              "committing")

\* commitLease: applied, and told or not.
Commit(w) ==
    /\ worker[w].pc = "commit"
    /\ History!Commit(w, worker[w].next)
    /\ Land(worker[w].next)
    /\ \E pc \in {"record", AfterError(w)} : worker' = [worker EXCEPT ![w].pc = pc]
    /\ UNCHANGED <<op, drawn>>

\* recordCommit writes the stage only.
RecordCommit(w) ==
    /\ worker[w].pc = "record"
    /\ Owns(w)
    /\ Update(w, op[worker[w].op], "reread")

\* complete reads the row, and writes the receipt in a later batch.
ReadPrepared(w) ==
    /\ worker[w].pc = "reread"
    /\ op[worker[w].op].prepared # None
    /\ worker' = [worker EXCEPT ![w].pc = "complete", ![w].prepared = op[worker[w].op].prepared]
    /\ UNCHANGED <<op, coordinator, drawn, landed>>

Complete(w) ==
    /\ worker[w].pc = "complete"
    /\ Owns(w)
    /\ LET job == worker[w].job \/ worker[w].prepared.job IN
        op' = [op EXCEPT ![worker[w].op] =
            [@ EXCEPT !.state = IF job THEN "publication-pending" ELSE "succeeded",
                      !.token = 0, !.lapsed = FALSE,
                      !.receipt = [worker[w].prepared EXCEPT !.job = job]]]
    /\ Leave(w)
    /\ UNCHANGED <<coordinator, drawn, landed>>

\* retry and fail.  The prepared commit stays in the row.
Finish(w) ==
    /\ worker[w].pc \in {"retrying", "failing"}
    /\ Owns(w)
    /\ op' = [op EXCEPT ![worker[w].op] =
        [@ EXCEPT !.state = IF worker[w].pc = "failing" THEN "failed" ELSE "retryable",
                  !.token = 0, !.lapsed = FALSE]]
    /\ Leave(w)
    /\ UNCHANGED <<coordinator, drawn, landed>>

\* The catch blocks: a statement threw, an update of the row matched nothing, or the
\* coordinator refused.  The lease is given back, and the error decides the attempt.
Trouble(w) ==
    /\ worker[w].pc \in Owning \ {"claimed", "retrying", "failing"}
    /\ History!Forget(w)
    /\ worker' = [worker EXCEPT ![w].pc = AfterError(w)]
    /\ UNCHANGED <<op, drawn, landed>>

\* The claim is lost at the end, or the consumer is evicted: what it knew is gone, and a
\* lease it held is left to expire.
Vanish(w) ==
    /\ worker[w].pc # "idle"
    /\ Leave(w)
    /\ History!Forget(w)
    /\ UNCHANGED <<op, drawn, landed>>

-----------------------------------------------------------------------------
(***************************************************************************)
(* Everybody else.                                                         *)
(***************************************************************************)

\* Seeded defect: a second reconciliation of the same job is not recognised.
ReconcileAgain(o) ==
    /\ op[o].receipt # None
    /\ \E outcome \in Terminal : op' = [op EXCEPT ![o].state = outcome]
    /\ UNCHANGED <<worker, coordinator, drawn, landed>>

\* The receipt of the operation's publication job reaches reconcilePublication: the job
\* was orphaned only if its commit is not in the history.
Reconcile(o) ==
    /\ op[o].state = "publication-pending"
    /\ LET ours == receipts[op[o].receipt.version] = op[o].receipt.pointer IN
        \E outcome \in IF ours THEN Terminal ELSE {"failed"} :
            op' = [op EXCEPT ![o].state = outcome]
    /\ UNCHANGED <<worker, coordinator, drawn, landed>>

\* Another request, job or cron run takes a lease and commits under it.
SiteAcquire ==
    /\ History!Grant(Site)
    /\ UNCHANGED <<op, worker, drawn, landed>>

SiteCommit ==
    /\ drawn < MaxRevisions
    /\ LET p == Draw(Site, IF pointer = None THEN {} ELSE pointer.imports) IN
        /\ History!Commit(Site, p)
        /\ Land(p)
    /\ drawn' = drawn + 1
    /\ UNCHANGED <<op, worker>>

\* The operator resets the site, once the lease is overdue or given back.
SiteReset ==
    /\ pointer # None
    /\ version < MaxVersion
    /\ History!Reset
    /\ UNCHANGED <<op, worker, drawn, landed>>

LeaseOverdue ==
    /\ holders # {}
    /\ History!Revoke
    /\ UNCHANGED <<op, worker, drawn, landed>>

-----------------------------------------------------------------------------

Work(w) ==
    \/ \E o \in Ops : Claim(w, o)
    \/ ReadClaim(w) \/ CheckReceipt(w) \/ Heartbeat(w) \/ BadInput(w)
    \/ Acquire(w) \/ Bootstrap(w) \/ Import(w) \/ NotImported(w)
    \/ Prepare(w) \/ Commit(w) \/ RecordCommit(w) \/ ReadPrepared(w) \/ Complete(w)
    \/ Finish(w) \/ Trouble(w) \/ Vanish(w)

Next ==
    \/ \E o \in Ops : Create(o) \/ Lapse(o) \/ Reconcile(o)
    \/ \E w \in Workers : Work(w)
    \/ SiteAcquire \/ SiteCommit \/ SiteReset \/ LeaseOverdue

Spec == Init /\ [][Next]_vars

-----------------------------------------------------------------------------
(***************************************************************************)
(* Properties.                                                             *)
(***************************************************************************)

CommittedBy(o, v) == receipts[v] # None /\ receipts[v].author = o

\* However often an operation is claimed, retried or taken over, the site's history holds
\* at most one commit of it.
\* (runStaticArtifactOperation, shouldRecoverPreparedCommit, the importer's records)
ImportedOnce ==
    \A o \in Ops, v, u \in Versions : CommittedBy(o, v) /\ CommittedBy(o, u) => v = u

\* The receipt of a completed operation names a commit that was applied, at the version it
\* says, and that the operation itself made: a version match alone cannot claim another
\* mutation's commit (README.md, Static Artifact Import).
\* (complete, shouldRecoverPreparedCommit)
ReceiptIsOwnCommit ==
    \A o \in Ops : op[o].receipt # None =>
        LET r == op[o].receipt IN
        /\ [version |-> r.version, pointer |-> r.pointer] \in landed
        /\ r.pointer.author = o

\* While an operation can still be claimed, its row names the commit it made, if it made
\* one: whoever takes over finds it.
\* (prepareCommit before commitLease)
CommitIsPrepared ==
    \A o \in Ops, v \in Versions : op[o].state \in Active /\ CommittedBy(o, v) =>
        /\ op[o].prepared # None
        /\ op[o].prepared.version = v
        /\ op[o].prepared.pointer = receipts[v]

\* An outcome is final: no consumer that lost its claim overwrites it, and the receipt is
\* written once.
\* (terminalBatch, reconcilePublication)
OutcomeStands ==
    [][\A o \in Ops :
        /\ op[o].state \in Terminal => op'[o] = op[o]
        /\ op[o].receipt # None => op'[o].receipt = op[o].receipt]_vars

=============================================================================
