# WP Codebox: a TLA+ verification project

WP Codebox runs disposable WordPress sites in PHP-WASM: locally through the CLI and the Playground
runtime, and as a hosted service on Cloudflare (`packages/runtime-cloudflare`). This project models
the parts of the repository in which concurrent actors share state: the hosted runtime's
coordinators, its durable operations, dispatch queue, publication and allocations, and of the local
runtime the lock of its archive cache and its executor of run plans. TLC checks the models on small
instances; TLAPS proves their safety properties for every instance. Paths below are relative to the repository.

## 1. Inventory

### 1.1 The hosted runtime (`packages/runtime-cloudflare/src`)

A *site* has canonical WordPress content as immutable objects in R2. Which content is current is
one *pointer* (revision, manifest key, time stamp) with a *version*, kept by a *coordinator*. Every
mutation takes a lease, boots WordPress on the pointer it was given, writes a new immutable revision
to R2 and commits its pointer under the lease. Requests, queue consumers, the cron and operators run
in separate, evictable worker invocations and share only D1, R2, the queue and the coordinator.

| Component | Source | State | Operations | What is hard | What makes it correct |
| --- | --- | --- | --- | --- | --- |
| Coordinator contract | `revision-coordinator.ts` | pointer, version, receipts, lease | acquire, renew, commit, release, abort, committed, adopt, reset, fence operations | two implementations, one promise | a commit replaces exactly what its lease was granted on; receipts are immutable |
| D1 coordinator | `d1-revision-coordinator.ts` | one state row, one fence row, a table of commits | SQL statements and batches, each atomic | every statement compares expiries with a clock read before it runs; several calls take more than one statement | one writer at a time; receipts are the history; adoption, reset and fence respect a live lease |
| Durable Object coordinator | `state-coordinator.ts` | one stored record, one receipt per version, `current.json` in R2 | handlers, chained one after another | a handler awaits R2 between durable writes; eviction; lost replies; a first record is seeded from R2 | a reset site stays empty; no overwritten commit; a fence freezes the state |
| Static artifact operations | `d1-operation-repository.ts`, `worker.ts` | operation and attempt rows: state, claim token and expiry, prepared commit, receipt | create or converge, claim, heartbeat, prepare, commit, record, complete, retry, fail, reconcile | claims lapse and are taken over in the middle; a commit's answer is lost; other writers and resets interfere | imported once; the receipt names the operation's own commit; outcomes are final |
| Runtime dispatch | `d1-operation-repository.ts`, `queue-batch.ts`, `queue-dispatch.ts`, `worker.ts` | dispatch rows, dead letters, queue messages | stage, admit, send, process, continue, retry, complete, dead-letter, cron repair | the send is not transactional; delivery at least once and at most four times; eviction; admission limits | created work always ends as done or as a dead letter; a dead letter stays one; admission bounds what is active |
| Publication | `worker.ts` 815-1205 | jobs, progress, claims, receipts and `published/current.json` in R2 | enqueue, claim by etag, render a route, promote, record a receipt | leases and claims are lost between any two writes; promotion races the operator's publication; crash after promotion | a job only moves what is published forward; every published route has its page; an operation's outcome is its job's one receipt |
| Canonical content | `worker.ts` 1662-2030, `wp-content-persistence.ts`, `upload-persistence.ts` | content-addressed R2 objects | persist, read, verify | size budgets | a pointer names a complete manifest |
| Isolate runtime cache | `worker.ts` 1546-1600 | one promise per site | get, cache, discard | requests share the promise across awaits | nobody disposes of a runtime in use |
| Allocation lifecycle | `allocation-lifecycle.ts` | lifecycle row with fences and cursor, deletion receipt | create, renew, begin deletion, expire, reclaim by page | late writers during reclamation, and writers that are never asked; overlapping cron runs; crash between marking and cancelling | a tombstone means that all that was admitted is gone; no operation after the mark, no revival |
| Credentials and provisioning | `principal-credential-repository.ts`, `provisioning-api.ts`, `administrator-secret-bindings.ts` | principals, tokens, provision records, administrator claims | issue, revoke, provision, redeem | replays, quotas, root rotation | a claim is redeemed once; a key converges on one allocation |
| WordPress cron | `worker.ts` 1760-1818 | none of its own | due events of one site per minute | runs beside requests, and does not ask `assertActive` | one more writer to the coordinator |
| Reads | `public-reader.ts`, `published-reader.ts`, `wordpress-static-reader.ts`, `request-routing.ts` | edge cache | GET | caches | immutable objects only |
| Operator routes, configuration, archives | `operator-coordinator.ts`, `site-context.ts`, `canonical-restore-pack.ts`, `wordpress-runtime-artifact.ts` and others | none | parse, authorize, verify hashes | - | pure functions |

How they interact: a request for an import creates an operation row and stages a dispatch; the
dispatch is admitted and sent to the queue; a consumer claims the operation, takes a lease from the
coordinator, imports, *prepares* the commit in the operation row, commits at the coordinator,
dispatches the publication job, completes the operation and dispatches the job again; a delivery
drains the job route by route, under leases of its own, and its R2 receipt is reconciled into the
operation.
The cron repairs rows whose message was lost. Operators may fence a site, adopt a pointer into
another coordinator, or reset a site at any time.

### 1.2 The rest of the repository

| Component | Source | State and hard behaviour |
| --- | --- | --- |
| Run registry, preview leases | `runtime-core/src/run-registry.ts`, `cli/src/commands/preview-lease.ts` | JSON records changed by read, modify and rename in several processes without a lock |
| Run plans, fan-out | `runtime-core/src/run-plan.ts`, `fanout-*.ts`, `cli/src/agent-fanout.ts` | dependency graph run with bounded concurrency, timeouts, skipped dependents |
| Archive cache | `runtime-playground/src/playground-wordpress-archive-cache.ts` | lock directories with lease files, stale takeover by separate system calls, references against eviction |
| Playground runtime | `runtime-playground/src` | php-wasm boot, previews, browser probes: one command at a time around external programs |
| Contracts and schemas | `runtime-core/src` | pure data and validation |
| CLI | `cli/src` | process and file I/O |
| WordPress plugin | `packages/wordpress-plugin` | request-scoped PHP |
| Build, overlays, fixtures, vendored code | `scripts`, `runtime-overlays`, `contracts`, `vendor` | none |

## 2. Plan

Done, in this order, most important first:

1. `RevisionHistory`: the abstract register a coordinator promises.
2. `D1RevisionCoordinator`, checked, proved, and shown to implement 1.
3. `StateCoordinator`: the Durable Object's handlers and crashes.
4. `StaticArtifactOperation`: durable operations, composed with 1 through INSTANCE.
5. `RuntimeDispatch`: the queue, with fairness and liveness.
6. `Publication`: jobs, claims, promotion, receipts and the operator's publication, composed with 1.
7. `AllocationLifecycle`: expiry, deletion in pages and tombstones, with late writers and failing crons.
8. `ArchiveCacheLock`: the lock of the local archive cache, with fairness and liveness.
9. `RunPlan`: the executor of run plans, with liveness.
10. Proofs: `IndInv` of each module, and from it every invariant and action property its passing runs
    check (section 7).

Next: coordinators and operations are proved apart from each other, each against the contract; what is
left is to state for `StateCoordinator` the part of the contract it does keep, an abstract register
whose versions may restart, and to prove it an implementation. The constants' assumptions are named in
each module and no module declares a RECURSIVE operator.

## 3. The modules

### RevisionHistory

The contract of `RevisionCoordinator` without tokens, clocks or fences. `version`, `pointer` and
`receipts` are the register and the receipt of each version; `basis` says what each writer believes
its lease was granted on, and `holders` whose lease still counts. `Grant` makes its writer the only
holder. `Commit` needs a holder whose `basis` is the current value *in full*, and a free receipt.

### D1RevisionCoordinator

`pointer`, `version` and `lease` are the columns of `wp_codebox_state`, `fence` the row of
`wp_codebox_fences`, `receipts` the table `wp_codebox_commits`. `clock` is `Date.now()`. `call[c]` is
the call caller `c` is in: the operation, the clock as it was bound (`at`) and the token it carries.
`held[c]` is the `RevisionLease` it was given.

`Begin` enters an operation and binds the clock; the statement itself is a later step, so it runs with
a clock reading of any age. Each SQL statement or batch is one action whose guard is its WHERE clause
(`CanAcquire`, `CanRenew`, `CanCommit`, `CanAcquireFence`, `CanAdopt`, `CanReset`); a statement that
matches nothing is `Conflict`. `beginStateLease` is two steps, the UPDATE (`Acquire`) and the row read
back (`ReadGrant`); `adoptWordPressState` is the fence read (`AdoptCheck`) and the batch (`Adopt`). The
second statement of the commit and adoption batches is INSERT OR IGNORE (`AddReceipt`). `Vanish` is the
eviction of a worker, at any point, also while it holds a lease.

Left out: schema creation, row parsing, pointer validation, the re-read that only chooses adoption's
answer. One clock is assumed for all workers; skew between machines is not modelled beyond what an
old reading shows.

### StateCoordinator

`stored` is the record under `STORAGE_KEY`, `receipts` the keys `wordpress-state-commit/<version>`,
`current` is `markdown/current.json`. `fetch` chains requests, so a handler is one step, except commit
and reset, which await R2 between durable writes: `CommitPut` and `CommitStore`, `ResetDelete` and
`ResetStore`, with `handler` holding what the first half read. `Serialized` is the chain. `Evict` drops
a handler in the middle. `Reply` delivers an answer or loses it. `Record` is `record()`, which seeds a
first record from R2, and which even a refused or read-only request may store (`Answer`).
`everStored` remembers that the site is no longer new.

### StaticArtifactOperation

`op` holds the rows of `wp_codebox_operations`, `worker` the state of each queue consumer in
`runStaticArtifactOperation`, statement by statement (`pc`). The coordinator is `RevisionHistory`
itself: `Acquire`, `Commit`, `Bootstrap` and `Trouble` take its steps. A pointer carries what matters
of its content: who wrote it and the importer's idempotency records. `Lapse` is the claim expiring;
`Owns` ignores it, because a statement bound before the expiry may land after. `Commit` may lose its
answer. `Trouble` is any error the catch blocks see, `Vanish` an eviction or a lost claim. `Site` is
every other writer, and `SiteReset` an operator.

The operation repository exists in the D1 profile only, where the coordinator is the D1 one; its reset
moves the version on, as `RevisionHistory!Reset` does.

### RuntimeDispatch

`row` holds `wp_codebox_runtime_dispatches` (with `due` for retry_at and `stale` for an updated_at older
than the ten minutes of `claimMs`, and the dead-letter evidence), `queue` the messages with the
deliveries they have had, `producer`, `consumer` and `cron` the actors. `Stage`, `Admit`, `Send` and
`Record` are `dispatchRuntimeWork`; `Repair`, `Sweep`, `Select`, `CronAdmit`, `CronSend` and `CronRecord`
are `scheduled` with `repairMissingDispatches` and `pendingDispatches`, whose SELECT is a snapshot used
later; `Start`, `Settle`, `Fenced`, `Unsettled`, `Completed`, `Retried`, `Continue`, `Resend`, `Resent`
and `Caught` are `handleQueue`. `Deliver`, `Again` and `ConsumerGone` are the queue service: delivery at
least once, and none after 1 + `max_retries` of `wrangler.d1.jsonc`.

Abstractions: `work` says only whether the operation or publication job is open or settled; identical
messages with the same number of deliveries count as one; `admitDispatch`'s UPDATE and the read that
explains a refusal are one step; the lane's alternation is any choice of whom to skip (`Skip`); the
cron's limit of 32 is above any instance.

### Publication

`version` to `holders` are the coordinator, whose steps are those of `RevisionHistory`; `content` says
for each revision which earlier revision last changed each page. `jobs`, `claim`, `progress`, `pages`,
`receipt` and `published` are the R2 objects, `dispatch` and `op` the D1 rows, `drainer[d]` the locals of
`drainPublicationJobWhileLeased` in consumer `d`.

`SiteAcquire` to `SiteAgain` are a canonical mutation: it stages its job before the commit, for the
version the commit will make, and dispatches it right afterwards (`SiteWake`), an import's too. Only
then is an import's operation completed (`SiteComplete`), which makes its row publication-pending, and
the job dispatched a second time (`SiteAgain`), which changes nothing if a row is there. So the job may
be drained, receipted and deleted while the row still says running. `Recover` is a later claimant that
finds the commit and completes the row without a dispatch. `Take` reconciles what has a receipt and
acquires the lease; `ReadJob`, `ClaimPut`, `Look`, `PutPlan`, `PutPage`, `NoteRoute`, `Promote`, `Mark`,
`PutReceipt`, `Settle`, `Delete` are the drain between two awaits each; `Close` is the `finally` with
`handleQueue`'s verdict. `renewLease` precedes a write in the code; the model takes it together with
the write *before* it (`Renewed`), so that the lease may lapse between a renewal and its write.
`OperatorRead` and `OperatorPut` are `publishCanonicalWordPressPages`. `Lapse` and `LapseClaim` are
time; `Vanish` and `SiteVanish` evictions.

Abstractions: an edition number stands for the etag of `current.json`; the immutable copies of each
publication are left out; a page is its revision; rendering a route fails exactly when the revision
does not have it. The queue's retries are `dispatch` staying open (its own rules are `RuntimeDispatch`'s).

### AllocationLifecycle

`row` is the site's row in `wp_codebox_site_lifecycles`, `receipts` its deletion receipt, `objects` and
`strays` what `sites/<id>/` holds in R2: what writers put that `assertActive` admitted, and what others
put. `op` are its operation rows, `request` when an invocation was admitted. `cron[c]` holds what one
cron run read: its scheduled time, fence, cursor, count, page.

`Renew`, `OwnerDelete` and `OwnerCancel` are the owner's calls, `Create`, `Claim` and `Work` the operation
statements guarded by `activeLifecycle`, `Enter` is `assertActive` and `Put` a write of the invocation it
admitted. Two writers of `worker.ts` do not pass `assertActive`. The second half of `scheduled` takes a
site that is configured, or whose row `activeSites` reads as active whatever its expiry, and runs its
WordPress events (`CronSites`, `CronEvent`, `CronBounded`; the model begins that half as a run of its own,
at any time). A request for `?phase=health` is of no protected route and boots a site that has no
canonical revision (`Bootstrap`); whether it has one is left open, so the model lets it happen more often
than the code. Both may put objects while a deletion waits for its retention, behind the cursor of a
reclamation, and after the tombstone. `CronSelect` to `CronTombstone` are `expire`, `pendingDeletions` and `reclaim`, one SQL
statement or R2 call each; `CronGone` is an error or eviction of a run anywhere between them.

The assumption `Grace` says what the retention is for: an invocation writes for less than `WriteTime`
after its admission, and `WriteTime` with the age of a clock reading stays within `RetainMs`, one hour
in the code against the platform's limits of minutes. Without it `TombstoneIsEmpty` does not hold. The
grace is needed: `retain_until` is the earlier of the two dates, so a site that was expired late, since
each minute expires one, is reclaimed as soon as it is marked; its requests have ended by then because
none was admitted after the expiry.

### ArchiveCacheLock

The directory at `lockPath`: who made it (`maker`), the age of its mtime, the lease files in it
(`linked`), how long they last (`left`). `current` are the processes whose `stat` or handle is of the
directory that is at the path now; a handle of a removed one finds and creates nothing, which is what
descriptor-relative access gives. `proc[p]` is where a process stands and what its inspection found.

`Mkdir`, `Stat`, `Open`, `Create`, `Acquire` are `tryAcquireCacheLock` with `createFileLease`;
`Heartbeat` and `Release` `heartbeatLease`; `Look`, `LookStat`, `LookOpen`, `List`, `Inspect`, `Unlink`,
`Inspected` `cacheLockIsActive`, which stats the path twice, first for the mtime and then to open it: a
directory exchanged in between is judged by the age of the earlier one; `Check` and `Rmdir` `removeLeaseDirectoryIfCurrent`. `Init` is any leftover of a
process that died. Times are relative, so runs are infinite without a bound on the clock. A pause
while making the lock, or a death, is a fault; `Tick` waits for heartbeats and for an inspection to end
within `MaxLag`.

### RunPlan

`results`, `running` and `active` are the locals of `runDependencyAwareConcurrent`, `ended` what became
of its promise. A settled worker's callback records the result and pumps in one JavaScript turn, so
`Settle`, `Skip` and `Begin` contain `Pump`. `Throw` is an adapter or hook that rejects: the callback of
`then` is not run, so the worker keeps its place, but others go on pumping. `Init` is every plan
`validateRunPlanDependencies` accepts, with every concurrency. `Ancestors` is what its `visit` reaches from
a worker: the least set that holds the worker's dependencies and those of its members.

## 4. Runs

| Run | Shows | Bounds | States, about |
| --- | --- | --- | --- |
| `d1_coordinator` | the D1 coordinator's invariants and action properties, `IndInv` of the proofs, and `LinearHistory`, the refinement of `RevisionHistory` | 2 callers, 3 tokens, 2 revisions, lease lifetimes 1 and 2, fence lifetime 2, clock to 3, version to 2 | 930 000 |
| `do_coordinator` | `ResetSticks`, `NoOverwrite`, `ReceiptForCurrent`, `FenceFreezes`, `FenceExcludesLease`, `PastReceiptsStand` | same kind of instance | 161 000 |
| `static_artifact` | `ImportedOnce`, `ReceiptIsOwnCommit`, `CommitIsPrepared`, `OutcomeStands` | 1 operation, 2 consumers, 3 claims, 4 revisions, version to 3 | 1 140 000 |
| `dispatch` | liveness: `DispatchEnds` | an operation and a publication, one place, 1 consumer, 2 deliveries before a dead letter, 3 in all, 2 faults | 450 000 |
| `dead_letters` | `DeadLetterStands` | 1 publication, 2 consumers, 3 and 4 deliveries, 4 faults, fences | 3 450 000 |
| `fenced_publication` | violation, under fairness: a fenced publication is never taken up again | 1 publication, no faults | - |
| `publication` | `PublishedRendered`, `PromotionAdvances`, `OutcomeIsReceipt`, `DeletedIsAnswered` | 2 consumers, 2 routes, 3 revisions, version to 3, 3 editions, 1 fault; an import that changes a route and removes another, a mutation that changes all | 3 080 000 |
| `published_fresh` | violation: a superseded job's route stays old | as `publication`, no fault, two mutations of one route each | - |
| `allocation` | `TombstoneIsEmpty`, `DeletionFencesWork`, `TombstoneStands` | 2 cron runs, 1 request, 2 objects, 2 operations, pages of 1, lifetime 1, retention 2, lag 1, clock to 3, a configured site; cron runs fail, as often as they like, until 2 objects are counted as deleted | 1 710 000 |
| `archive_lock` | `HolderIsSeen` and the liveness property `LockRecovers` | 2 processes and one that died before; grace 1, lease 2, stale 3, 2 faults | 204 000 |
| `archive_exclusion` | violation: two processes hold the lock | 2 processes, no faults, grace 0 | - |
| `run_plan` | `SlotsBound`, `SkipsHaveCause`, `OutcomeComplete` and the liveness property `PlanEnds` | all acyclic plans of 4 workers, concurrency 1 to 4 | 296 000 |

Why the bounds are enough. Two callers or consumers are the pair every conflict here needs; three
tokens let a lease be taken over and a fence be drawn beside it. Clock 3 with lifetimes 1 and 2 lets a
lease expire, be taken over, and expire again, with a statement bound before all of it. Version 2
allows commit, reset and commit. Three claims are the attempt limit of the worker; four revisions and
three versions allow a bootstrap, an import, a foreign commit and a second import. `MaxFaults` bounds
errors, evictions, duplicates and delays of a run; two are enough to lose a message and then its
repair. The dispatch instance lowers the dead-letter attempt and deliveries by one each to keep the
liveness check small; `dead_letters` keeps the real 3 and 4.

In `publication` two jobs after a first publication are what it takes for jobs to be promoted out of
order, superseded and recovered, two routes for a plan to be half rendered, and three editions for two
promotions or one and an operator's. In `allocation` the clock reaches the end of the retention (1 + 2),
also of a deletion the owner begins at once (0 + 2), so that a run that expired the site, one that
reclaims it and a late writer meet: with a write time of 2 instead of 1, which `Grace` excludes, the run
finds `TombstoneIsEmpty` violated. Two objects in pages of one leave a cursor behind which to write.
`MaxCounted` bounds failures by what the row has counted, since a pass whose tombstone fails, on a site
that is still written to, could count for ever; until then every step of a run may fail, any number of
times. In `archive_lock` the third process
only leaves things behind. Four workers are a diamond or a chain beside an independent worker.
`archive_exclusion` sets the grace of an empty directory to 0: the trace needs no time to pass between
the steps of its two processes, so the code's five seconds would only make it longer.

Symmetry is used where elements are compared for equality only, and never with a liveness property.
Deadlock is checked where the model can always go on: in `d1_coordinator`, `do_coordinator` and the
archive lock's runs. Elsewhere it is off: once the bounds on claims, revisions, time or faults are used
up, or all work is done, the system may rightly be quiet.

### Fairness

`RuntimeDispatch`, `ArchiveCacheLock` and `RunPlan` state fairness, and only weak fairness.

* `RuntimeDispatch`: the cron trigger runs every minute and a run that is not evicted goes on
  (`CronStep`); the platform delivers what is queued while a consumer is free (`Deliver`); a producer or
  consumer that is not evicted continues (`Produce`, `Consume`); time passes (`Due`, `Age`) and fences
  end (`Unfence`: they expire). Faults, evictions, duplicates, `Slow` turns and the recovery command have
  none, and are bounded: an unbounded series of faults can starve anything. `Age` needs no fault when
  nothing of the dispatch is under way; `Slow`, the case where a message or a turn outlives ten minutes,
  does.
* `ArchiveCacheLock`: a process that lives makes its next call, and its callback ends (`Step`, which
  includes `Release`); time passes (`Tick`). Entering, heartbeats and deaths have none. A waiter may be
  overtaken again and again, so `LockRecovers` promises only that the lock does not stay blocked while
  nobody holds it.
* `RunPlan`: a worker that was started settles, by its answer, by its timeout or by throwing. A worker
  without a timeout whose adapter never answers blocks its plan; the code has nothing against that.

## 5. Properties and what they are for

`PROJECT.json` lists the hazards with their lines and the properties that cover them. The main ones:

* `ExclusiveWriter`, `StableUnderLease`: although expiry is judged with old clock readings, no two
  callers hold a good lease, and nothing but its own commit changes state under a good lease.
* `LinearHistory`: commit compares version and revision only, and yet replaces exactly the complete
  pointer and version the lease was granted on; a lease that was taken over never commits.
* `ReceiptsMatchHistory`: the INSERT OR IGNORE of a commit is never ignored.
* `NoOverwrite`, `FenceFreezes`: commit awaits R2 between check and transaction; the request chain is
  what makes this safe, and the mutant without it fails.
* `ResetSticks`: reset deletes `current.json` first, so no eviction lets `record()` bring a site back.
* `ImportedOnce`, `CommitIsPrepared`, `ReceiptIsOwnCommit`: whoever takes a claim over finds the commit
  made before, and never mistakes another writer's for it.
* `DispatchEnds`, `DeadLetterStands`: no lost message strands work; no late consumer revives a dead
  letter.
* `PastReceiptsStand`: no commit and no adoption of the Durable Object rewrites the receipt of a version
  its record has reached, also after evictions between the record and R2.
* `PromotionAdvances`, `PublishedRendered`: whoever promotes has read what it replaces and has seen every
  page of its plan, however many consumers lost their lease or claim on the way.
* `OutcomeIsReceipt`, `DeletedIsAnswered`: receipt, operation row and job object are written separately by
  consumers that may stop after each, and the import completes its operation when its job may be gone
  already. They never contradict each other: a job that is gone has left a receipt, from which the
  operation can be told, and only a commit the coordinator has no receipt of is called orphaned.
* `TombstoneIsEmpty`: overlapping runs, stored cursors and failed runs leave no row behind and no object of
  a writer that was admitted, because the retention outlasts them (`Grace`) and the last page starts the
  row cleanup; writers that are never asked do not change that, nor are their own objects promised gone.
* `DeletionFencesWork`, `TombstoneStands`: the state in the row stops all work, even when the run that was
  to cancel it died; the receipt and the row agree for ever.
* `HolderIsSeen`: no look that is old by now, and no late `rmdir`, removes the lease file of an owner.
* `LockRecovers`: a bare directory, a file without a record, or a dead owner's lease is cleaned up.
* `SlotsBound`, `SkipsHaveCause`, `OutcomeComplete`, `PlanEnds`: the executor's bookkeeping against what
  it promises of dependencies, for every plan and every order of results.

Each property of a passing run has a mutant of the modelled code (the operators commented *Seeded
defect*) that violates it.

## 6. Findings

Three runs show where code and documentation disagree; `PROJECT.json` quotes the lines.

1. **A fenced publication is lost** (`fenced_publication`). "fenced" completes the dispatch as done;
   nothing stages it again when the fence ends.
2. **A superseded job's changes stay unpublished** (`published_fresh`). If the job of version 3 is
   promoted before that of version 2, whose delivery found the lease held and waits its 30 seconds, the
   route only version 2 changed keeps its older page.
3. **Two holders of the archive lock** (`archive_exclusion`). `removeLeaseDirectoryIfCurrent` compares the
   directory's identity and then removes the *path*; `tryAcquireCacheLock` makes a directory and then
   opens the *path*. Two waiters that take over an expired lease may end with both lease files in one
   directory.

Observed while modelling, without a run of their own:

* A commit bound before its lease expired is not stopped by a cutover fence granted after the expiry;
  `FenceRejects` says exactly what a fence does stop.
* The Durable Object's reset keeps the receipts but restarts the version at 0, so a later commit
  rewrites them; `PastReceiptsStand` says what does stand. The D1 coordinator moves the version on.
* An error after the commit on an operation's third attempt reports the committed operation as failed.
* `retryDispatch` makes a backpressured row active without admission, one beyond the policy.
* A consumer evicted between a publication receipt and the deletion of its job leaves a job whose every
  retry finds a receipt with another time stamp, throws, and ends as a dead letter. The operation itself
  is told by the next reconciliation.
* The job of an import is dispatched before its operation is completed (`worker.ts` 1379 and 724). If a
  consumer drains and deletes it in between, it finds no publication-pending row, and the dispatch is
  done; `complete` then leaves the row waiting for a job that is gone. The comments at 725 ("durable before
  the queue wake-up") and 1376 are true of the commit, not of the operation receipt. The row is told when
  another publication delivery of the site reconciles it, if there is one.
* A promotion that loses the etag race ("stale") ends the delivery without a receipt, and a dispatch that
  is done is not opened again; the job and its operation wait for good.
* WordPress cron and the `?phase=health` bootstrap put objects of a site whose deletion has begun or is
  tombstoned: their keys may lie behind the cursor or come after the receipt, whose "zero-unresolved"
  (`cloudflare-allocation-lifecycle.test.ts`) is true of what was admitted only.
* A job promoted just before an eviction and superseded by the next promotion gets the receipt
  "superseded", although it was live for a while.
* The operator's publication is put without a condition after its last renewal and may replace a newer
  one; `PromotionAdvances` therefore speaks of jobs only.
* A mutation that changes *all* routes plans to render routes the same or an earlier mutation removed;
  rendering them fails, and the job ends as a dead letter.
* An ordinary mutation evicted between its commit and its dispatch leaves a job nobody wakes; only jobs
  of operations are repaired.
* When a hook throws, the plan is rejected, but workers that run still start others; and a worker that
  timed out gives its place away while its operation goes on.

## 7. Proofs

Eight modules `...Proofs` hold the proofs, one for each module that a run checks. Each extends its
module, adds an inductive invariant `IndInv`, and has a theorem `Invariance`, `Spec => []IndInv`, and one
theorem for each invariant and action property of the passing runs. They hold for all constants that
satisfy the module's named assumptions, which TLC evaluates in the runs and which say no more than:

* `NoneAssumption`: `None` (null, undefined, SQL NULL) is no identifier, and no record the module stores;
* `BoundAssumption`, `TtlAssumption`, `PolicyAssumption`: bounds and durations are natural numbers, and
  lifetimes are positive; the grace in effect, `Math.min(policy.staleLockMs, EMPTY_LOCK_GRACE_MS)`, is
  at most `StaleMs`;
* `WriterAssumption`, `RouteAssumption`, `PublicationAssumption`, `PrincipalAssumption`: what the parameters
  of a module are sets of, and that a mutation, the operator and the consumers are different writers;
* `NAssumption`: a plan has a worker; and `Grace` of `AllocationLifecycle`, see section 3.

| Module | Theorem | Statement |
| --- | --- | --- |
| `D1RevisionCoordinatorProofs` | `TypeCorrect` | `Spec => []TypeOK` |
| | `LeasesExclude` | `Spec => []ExclusiveWriter` |
| | `ReceiptsAreHistory` | `Spec => []ReceiptsMatchHistory` |
| | `LeaseStabilises` | `Spec => StableUnderLease` |
| | `FenceHolds` | `Spec => FenceRejects` |
| | `ImplementsHistory` | `Spec => LinearHistory` |
| `StateCoordinatorProofs` | `TypeCorrect` | `Spec => []TypeOK` |
| | `CurrentHasReceipt` | `Spec => []ReceiptForCurrent` |
| | `FencesExclude` | `Spec => []FenceExcludesLease` |
| | `ResetsStick` | `Spec => ResetSticks` |
| | `NothingOverwritten` | `Spec => NoOverwrite` |
| | `FencesFreeze` | `Spec => FenceFreezes` |
| | `ReceiptsStand` | `Spec => PastReceiptsStand` |
| `StaticArtifactOperationProofs` | `TypeCorrect` | `Spec => []TypeOK` |
| | `ImportsOnce` | `Spec => []ImportedOnce` |
| | `ReceiptsAreOwn` | `Spec => []ReceiptIsOwnCommit` |
| | `CommitsArePrepared` | `Spec => []CommitIsPrepared` |
| | `OutcomesStand` | `Spec => OutcomeStands` |
| `RuntimeDispatchProofs` | `TypeCorrect` | `Spec => []TypeOK` |
| | `DeadLettersStand` | `Spec => DeadLetterStands` |
| `PublicationProofs` | `TypeCorrect` | `Spec => []TypeOK` |
| | `PublishedHasPages` | `Spec => []PublishedRendered` |
| | `OutcomesAreReceipts` | `Spec => []OutcomeIsReceipt` |
| | `DeletedAreAnswered` | `Spec => []DeletedIsAnswered` |
| | `PromotionsAdvance` | `Spec => PromotionAdvances` |
| `AllocationLifecycleProofs` | `TypeCorrect` | `Spec => []TypeOK` |
| | `TombstonesAreEmpty` | `Spec => []TombstoneIsEmpty` |
| | `DeletionsFence` | `Spec => DeletionFencesWork` |
| | `TombstonesStand` | `Spec => TombstoneStands` |
| `ArchiveCacheLockProofs` | `TypeCorrect` | `Spec => []TypeOK` |
| | `HoldersAreSeen` | `Spec => []HolderIsSeen` |
| `RunPlanProofs` | `TypeCorrect` | `Spec => []TypeOK` |
| | `SlotsHold` | `Spec => []SlotsBound` |
| | `SkipsAreCaused` | `Spec => []SkipsHaveCause` |
| | `OutcomesAreComplete` | `Spec => []OutcomeComplete` |

The arguments, and why each inductive invariant is what it is:

**D1RevisionCoordinator.** `ExclusiveWriter` is not inductive: a caller's good lease must be known to be
the one in the row, and the clock a statement compares with must be known to lie in the past. `IndInv`
adds `CallsBound` (bound times are past), `LeaseRow` (the lease columns describe the current row),
`TokensOwned` (a lease token has one owner, also between grant and read-back), `HeldMatchesRow` (a lease
whose token is in the row is what the row says) and `LiveLeaseInRow` (a good lease is in the row). The
key lemma is `FreeMeansNobodyLive`: if a statement finds the lease free at a time in the past, no
caller's lease is good now, since a good one is in the row with an expiry after now. `TypeStep` and one
lemma per action (`AcquireStep`, `RenewStep`, `CommitStep`, ...) carry the parts through each step. For
the refinement, `basis` is what a caller holds and `holders` those whose token is in the row;
`StepRefines` maps each step to `Grant`, `Forget`, `Revoke`, `Commit`, `Adopt`, `Reset` or a stutter.

**StateCoordinator.** A handler that awaits R2 acts on what it checked before. `HandlerSees` says that
this still holds: no fence has become active, the record a commit read is the stored one, and a reset
has emptied R2. The request chain (`Serialized`) keeps it, and it gives `NoOverwrite` and
`FenceFreezes`. `EmptyStays` (a deleted record left nothing in R2) is what `ResetSticks` needs after an
eviction. Most handlers write once: for them `Refresh` says what such a write may do, and one lemma each
shows that they are one.

**StaticArtifactOperation.** That an operation is imported once depends on what two consumers with an
old and a new claim know. `CommitIsNamed` (the row names the commit in the history) and `HistoryKept`
(the current revision's idempotency records name every commit that was made) tell the next claimant of
an earlier commit. `Holds` says what a consumer has under its lease, `Latest` what holds of one whose
claim is still the last: while it has an uncommitted import, no commit of the operation is in the
history. `Apart` is the key: once a later claimant works under a lease, an earlier one that has prepared
its commit holds none, so it cannot commit any more. The coordinator is used only through the contract's
actions.

**RuntimeDispatch.** `DeadLetterStands` holds by what each statement of the repository may do to a row:
`Gentle` says that it keeps a dead letter and its evidence. Completion and retry have the guard; a late
`deadDispatch` adds evidence. `EvidenceStands` (a dead letter has evidence) and `AtWork` (who is at work
has a dispatch, and no delivery is beyond the limit) make it inductive.

**Publication.** `PromotionAdvances` needs that a job for a later version is of a later revision, since
pages are named by revisions: `Ordered` says that versions and revisions are drawn in one order, for the
register, for each lease and for the operator. `JobAgrees` ties together the objects written about one
job, `PublishedAgrees` what is published with its pages, `Knows` what a consumer relies on: the etag it
read either is the published one, and then it has seen exactly what it will replace, or is older, and
its put will fail. `Onward` collects what no other actor takes back (pages, receipts, jobs, versions),
and one lemma shows that it keeps what a consumer knows. `SiteAgrees` must say for a mutation that has
not committed that neither its dispatch nor its operation row is there yet: without that a consumer could
be woken before the commit and the invariant is not inductive. After the commit nothing of the kind is
assumed: the job may be open, answered or gone while the row is still running. `DeletedIsAnswered` needs
that a consumer calls a job orphaned only when its commit cannot come any more, that is, when a job that
was dispatched is for a version the coordinator has reached, and that the coordinator's receipts of such
versions stand.

**AllocationLifecycle.** `TombstoneIsEmpty` follows from what a cron run knows when it acts
(`CronKnows`): the retention is over, no object is behind its cursor, and what it counted as empty is.
`RequestsEnd` is where `Grace` enters: whoever was admitted is done before the retention ends, so from
then on admitted objects only get fewer (`Recedes`), and a cursor that an overlapping or dead run left
behind is safe to resume from (`CheckpointBehind`). Stray objects come at any time: a listing holds more
than the admitted ones, but all of those up to its last key, which is what a run needs to know. Listings take a least and a greatest element of the remaining keys
(`LeastElement`, `GreatestElement`, `PageIsPrefix`), for which `AllFinite` is needed.

**ArchiveCacheLock.** A holder is safe because each look that could lead to the removal of its file is
of an earlier directory or of another file. `MakersUnlinked` (who is still making the lock has no file
there), `LeaseGood` (a holder's file has time left) and `PreyIsOld` (a file about to be unlinked has
none) are what `HolderIsSeen` rests on. Most calls only move one process on, which `Walk` describes;
those that make or remove something, the choice of a file to unlink and the passing of time have lemmas
of their own. Mutual exclusion is not a theorem: run `archive_exclusion` refutes it.

**RunPlan.** `SlotsBound` counts the running workers that are not skips, and whether a worker is one is
read from results that change. `Open` says that a running worker has no result and its dependencies all
have one, so a result that comes in cannot turn a running worker from a skip into a real one.
`PumpBound`: a pass of the pump starts skips without limit, but the last real worker it starts found
room behind all ready workers before it, skips included, so the real ones fit. `Coherent` says that
results agree with those of the dependencies; as they are never changed, a skip hands the failed
ancestor of its dependency on (`AncestorsTransitive`), and the workers that succeeded are closed under
dependencies (`AncestorsWithin`). That a plan is acyclic is needed only for `OutcomeComplete`: among the
workers without a result one with the fewest ancestors depends on none of them (`SomeoneIsFirst`), so a
pump with nobody running finds one ready, and the lowest ready one finds room (`PumpStarts`).

Model-checked only: the liveness properties `DispatchEnds`, `LockRecovers` and `PlanEnds`, since fairness
and ENABLED are beyond the proof system here. The three violated properties are no theorems.
`StateCoordinator` does not implement `RevisionHistory`, since its versions restart after a reset.

## 8. Not modelled

* The isolate's runtime cache: what its requests share are php-wasm instances, and what a request
  computes on a discarded one is lost or stopped by the commit's conditions, which are modelled.
* The run registry and preview leases: files changed by read and rename without lock, version or
  condition. Every interleaving of two updates loses one, and the code promises nothing a model could
  check.
* Provisioning and credentials: single guarded SQL statements with idempotency keys; the allocation they
  create is modelled from its row on.
* References against eviction, retention and orphaned sidecars of the archive cache; progress snapshots
  and aggregation of fan-outs.
* Content, hashing, rendering, parsing, authorization, browser automation, the CLI's process handling
  and the PHP plugin: data or I/O without shared state whose interleaving a model could explore. These,
  and the generated php-wasm loaders under `runtime-overlays`, are most of the repository's lines.
* Several sites interact only through admission limits, which `RuntimeDispatch` has, and through a
  shared delivery batch, which it does not.
