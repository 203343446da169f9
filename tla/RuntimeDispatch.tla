-------------------------- MODULE RuntimeDispatch --------------------------
(***************************************************************************)
(* Waking durable work through a queue: the wp_codebox_runtime_dispatches  *)
(* rows of d1-operation-repository.ts, the requests that stage them        *)
(* (dispatchRuntimeWork), the cron that repairs them (scheduled), the      *)
(* queue, and the consumers (handleQueue, dispatchQueueBatch) of one site. *)
(*                                                                         *)
(* A D1 statement, a send and the end of a delivery are one step each.     *)
(* The queue delivers at least once, counts deliveries, and drops a message*)
(* after the last one.  What a message wakes is a static artifact operation*)
(* or a publication job; here it is open until it is settled.              *)
(***************************************************************************)
EXTENDS Naturals, FiniteSets

CONSTANTS
    Dispatches,        \* the identities of operations and publication jobs
    Publications,      \* those of them that are publication jobs
    Principals,
    PrincipalOf,       \* dispatch -> the principal it is charged to
    MaxActive,         \* RuntimeQueuePolicy.maxActive
    MaxActivePerPrincipal,
    Consumers,         \* queue consumer invocations
    Fencing,           \* whether cutover fences are used
    Producers,         \* requests that create work
    None,
    DeadAttempts,      \* deliveries after which an error is final: 3
    MaxDeliveries,     \* 1 + max_retries of wrangler.d1.jsonc: 4
    MaxFaults          \* bound on errors, evictions, delays and unfinished turns

ASSUME PublicationAssumption == Publications \subseteq Dispatches
ASSUME PrincipalAssumption == PrincipalOf \in [Dispatches -> Principals]
ASSUME BoundAssumption == MaxDeliveries \in Nat \ {0} /\ DeadAttempts \in Nat /\ MaxFaults \in Nat

VARIABLES
    row,        \* dispatch -> its row
    work,       \* dispatch -> "none", "open" or "settled"
    queue,      \* messages waiting, with the deliveries they have had
    consumer,   \* consumer -> its local state
    producer,   \* request -> its local state
    cron,       \* the scheduled handler
    fenced,     \* the coordinator's mutation fence is active
    faults      \* faults left

vars == <<row, work, queue, consumer, producer, cron, fenced, faults>>

RowStates == {"absent", "backpressured", "pending", "sent", "processing", "retryable",
              "done", "dead-letter"}
Active == {"pending", "sent", "processing", "retryable"}

Messages == [id: Dispatches, delivered: 0..(MaxDeliveries - 1)]
Idle == [pc |-> "idle", id |-> None, attempts |-> 0]
Resting == [pc |-> "idle", id |-> None]
Waiting == [pc |-> "repair", backpressured |-> {}, admitted |-> {}, id |-> None]

TypeOK ==
    /\ row \in [Dispatches -> [state: RowStates, due: BOOLEAN, stale: BOOLEAN,
                               evidence: SUBSET (1..MaxDeliveries)]]
    /\ work \in [Dispatches -> {"none", "open", "settled"}]
    /\ queue \in SUBSET Messages
    /\ consumer \in [Consumers ->
         [pc: {"idle", "delivered", "running", "completing", "retrying", "continuing",
               "sending", "sent", "unsent", "erring"},
          id: Dispatches \cup {None}, attempts: 0..MaxDeliveries]]
    /\ producer \in [Producers ->
         [pc: {"idle", "stage", "admit", "send", "sent", "unsent"}, id: Dispatches \cup {None}]]
    /\ cron \in [pc: {"repair", "sweep", "select", "admit", "sent", "unsent"},
                 backpressured: SUBSET Dispatches, admitted: SUBSET Dispatches,
                 id: Dispatches \cup {None}]
    /\ fenced \in BOOLEAN
    /\ faults \in 0..MaxFaults

Init ==
    /\ row = [d \in Dispatches |->
                [state |-> "absent", due |-> FALSE, stale |-> FALSE, evidence |-> {}]]
    /\ work = [d \in Dispatches |-> "none"]
    /\ queue = {}
    /\ consumer = [c \in Consumers |-> Idle]
    /\ producer = [p \in Producers |-> Resting]
    /\ cron = Waiting
    /\ fenced = FALSE
    /\ faults = MaxFaults

-----------------------------------------------------------------------------
(***************************************************************************)
(* The row's statements.  Every one of them refreshes updated_at.          *)
(***************************************************************************)

To(d, state) == row' = [row EXCEPT ![d].state = state, ![d].due = FALSE, ![d].stale = FALSE]

\* UPDATE ... SET state = to ... AND <matched>: without a match nothing changes.
Set(d, matched, to) == IF matched THEN To(d, to) ELSE row' = row

ActiveRows == {d \in Dispatches : row[d].state \in Active}

ActiveOf(q) == {d \in ActiveRows : PrincipalOf[d] = q}

\* admitDispatch, the UPDATE's condition.
Admissible(d) ==
    /\ row[d].state = "backpressured"
    /\ Cardinality(ActiveRows) < MaxActive
    /\ Cardinality(ActiveOf(PrincipalOf[d])) < MaxActivePerPrincipal

\* Its answer: a row that is not waiting for admission any more may be sent again.
admitDispatch(d) == Admissible(d) \/ row[d].state \notin {"absent", "backpressured", "dead-letter"}

deliveredDispatch(d) == Set(d, row[d].state \in {"pending", "retryable"}, "sent")

Processable(d) ==
    \/ row[d].state \in {"pending", "sent"}
    \/ row[d].state = "retryable" /\ row[d].due

failedDispatch(d) == Set(d, row[d].state \notin {"done", "dead-letter"}, "backpressured")

retryDispatch(d) == Set(d, row[d].state # "dead-letter", "retryable")

\* Seeded defect: a late consumer completes a dead letter.
completeDispatchAny(d) == To(d, "done")

completeDispatch(d) == Set(d, row[d].state # "dead-letter", "done")

\* deadDispatch's batch.  Its second check throws after both statements are applied.
deadDispatch(d, attempts) ==
    row' = [row EXCEPT ![d].evidence = @ \cup {attempts},
                       ![d].state = IF @ = "done" THEN @ ELSE "dead-letter",
                       ![d].stale = FALSE]

\* retry_at passes.
Due(d) ==
    /\ row[d].state = "retryable"
    /\ ~row[d].due
    /\ row' = [row EXCEPT ![d].due = TRUE]
    /\ UNCHANGED <<work, queue, consumer, producer, cron, fenced, faults>>

UnderWay(d) == (\E m \in queue : m.id = d) \/ (\E c \in Consumers : consumer[c].id = d)

Old(d) ==
    /\ row[d].state \in {"sent", "processing"}
    /\ ~row[d].stale
    /\ row' = [row EXCEPT ![d].stale = TRUE]
    /\ UNCHANGED <<work, queue, consumer, producer, cron, fenced>>

\* updated_at is claimMs (ten minutes) old.
Age(d) ==
    /\ ~UnderWay(d)
    /\ Old(d)
    /\ UNCHANGED faults

\* A message waits, or a turn takes, longer than claimMs.
Slow(d) ==
    /\ UnderWay(d)
    /\ faults > 0
    /\ faults' = faults - 1
    /\ Old(d)

-----------------------------------------------------------------------------
(***************************************************************************)
(* Producers.                                                              *)
(***************************************************************************)

Move(p, pc) == producer' = [producer EXCEPT ![p].pc = pc]
Rest(p) == producer' = [producer EXCEPT ![p] = Resting]

\* A request creates the work, durably, and then goes on to wake it.
CreateWork(p, d) ==
    /\ producer[p].pc = "idle"
    /\ work[d] = "none"
    /\ work' = [work EXCEPT ![d] = "open"]
    /\ producer' = [producer EXCEPT ![p] = [pc |-> "stage", id |-> d]]
    /\ UNCHANGED <<row, queue, consumer, cron, fenced, faults>>

\* stageDispatch: INSERT OR IGNORE.
Stage(p) ==
    /\ producer[p].pc = "stage"
    /\ LET d == producer[p].id IN Set(d, row[d].state = "absent", "backpressured")
    /\ Move(p, "admit")
    /\ UNCHANGED <<work, queue, consumer, cron, fenced, faults>>

Admit(p) ==
    /\ producer[p].pc = "admit"
    /\ LET d == producer[p].id IN
        /\ Set(d, Admissible(d), "pending")
        /\ IF admitDispatch(d) THEN Move(p, "send") ELSE Rest(p)
    /\ UNCHANGED <<work, queue, consumer, cron, fenced, faults>>

Send(p) ==
    /\ producer[p].pc = "send"
    /\ queue' = queue \cup {[id |-> producer[p].id, delivered |-> 0]}
    /\ Move(p, "sent")
    /\ UNCHANGED <<row, work, consumer, cron, fenced, faults>>

\* deliveredDispatch, or failedDispatch after an error.
Record(p) ==
    /\ producer[p].pc \in {"sent", "unsent"}
    /\ IF producer[p].pc = "sent" THEN deliveredDispatch(producer[p].id)
                                  ELSE failedDispatch(producer[p].id)
    /\ Rest(p)
    /\ UNCHANGED <<work, queue, consumer, cron, fenced, faults>>

\* The send, or the statement after it, throws.
ProducerError(p) ==
    /\ producer[p].pc \in {"send", "sent"}
    /\ faults > 0
    /\ faults' = faults - 1
    /\ Move(p, "unsent")
    /\ UNCHANGED <<row, work, queue, consumer, cron, fenced>>

\* The request ends, or the worker is evicted, between two statements.
ProducerGone(p) ==
    /\ producer[p].pc # "idle"
    /\ faults > 0
    /\ faults' = faults - 1
    /\ Rest(p)
    /\ UNCHANGED <<row, work, queue, consumer, cron, fenced>>

-----------------------------------------------------------------------------
(***************************************************************************)
(* The cron: repair, give up what is old, list, admit each, send each.     *)
(***************************************************************************)

\* repairMissingDispatches: open work without a row gets one.
Repair ==
    /\ cron.pc = "repair"
    /\ row' = [d \in Dispatches |->
                IF work[d] = "open" /\ row[d].state = "absent"
                THEN [row[d] EXCEPT !.state = "backpressured"] ELSE row[d]]
    /\ cron' = [cron EXCEPT !.pc = "sweep"]
    /\ UNCHANGED <<work, queue, consumer, producer, fenced, faults>>

\* Seeded defect: only rows that were sent are given up when they are old.
StaleSent(d) == row[d].stale /\ row[d].state = "sent"

Stale(d) == row[d].stale /\ row[d].state \in {"sent", "processing"}

\* pendingDispatches, its UPDATE.
Sweep ==
    /\ cron.pc = "sweep"
    /\ row' = [d \in Dispatches |->
                IF Stale(d) THEN [row[d] EXCEPT !.state = "backpressured", !.stale = FALSE]
                ELSE row[d]]
    /\ cron' = [cron EXCEPT !.pc = "select"]
    /\ UNCHANGED <<work, queue, consumer, producer, fenced, faults>>

\* pendingDispatches, its SELECT: a snapshot, used after the rows may have changed.
Select ==
    /\ cron.pc = "select"
    /\ cron' = [cron EXCEPT
         !.pc = "admit",
         !.backpressured = {d \in Dispatches : row[d].state = "backpressured"},
         !.admitted = {d \in Dispatches :
            row[d].state = "pending" \/ (row[d].state = "retryable" /\ row[d].due)}]
    /\ UNCHANGED <<row, work, queue, consumer, producer, fenced, faults>>

CronAdmit(d) ==
    /\ cron.pc = "admit"
    /\ d \in cron.backpressured
    /\ Set(d, Admissible(d), "pending")
    /\ cron' = [cron EXCEPT
         !.backpressured = @ \ {d},
         !.admitted = IF admitDispatch(d) THEN @ \cup {d} ELSE @]
    /\ UNCHANGED <<work, queue, consumer, producer, fenced, faults>>

CronSend(d) ==
    /\ cron.pc = "admit"
    /\ cron.backpressured = {}
    /\ d \in cron.admitted
    /\ queue' = queue \cup {[id |-> d, delivered |-> 0]}
    /\ cron' = [cron EXCEPT !.pc = "sent", !.admitted = @ \ {d}, !.id = d]
    /\ UNCHANGED <<row, work, consumer, producer, fenced, faults>>

CronRecord ==
    /\ cron.pc \in {"sent", "unsent"}
    /\ IF cron.pc = "sent" THEN deliveredDispatch(cron.id) ELSE failedDispatch(cron.id)
    /\ cron' = [cron EXCEPT !.pc = "admit", !.id = None]
    /\ UNCHANGED <<work, queue, consumer, producer, fenced, faults>>

CronDone ==
    /\ cron.pc = "admit"
    /\ cron.backpressured \cup cron.admitted = {}
    /\ cron' = Waiting
    /\ UNCHANGED <<row, work, queue, consumer, producer, fenced, faults>>

\* A send, or the statement after it, throws.
CronError ==
    /\ faults > 0
    /\ faults' = faults - 1
    /\ \/ cron.pc = "sent" /\ cron' = [cron EXCEPT !.pc = "unsent"]
       \/ /\ cron.pc = "admit"
          /\ cron.backpressured = {}
          /\ \E d \in cron.admitted :
               cron' = [cron EXCEPT !.pc = "unsent", !.admitted = @ \ {d}, !.id = d]
    /\ UNCHANGED <<row, work, queue, consumer, producer, fenced>>

\* Another statement throws, or the worker is evicted.
CronGone ==
    /\ cron.pc # "repair"
    /\ faults > 0
    /\ faults' = faults - 1
    /\ cron' = Waiting
    /\ UNCHANGED <<row, work, queue, consumer, producer, fenced>>

-----------------------------------------------------------------------------
(***************************************************************************)
(* The queue and its consumers.                                            *)
(***************************************************************************)

\* Seeded defect: one delivery too many.
AgainOnce(d, attempts) ==
    IF attempts <= MaxDeliveries THEN {[id |-> d, delivered |-> attempts]} ELSE {}

\* A message that is retried waits again, unless it was delivered for the last time.
Again(d, attempts) ==
    IF attempts < MaxDeliveries THEN {[id |-> d, delivered |-> attempts]} ELSE {}

\* A delivery; the message may be delivered once more although it is being handled.
Deliver(c, m) ==
    /\ consumer[c].pc = "idle"
    /\ m \in queue
    /\ consumer' = [consumer EXCEPT
         ![c] = [pc |-> "delivered", id |-> m.id, attempts |-> m.delivered + 1]]
    /\ \/ /\ queue' = queue \ {m}
          /\ UNCHANGED faults
       \/ /\ faults > 0
          /\ faults' = faults - 1
          /\ UNCHANGED queue
    /\ UNCHANGED <<row, work, producer, cron, fenced>>

\* dispatchQueueBatch: the site's turn in this batch goes to another message.
Skip(m) ==
    /\ m \in queue
    /\ \E other \in queue : other.id # m.id
    /\ faults > 0
    /\ faults' = faults - 1
    /\ queue' = (queue \ {m}) \cup Again(m.id, m.delivered + 1)
    /\ UNCHANGED <<row, work, consumer, producer, cron, fenced>>

Go(c, pc) == consumer' = [consumer EXCEPT ![c].pc = pc]

Ack(c) ==
    /\ consumer' = [consumer EXCEPT ![c] = Idle]
    /\ UNCHANGED queue

Retry(c) ==
    /\ consumer' = [consumer EXCEPT ![c] = Idle]
    /\ queue' = queue \cup Again(consumer[c].id, consumer[c].attempts)

\* processingDispatch.
Start(c) ==
    /\ consumer[c].pc = "delivered"
    /\ LET d == consumer[c].id IN
        /\ Set(d, Processable(d), "processing")
        /\ IF Processable(d) THEN Go(c, "running") /\ UNCHANGED queue ELSE Ack(c)
    /\ UNCHANGED <<work, producer, cron, fenced, faults>>

\* The coordinator grants no lease under the fence.
Turned(c) == consumer[c].id \in Publications /\ fenced

\* The turn settles the work, or finds it settled: "completed", "recovered", "failed",
\* "promoted", "stale".
Settle(c) ==
    /\ consumer[c].pc = "running"
    /\ ~Turned(c)
    /\ work' = [work EXCEPT ![consumer[c].id] = "settled"]
    /\ Go(c, "completing")
    /\ UNCHANGED <<row, queue, producer, cron, fenced, faults>>

\* A publication's turn under the fence: "fenced".
Fenced(c) ==
    /\ consumer[c].pc = "running"
    /\ Turned(c)
    /\ Go(c, "completing")
    /\ UNCHANGED <<row, work, queue, producer, cron, fenced, faults>>

\* The turn ends with the work still open: "retryable" or "pending"; an error; "claim-lost"
\* (an operation taken over by another claimant), null (a publication job that could not be
\* read) or "stale" after a lost promotion; "rendered" (a route of a publication).
Unsettled(c) ==
    /\ consumer[c].pc = "running"
    /\ faults > 0
    /\ faults' = faults - 1
    /\ \/ \E pc \in {"retrying", "erring", "completing"} : Go(c, pc)
       \/ consumer[c].id \in Publications /\ Go(c, "continuing")
    /\ UNCHANGED <<row, work, queue, producer, cron, fenced>>

Completed(c) ==
    /\ consumer[c].pc = "completing"
    /\ completeDispatch(consumer[c].id)
    /\ Ack(c)
    /\ UNCHANGED <<work, producer, cron, fenced, faults>>

Retried(c) ==
    /\ consumer[c].pc = "retrying"
    /\ retryDispatch(consumer[c].id)
    /\ Retry(c)
    /\ UNCHANGED <<work, producer, cron, fenced, faults>>

\* continueDispatch: it throws if the row is not being processed.
Continue(c) ==
    /\ consumer[c].pc = "continuing"
    /\ LET d == consumer[c].id IN
        /\ Set(d, row[d].state = "processing", "pending")
        /\ Go(c, IF row[d].state = "processing" THEN "sending" ELSE "erring")
    /\ UNCHANGED <<work, queue, producer, cron, fenced, faults>>

Resend(c) ==
    /\ consumer[c].pc = "sending"
    /\ queue' = queue \cup {[id |-> consumer[c].id, delivered |-> 0]}
    /\ Go(c, "sent")
    /\ UNCHANGED <<row, work, producer, cron, fenced, faults>>

Resent(c) ==
    /\ consumer[c].pc \in {"sent", "unsent"}
    /\ IF consumer[c].pc = "sent" THEN deliveredDispatch(consumer[c].id)
                                  ELSE failedDispatch(consumer[c].id)
    /\ Ack(c)
    /\ UNCHANGED <<work, producer, cron, fenced, faults>>

\* The catch block: the last attempt ends as a dead letter, an earlier one is retried.
Caught(c) ==
    /\ consumer[c].pc = "erring"
    /\ IF consumer[c].attempts >= DeadAttempts
       THEN deadDispatch(consumer[c].id, consumer[c].attempts)
       ELSE retryDispatch(consumer[c].id)
    /\ Retry(c)
    /\ UNCHANGED <<work, producer, cron, fenced, faults>>

\* A statement or the continuation's send throws.
ConsumerError(c) ==
    /\ faults > 0
    /\ faults' = faults - 1
    /\ \/ consumer[c].pc \in {"delivered", "completing", "retrying", "continuing"} /\ Go(c, "erring")
       \/ consumer[c].pc \in {"sending", "sent"} /\ Go(c, "unsent")
    /\ UNCHANGED <<row, work, queue, producer, cron, fenced>>

\* The consumer is evicted: the message was not acknowledged.
ConsumerGone(c) ==
    /\ consumer[c].pc # "idle"
    /\ faults > 0
    /\ faults' = faults - 1
    /\ Retry(c)
    /\ UNCHANGED <<row, work, producer, cron, fenced>>

-----------------------------------------------------------------------------
(***************************************************************************)
(* Operators.                                                              *)
(***************************************************************************)

\* A cutover fence is acquired; it is released or expires.
Fence ==
    /\ Fencing
    /\ ~fenced
    /\ fenced' = TRUE
    /\ UNCHANGED <<row, work, queue, consumer, producer, cron, faults>>

Unfence ==
    /\ fenced
    /\ fenced' = FALSE
    /\ UNCHANGED <<row, work, queue, consumer, producer, cron, faults>>

\* The command recorded with a dead letter puts the row back.
Recover(d) ==
    /\ row[d].state = "dead-letter"
    /\ faults > 0
    /\ faults' = faults - 1
    /\ To(d, "backpressured")
    /\ UNCHANGED <<work, queue, consumer, producer, cron, fenced>>

-----------------------------------------------------------------------------

Produce(p) == Stage(p) \/ Admit(p) \/ Send(p) \/ Record(p)

CronStep ==
    \/ Repair \/ Sweep \/ Select \/ CronRecord \/ CronDone
    \/ \E d \in Dispatches : CronAdmit(d) \/ CronSend(d)

Consume(c) ==
    Start(c) \/ Settle(c) \/ Fenced(c) \/ Completed(c) \/ Retried(c) \/ Continue(c) \/ Resend(c) \/ Resent(c)
        \/ Caught(c)

Next ==
    \/ \E d \in Dispatches : Due(d) \/ Age(d) \/ Slow(d) \/ Recover(d)
    \/ \E p \in Producers, d \in Dispatches : CreateWork(p, d)
    \/ \E p \in Producers : Produce(p) \/ ProducerError(p) \/ ProducerGone(p)
    \/ CronStep \/ CronError \/ CronGone
    \/ \E m \in Messages : Skip(m) \/ \E c \in Consumers : Deliver(c, m)
    \/ \E c \in Consumers : Consume(c) \/ Unsettled(c) \/ ConsumerError(c) \/ ConsumerGone(c)
    \/ Fence \/ Unfence

\* The cron runs every minute; the platform delivers what is queued; a worker that is not
\* evicted goes on; time passes and fences end.
Fairness ==
    /\ \A d \in Dispatches : WF_vars(Due(d)) /\ WF_vars(Age(d))
    /\ WF_vars(CronStep)
    /\ \A p \in Producers : WF_vars(Produce(p))
    /\ \A c \in Consumers : WF_vars(Consume(c)) /\ WF_vars(\E m \in Messages : Deliver(c, m))
    /\ WF_vars(Unfence)

Spec == Init /\ [][Next]_vars /\ Fairness

-----------------------------------------------------------------------------
(***************************************************************************)
(* Properties.                                                             *)
(***************************************************************************)

\* A dead letter leaves that state only by the recorded recovery command, whatever a late
\* consumer or producer of the same identity still does, and its evidence is kept.
\* (deadDispatch, completeDispatch, retryDispatch, failedDispatch)
DeadLetterStands ==
    [][\A d \in Dispatches :
        /\ row[d].state = "dead-letter" =>
             row'[d].state = "dead-letter" \/ (faults' < faults /\ row'[d].state = "backpressured")
        /\ row'[d].state = "dead-letter" => row'[d].evidence # {}
        /\ row[d].evidence \subseteq row'[d].evidence]_vars

\* Work that was created is always either done or a dead letter in the end, whichever
\* producer, message or consumer was lost on the way.
\* (repairMissingDispatches, pendingDispatches, handleQueue)
DispatchEnds ==
    \A d \in Dispatches : work[d] = "open" ~> row[d].state \in {"done", "dead-letter"}

\* Work that a fence turned away is taken up again when the fence ends, so that it is
\* settled or a dead letter ("Expiry automatically reopens mutations", README.md).
\* (drainPublicationJob, handleQueue, repairMissingDispatches)
WorkSettles ==
    \A d \in Dispatches : work[d] = "open" ~> (work[d] = "settled" \/ row[d].state = "dead-letter")

=============================================================================
