----------------------- MODULE RuntimeDispatchProofs -----------------------
(***************************************************************************)
(* Proofs about RuntimeDispatch, for any number of identities, consumers,  *)
(* producers, deliveries and faults: a dead letter stands.  Liveness, that *)
(* every work ends, is checked by TLC only.                                *)
(***************************************************************************)
EXTENDS RuntimeDispatch, TLAPS

(***************************************************************************)
(* The inductive invariant.                                                *)
(***************************************************************************)

RowRecords == [state: RowStates, due: BOOLEAN, stale: BOOLEAN, evidence: SUBSET (1..MaxDeliveries)]

ConsumerPcs == {"idle", "delivered", "running", "completing", "retrying", "continuing",
                "sending", "sent", "unsent", "erring"}

ConsumerStates == [pc: ConsumerPcs, id: Dispatches \cup {None}, attempts: 0..MaxDeliveries]

ProducerStates == [pc: {"idle", "stage", "admit", "send", "sent", "unsent"}, id: Dispatches \cup {None}]

CronStates == [pc: {"repair", "sweep", "select", "admit", "sent", "unsent"},
               backpressured: SUBSET Dispatches, admitted: SUBSET Dispatches,
               id: Dispatches \cup {None}]

\* A dead letter has been written with its evidence.
EvidenceStands == \A d \in Dispatches : row[d].state = "dead-letter" => row[d].evidence # {}

\* Whoever is at work on a row knows whose it is, and a delivery is counted from one.
AtWork ==
    /\ \A c \in Consumers :
        consumer[c].pc # "idle" => consumer[c].id \in Dispatches /\ consumer[c].attempts \in 1..MaxDeliveries
    /\ \A p \in Producers : producer[p].pc # "idle" => producer[p].id \in Dispatches
    /\ cron.pc \in {"sent", "unsent"} => cron.id \in Dispatches

IndInv == TypeOK /\ EvidenceStands /\ AtWork

(* The parts of the type invariant. *)
LEMMA Types ==
    ASSUME TypeOK
    PROVE  /\ row \in [Dispatches -> RowRecords] /\ work \in [Dispatches -> {"none", "open", "settled"}]
           /\ queue \in SUBSET Messages /\ consumer \in [Consumers -> ConsumerStates]
           /\ producer \in [Producers -> ProducerStates] /\ cron \in CronStates
           /\ fenced \in BOOLEAN /\ faults \in 0..MaxFaults /\ faults \in Nat
BY BoundAssumption DEF TypeOK, RowRecords, ConsumerPcs, ConsumerStates, ProducerStates, CronStates

-----------------------------------------------------------------------------
(***************************************************************************)
(* The row's statements.                                                   *)
(***************************************************************************)

\* What a statement other than the recorded recovery may make of a row.
Gentle(old, new) ==
    /\ new \in RowRecords
    /\ old.evidence \subseteq new.evidence
    /\ old.state = "dead-letter" => new.state = "dead-letter"
    /\ new.state = "dead-letter" => new.evidence # {}

RowsGentle == row' \in [Dispatches -> RowRecords] /\ \A d \in Dispatches : Gentle(row[d], row'[d])

(* A row that stays is gentle. *)
LEMMA SameGentle ==
    ASSUME IndInv, NEW d \in Dispatches
    PROVE  Gentle(row[d], row[d])
BY Types DEF IndInv, EvidenceStands, Gentle

(* Rows that stay are gentle. *)
LEMMA SameRows ==
    ASSUME IndInv, row' = row
    PROVE  RowsGentle
BY SameGentle, Types DEF IndInv, RowsGentle

\* One row is written.
LEMMA OneRow ==
    ASSUME IndInv, NEW d \in Dispatches, NEW new, row' = [row EXCEPT ![d] = new], Gentle(row[d], new)
    PROVE  RowsGentle
<1>1. row \in [Dispatches -> RowRecords] /\ new \in RowRecords
  BY Types DEF IndInv, Gentle
<1>2. row' \in [Dispatches -> RowRecords]
  BY <1>1
<1>3. ASSUME NEW e \in Dispatches PROVE Gentle(row[e], row'[e])
  <2>1. CASE e = d
    BY <1>1, <2>1
  <2>2. CASE e # d
    BY <1>1, <2>2, SameGentle
  <2> QED BY <2>1, <2>2
<1> QED BY <1>2, <1>3 DEF RowsGentle

(* A row that is given another state stays a row and keeps its evidence. *)
LEMMA Written ==
    ASSUME NEW r \in RowRecords, NEW state \in RowStates, NEW due \in BOOLEAN, NEW stale \in BOOLEAN
    PROVE  LET new == [r EXCEPT !.state = state, !.due = due, !.stale = stale] IN
           new \in RowRecords /\ new.state = state /\ new.evidence = r.evidence
BY DEF RowRecords

\* A statement that does not match dead letters leaves them alone.
LEMMA SetGentle ==
    ASSUME IndInv, NEW d \in Dispatches, NEW matched, NEW to \in RowStates \ {"dead-letter"},
           matched => row[d].state # "dead-letter", Set(d, matched, to)
    PROVE  RowsGentle
<1>1. CASE ~matched
  BY <1>1, SameRows DEF Set
<1>2. CASE matched
  <2>1. PICK new : new = [row[d] EXCEPT !.state = to, !.due = FALSE, !.stale = FALSE]
    OBVIOUS
  <2>2. row \in [Dispatches -> RowRecords]
    BY Types DEF IndInv
  <2>3. new \in RowRecords /\ new.state = to /\ new.evidence = row[d].evidence
    BY <2>1, <2>2, Written
  <2>4. row' = [row EXCEPT ![d] = new]
    BY <1>2, <2>1, <2>2 DEF Set, To
  <2>5. Gentle(row[d], new)
    BY <1>2, <2>3 DEF Gentle
  <2> QED BY <2>4, <2>5, OneRow
<1> QED BY <1>1, <1>2

\* A dead letter is written with its evidence.
LEMMA DeadGentle ==
    ASSUME IndInv, NEW d \in Dispatches, NEW attempts \in 1..MaxDeliveries, deadDispatch(d, attempts)
    PROVE  RowsGentle
<1>1. row \in [Dispatches -> RowRecords]
  BY Types DEF IndInv
<1>2. PICK state \in RowStates : state = IF row[d].state = "done" THEN row[d].state ELSE "dead-letter"
  BY DEF RowStates
<1>3. PICK evidence \in SUBSET (1..MaxDeliveries) : evidence = row[d].evidence \cup {attempts}
  BY <1>1 DEF RowRecords
<1>4. PICK new : new = [row[d] EXCEPT !.evidence = evidence, !.state = state, !.stale = FALSE]
  OBVIOUS
<1>5. new \in RowRecords /\ new.state = state /\ new.evidence = evidence
  BY <1>1, <1>4 DEF RowRecords
<1>6. row' = [row EXCEPT ![d] = new]
  BY <1>1, <1>2, <1>3, <1>4 DEF deadDispatch
<1>7. Gentle(row[d], new)
  BY <1>2, <1>3, <1>5 DEF Gentle
<1> QED BY <1>6, <1>7, OneRow

\* The clock's marks on a row.
LEMMA MarkGentle ==
    ASSUME IndInv, NEW d \in Dispatches,
           row' = [row EXCEPT ![d].due = TRUE] \/ row' = [row EXCEPT ![d].stale = TRUE]
    PROVE  RowsGentle
<1>1. row[d] \in RowRecords /\ Gentle(row[d], row[d])
  BY Types, SameGentle DEF IndInv
<1>2. PICK new : /\ new = [row[d] EXCEPT !.due = TRUE] \/ new = [row[d] EXCEPT !.stale = TRUE]
                 /\ row' = [row EXCEPT ![d] = new]
  OBVIOUS
<1>3. new \in RowRecords /\ new.state = row[d].state /\ new.evidence = row[d].evidence
  BY <1>1, <1>2 DEF RowRecords
<1> QED BY <1>1, <1>2, <1>3, OneRow DEF Gentle

\* The cron's statements over all rows give up only rows that are no dead letters.
LEMMA ManyGentle ==
    ASSUME IndInv, row' = [d \in Dispatches |-> row'[d]],
           \A d \in Dispatches :
                \/ row'[d] = row[d]
                \/ /\ row[d].state # "dead-letter"
                   /\ \/ row'[d] = [row[d] EXCEPT !.state = "backpressured"]
                      \/ row'[d] = [row[d] EXCEPT !.state = "backpressured", !.stale = FALSE]
    PROVE  RowsGentle
<1>1. row \in [Dispatches -> RowRecords]
  BY Types DEF IndInv
<1>2. ASSUME NEW d \in Dispatches PROVE Gentle(row[d], row'[d])
  <2>1. CASE row'[d] = row[d]
    BY <2>1, SameGentle
  <2>2. CASE /\ row[d].state # "dead-letter"
             /\ \/ row'[d] = [row[d] EXCEPT !.state = "backpressured"]
                \/ row'[d] = [row[d] EXCEPT !.state = "backpressured", !.stale = FALSE]
    <3>1. PICK new : /\ new = row'[d]
                     /\ \/ new = [row[d] EXCEPT !.state = "backpressured"]
                        \/ new = [row[d] EXCEPT !.state = "backpressured", !.stale = FALSE]
      BY <2>2
    <3>2. new \in RowRecords /\ new.state = "backpressured" /\ new.evidence = row[d].evidence
      BY <1>1, <3>1 DEF RowRecords, RowStates
    <3> QED BY <2>2, <3>1, <3>2 DEF Gentle
  <2> QED BY <2>1, <2>2
<1>3. row' \in [Dispatches -> RowRecords]
  BY <1>2 DEF Gentle
<1> QED BY <1>2, <1>3 DEF RowsGentle

-----------------------------------------------------------------------------
(***************************************************************************)
(* The rest of the state.                                                  *)
(***************************************************************************)

ConsumersOK ==
    /\ consumer \in [Consumers -> ConsumerStates]
    /\ \A c \in Consumers :
        consumer[c].pc # "idle" => consumer[c].id \in Dispatches /\ consumer[c].attempts \in 1..MaxDeliveries

ProducersOK ==
    /\ producer \in [Producers -> ProducerStates]
    /\ \A p \in Producers : producer[p].pc # "idle" => producer[p].id \in Dispatches

CronOK == cron \in CronStates /\ (cron.pc \in {"sent", "unsent"} => cron.id \in Dispatches)

QueueOK == queue \in SUBSET Messages

RestOK == work \in [Dispatches -> {"none", "open", "settled"}] /\ fenced \in BOOLEAN /\ faults \in 0..MaxFaults

(* What the invariant says of each actor. *)
LEMMA Parts ==
    ASSUME IndInv
    PROVE  ConsumersOK /\ ProducersOK /\ CronOK /\ QueueOK /\ RestOK
BY Types DEF IndInv, AtWork, ConsumersOK, ProducersOK, CronOK, QueueOK, RestOK

(* The invariant from what holds of each actor after a gentle step. *)
LEMMA Whole ==
    ASSUME IndInv, RowsGentle, ConsumersOK', ProducersOK', CronOK', QueueOK', RestOK'
    PROVE  IndInv' /\ RowsGentle
<1>1. TypeOK'
  BY DEF RowsGentle, ConsumersOK, ProducersOK, CronOK, QueueOK, RestOK, TypeOK, RowRecords, ConsumerPcs, ConsumerStates,
         ProducerStates, CronStates
<1>2. EvidenceStands'
  BY DEF RowsGentle, Gentle, EvidenceStands
<1>3. AtWork'
  BY DEF ConsumersOK, ProducersOK, CronOK, AtWork
<1> QED BY <1>1, <1>2, <1>3 DEF IndInv

(* An actor that does not move stays as the invariant says. *)
LEMMA Stay ==
    ASSUME IndInv
    PROVE  /\ consumer' = consumer => ConsumersOK'
           /\ producer' = producer => ProducersOK'
           /\ cron' = cron => CronOK'
           /\ queue' = queue => QueueOK'
           /\ UNCHANGED <<work, fenced, faults>> => RestOK'
BY Parts DEF ConsumersOK, ProducersOK, CronOK, QueueOK, RestOK

\* A fault is spent, or not.
LEMMA Spent ==
    ASSUME IndInv, faults' = faults \/ (faults > 0 /\ faults' = faults - 1), UNCHANGED <<work, fenced>>
    PROVE  RestOK'
<1>1. faults \in 0..MaxFaults /\ MaxFaults \in Nat
  BY Parts, BoundAssumption DEF RestOK
<1>2. faults' \in 0..MaxFaults
  BY <1>1
<1> QED BY <1>2, Parts DEF RestOK

(* A consumer at work goes on with the same message. *)
LEMMA ConsumerGoes ==
    ASSUME IndInv, NEW c \in Consumers, NEW pc \in ConsumerPcs, consumer[c].pc # "idle",
           consumer' = [consumer EXCEPT ![c].pc = pc]
    PROVE  ConsumersOK'
<1>1. ConsumersOK
  BY Parts
<1>2. PICK s : s = [consumer[c] EXCEPT !.pc = pc]
  OBVIOUS
<1>3. s \in ConsumerStates /\ s.id = consumer[c].id /\ s.attempts = consumer[c].attempts
  BY <1>1, <1>2 DEF ConsumersOK, ConsumerStates
<1>4. consumer' = [consumer EXCEPT ![c] = s]
  BY <1>2
<1> QED BY <1>1, <1>3, <1>4 DEF ConsumersOK

(* A consumer that rests holds no message. *)
LEMMA ConsumerRests ==
    ASSUME IndInv, NEW c \in Consumers, consumer' = [consumer EXCEPT ![c] = Idle]
    PROVE  ConsumersOK'
<1>1. Idle \in ConsumerStates /\ Idle.pc = "idle"
  BY BoundAssumption DEF Idle, ConsumerPcs, ConsumerStates
<1> QED BY <1>1, Parts DEF ConsumersOK

(* A message that is retried is a message. *)
LEMMA AgainQueued ==
    ASSUME IndInv, NEW d \in Dispatches, NEW attempts \in 1..MaxDeliveries
    PROVE  Again(d, attempts) \in SUBSET Messages
<1>1. attempts < MaxDeliveries => attempts \in 0..(MaxDeliveries - 1)
  BY BoundAssumption
<1> QED BY <1>1 DEF Again, Messages

(* A message that is sent is a message. *)
LEMMA NewMessage ==
    ASSUME NEW d \in Dispatches
    PROVE  [id |-> d, delivered |-> 0] \in Messages
<1>1. 0 \in 0..(MaxDeliveries - 1)
  BY BoundAssumption
<1> QED BY <1>1 DEF Messages

(* A producer at work goes on with the same dispatch. *)
LEMMA ProducerMoves ==
    ASSUME IndInv, NEW p \in Producers,
           \/ producer[p].pc # "idle" /\ \E pc \in {"admit", "send", "sent", "unsent"} : Move(p, pc)
           \/ Rest(p)
    PROVE  ProducersOK'
<1>1. ProducersOK
  BY Parts
<1>2. CASE Rest(p)
  <2>1. Resting \in ProducerStates /\ Resting.pc = "idle"
    BY DEF Resting, ProducerStates
  <2> QED BY <1>1, <1>2, <2>1 DEF Rest, ProducersOK
<1>3. ASSUME producer[p].pc # "idle", NEW pc \in {"admit", "send", "sent", "unsent"}, Move(p, pc)
      PROVE  ProducersOK'
  <2>1. PICK s : s = [producer[p] EXCEPT !.pc = pc]
    OBVIOUS
  <2>2. s \in ProducerStates /\ s.id = producer[p].id
    BY <1>1, <2>1 DEF ProducersOK, ProducerStates
  <2>3. producer' = [producer EXCEPT ![p] = s]
    BY <1>3, <2>1 DEF Move
  <2> QED BY <1>1, <1>3, <2>2, <2>3 DEF ProducersOK
<1> QED BY <1>2, <1>3

-----------------------------------------------------------------------------
(***************************************************************************)
(* The steps.                                                              *)
(***************************************************************************)

(* A consumer at work has a dispatch and a delivery count within the limit. *)
LEMMA ConsumerAt ==
    ASSUME IndInv, NEW c \in Consumers, consumer[c].pc # "idle"
    PROVE  /\ consumer[c].id \in Dispatches /\ consumer[c].attempts \in 1..MaxDeliveries
           /\ Again(consumer[c].id, consumer[c].attempts) \in SUBSET Messages
BY Parts, AgainQueued DEF ConsumersOK

\* A consumer answers the queue.
LEMMA Answered ==
    ASSUME IndInv, NEW c \in Consumers, consumer[c].pc # "idle", Ack(c) \/ Retry(c)
    PROVE  ConsumersOK' /\ QueueOK'
BY ConsumerAt, ConsumerRests, Parts DEF Ack, Retry, QueueOK

(* A consumer's step in handleQueue, its errors and its eviction. *)
LEMMA ConsumeStep ==
    ASSUME IndInv, NEW c \in Consumers, Consume(c) \/ Unsettled(c) \/ ConsumerError(c) \/ ConsumerGone(c)
    PROVE  IndInv' /\ RowsGentle
<1>1. consumer[c].pc # "idle"
  BY DEF Consume, Start, Settle, Fenced, Completed, Retried, Continue, Resend, Resent, Caught, Unsettled,
         ConsumerError, ConsumerGone
<1>2. PICK d \in Dispatches : d = consumer[c].id
  BY <1>1, ConsumerAt
<1>3. ASSUME NEW pc \in ConsumerPcs, Go(c, pc) PROVE ConsumersOK'
  BY <1>1, <1>3, ConsumerGoes DEF Go
<1>4. row' = row => RowsGentle
  BY SameRows
<1>5. CASE Start(c)
  <2>1. RowsGentle
    <3>1. Set(d, Processable(d), "processing")
      BY <1>2, <1>5 DEF Start
    <3> QED BY <3>1, SetGentle DEF Processable, RowStates
  <2>2. ConsumersOK' /\ QueueOK'
    <3>1. CASE Ack(c)
      BY <1>1, <3>1, Answered
    <3>2. CASE Go(c, "running") /\ UNCHANGED queue
      BY <1>3, <3>2, Stay DEF ConsumerPcs
    <3> QED BY <1>5, <3>1, <3>2 DEF Start
  <2>3. UNCHANGED <<work, producer, cron, fenced, faults>>
    BY <1>5 DEF Start
  <2> QED BY <2>1, <2>2, <2>3, Stay, Whole
<1>6. CASE Settle(c)
  <2>1. RestOK'
    BY <1>2, <1>6, Parts DEF Settle, RestOK
  <2>2. ConsumersOK' /\ UNCHANGED <<row, queue, producer, cron>>
    BY <1>3, <1>6 DEF Settle, ConsumerPcs
  <2> QED BY <1>4, <2>1, <2>2, Stay, Whole
<1>7. CASE Fenced(c)
  <2>1. ConsumersOK' /\ UNCHANGED <<row, work, queue, producer, cron, fenced, faults>>
    BY <1>3, <1>7 DEF Fenced, ConsumerPcs
  <2> QED BY <1>4, <2>1, Stay, Whole
<1>8. CASE Completed(c)
  <2>1. RowsGentle
    <3>1. Set(d, row[d].state # "dead-letter", "done")
      BY <1>2, <1>8 DEF Completed, completeDispatch
    <3> QED BY <3>1, SetGentle DEF RowStates
  <2>2. ConsumersOK' /\ QueueOK' /\ UNCHANGED <<work, producer, cron, fenced, faults>>
    BY <1>1, <1>8, Answered DEF Completed
  <2> QED BY <2>1, <2>2, Stay, Whole
<1>9. CASE Retried(c)
  <2>1. RowsGentle
    <3>1. Set(d, row[d].state # "dead-letter", "retryable")
      BY <1>2, <1>9 DEF Retried, retryDispatch
    <3> QED BY <3>1, SetGentle DEF RowStates
  <2>2. ConsumersOK' /\ QueueOK' /\ UNCHANGED <<work, producer, cron, fenced, faults>>
    BY <1>1, <1>9, Answered DEF Retried
  <2> QED BY <2>1, <2>2, Stay, Whole
<1>10. CASE Continue(c)
  <2>1. RowsGentle
    <3>1. Set(d, row[d].state = "processing", "pending")
      BY <1>2, <1>10 DEF Continue
    <3> QED BY <3>1, SetGentle DEF RowStates
  <2>2. ConsumersOK' /\ UNCHANGED <<work, queue, producer, cron, fenced, faults>>
    <3>1. PICK pc \in {"sending", "erring"} : Go(c, pc)
      BY <1>10 DEF Continue
    <3> QED BY <1>3, <1>10, <3>1 DEF Continue, ConsumerPcs
  <2> QED BY <2>1, <2>2, Stay, Whole
<1>11. CASE Resend(c)
  <2>1. QueueOK'
    BY <1>2, <1>11, NewMessage, Parts DEF Resend, QueueOK
  <2>2. ConsumersOK' /\ UNCHANGED <<row, work, producer, cron, fenced, faults>>
    BY <1>3, <1>11 DEF Resend, ConsumerPcs
  <2> QED BY <1>4, <2>1, <2>2, Stay, Whole
<1>12. CASE Resent(c)
  <2>1. RowsGentle
    <3>1. deliveredDispatch(d) \/ failedDispatch(d)
      BY <1>2, <1>12 DEF Resent
    <3> QED BY <3>1, SetGentle DEF deliveredDispatch, failedDispatch, RowStates
  <2>2. ConsumersOK' /\ QueueOK' /\ UNCHANGED <<work, producer, cron, fenced, faults>>
    BY <1>1, <1>12, Answered DEF Resent
  <2> QED BY <2>1, <2>2, Stay, Whole
<1>13. CASE Caught(c)
  <2>1. RowsGentle
    <3>1. PICK attempts \in 1..MaxDeliveries : attempts = consumer[c].attempts
      BY <1>1, ConsumerAt
    <3>2. deadDispatch(d, attempts) \/ retryDispatch(d)
      BY <1>2, <1>13, <3>1 DEF Caught
    <3>3. CASE deadDispatch(d, attempts)
      BY <3>3, DeadGentle
    <3>4. CASE retryDispatch(d)
      BY <3>4, SetGentle DEF retryDispatch, RowStates
    <3> QED BY <3>2, <3>3, <3>4
  <2>2. ConsumersOK' /\ QueueOK' /\ UNCHANGED <<work, producer, cron, fenced, faults>>
    BY <1>1, <1>13, Answered DEF Caught
  <2> QED BY <2>1, <2>2, Stay, Whole
<1>14. CASE Unsettled(c)
  <2>1. PICK pc \in {"retrying", "erring", "completing", "continuing"} : Go(c, pc)
    BY <1>14 DEF Unsettled
  <2>2. RestOK' /\ UNCHANGED <<row, queue, producer, cron>>
    BY <1>14, Spent DEF Unsettled
  <2>3. ConsumersOK'
    BY <1>3, <2>1 DEF ConsumerPcs
  <2> QED BY <1>4, <2>2, <2>3, Stay, Whole
<1>15. CASE ConsumerError(c)
  <2>1. PICK pc \in {"erring", "unsent"} : Go(c, pc)
    BY <1>15 DEF ConsumerError
  <2>2. RestOK' /\ UNCHANGED <<row, queue, producer, cron>>
    BY <1>15, Spent DEF ConsumerError
  <2>3. ConsumersOK'
    BY <1>3, <2>1 DEF ConsumerPcs
  <2> QED BY <1>4, <2>2, <2>3, Stay, Whole
<1>16. CASE ConsumerGone(c)
  <2>1. RestOK' /\ UNCHANGED <<row, producer, cron>>
    BY <1>16, Spent DEF ConsumerGone
  <2>2. ConsumersOK' /\ QueueOK'
    BY <1>1, <1>16, Answered DEF ConsumerGone
  <2> QED BY <1>4, <2>1, <2>2, Stay, Whole
<1> QED BY <1>5, <1>6, <1>7, <1>8, <1>9, <1>10, <1>11, <1>12, <1>13, <1>14, <1>15, <1>16 DEF Consume

\* A message is delivered, kept or dropped.
LEMMA QueueStep ==
    ASSUME IndInv, NEW m \in Messages, Skip(m) \/ \E c \in Consumers : Deliver(c, m)
    PROVE  IndInv' /\ RowsGentle
<1>1. m.id \in Dispatches /\ m.delivered + 1 \in 1..MaxDeliveries
  BY BoundAssumption DEF Messages
<1>2. CASE Skip(m)
  <2>1. QueueOK'
    BY <1>1, <1>2, AgainQueued, Parts DEF Skip, QueueOK
  <2>2. RestOK' /\ UNCHANGED <<row, consumer, producer, cron>>
    BY <1>2, Spent DEF Skip
  <2> QED BY <2>1, <2>2, SameRows, Stay, Whole
<1>3. ASSUME NEW c \in Consumers, Deliver(c, m) PROVE IndInv' /\ RowsGentle
  <2>1. ConsumersOK'
    <3>1. PICK s : s = [pc |-> "delivered", id |-> m.id, attempts |-> m.delivered + 1]
      OBVIOUS
    <3>2. s \in ConsumerStates /\ s.id \in Dispatches /\ s.attempts \in 1..MaxDeliveries
      BY <1>1, <3>1, BoundAssumption DEF ConsumerStates, ConsumerPcs
    <3>3. consumer' = [consumer EXCEPT ![c] = s]
      BY <1>3, <3>1 DEF Deliver
    <3> QED BY <3>2, <3>3, Parts DEF ConsumersOK
  <2>2. QueueOK' /\ UNCHANGED <<row, producer, cron>>
    BY <1>3, Parts DEF Deliver, QueueOK
  <2>3. RestOK'
    BY <1>3, Spent DEF Deliver
  <2> QED BY <2>1, <2>2, <2>3, SameRows, Stay, Whole
<1> QED BY <1>2, <1>3

(* A producer's step in dispatchRuntimeWork, its errors and its eviction. *)
LEMMA ProduceStep ==
    ASSUME IndInv, NEW p \in Producers, Produce(p) \/ ProducerError(p) \/ ProducerGone(p)
    PROVE  IndInv' /\ RowsGentle
<1>1. producer[p].pc # "idle"
  BY DEF Produce, Stage, Admit, Send, Record, ProducerError, ProducerGone
<1>2. PICK d \in Dispatches : d = producer[p].id
  BY <1>1, Parts DEF ProducersOK
<1>3. CASE Stage(p)
  <2>1. RowsGentle
    <3>1. Set(d, row[d].state = "absent", "backpressured")
      BY <1>2, <1>3 DEF Stage
    <3> QED BY <3>1, SetGentle DEF RowStates
  <2>2. ProducersOK' /\ UNCHANGED <<work, queue, consumer, cron, fenced, faults>>
    BY <1>1, <1>3, ProducerMoves DEF Stage
  <2> QED BY <2>1, <2>2, Stay, Whole
<1>4. CASE Admit(p)
  <2>1. RowsGentle
    <3>1. Set(d, Admissible(d), "pending")
      BY <1>2, <1>4 DEF Admit
    <3>2. Admissible(d) => row[d].state # "dead-letter"
      BY DEF Admissible
    <3> QED BY <3>1, <3>2, SetGentle DEF RowStates
  <2>2. ProducersOK' /\ UNCHANGED <<work, queue, consumer, cron, fenced, faults>>
    BY <1>1, <1>4, ProducerMoves DEF Admit
  <2> QED BY <2>1, <2>2, Stay, Whole
<1>5. CASE Send(p)
  <2>1. QueueOK'
    BY <1>2, <1>5, NewMessage, Parts DEF Send, QueueOK
  <2>2. ProducersOK' /\ UNCHANGED <<row, work, consumer, cron, fenced, faults>>
    BY <1>1, <1>5, ProducerMoves DEF Send
  <2> QED BY <2>1, <2>2, SameRows, Stay, Whole
<1>6. CASE Record(p)
  <2>1. RowsGentle
    <3>1. deliveredDispatch(d) \/ failedDispatch(d)
      BY <1>2, <1>6 DEF Record
    <3> QED BY <3>1, SetGentle DEF deliveredDispatch, failedDispatch, RowStates
  <2>2. ProducersOK' /\ UNCHANGED <<work, queue, consumer, cron, fenced, faults>>
    BY <1>6, ProducerMoves DEF Record
  <2> QED BY <2>1, <2>2, Stay, Whole
<1>7. CASE ProducerError(p) \/ ProducerGone(p)
  <2>1. RestOK' /\ UNCHANGED <<row, queue, consumer, cron>>
    BY <1>7, Spent DEF ProducerError, ProducerGone
  <2>2. ProducersOK'
    BY <1>1, <1>7, ProducerMoves DEF ProducerError, ProducerGone
  <2> QED BY <2>1, <2>2, SameRows, Stay, Whole
<1> QED BY <1>3, <1>4, <1>5, <1>6, <1>7 DEF Produce

(* New work is given to a producer. *)
LEMMA CreateWorkStep ==
    ASSUME IndInv, NEW p \in Producers, NEW d \in Dispatches, CreateWork(p, d)
    PROVE  IndInv' /\ RowsGentle
<1>1. ProducersOK'
  <2>1. PICK s : s = [pc |-> "stage", id |-> d]
    OBVIOUS
  <2>2. s \in ProducerStates /\ s.id = d
    BY <2>1 DEF ProducerStates
  <2>3. producer' = [producer EXCEPT ![p] = s]
    BY <2>1 DEF CreateWork
  <2> QED BY <2>2, <2>3, Parts DEF ProducersOK
<1>2. RestOK' /\ UNCHANGED <<row, queue, consumer, cron>>
  BY Parts DEF CreateWork, RestOK
<1> QED BY <1>1, <1>2, SameRows, Stay, Whole

\* The cron gives up no dead letter, and admits and fails none.
LEMMA CronRows ==
    ASSUME IndInv, CronStep \/ CronError \/ CronGone
    PROVE  RowsGentle
<1>1. CASE Repair
  BY <1>1, ManyGentle DEF Repair
<1>2. CASE Sweep
  BY <1>2, ManyGentle DEF Sweep, Stale
<1>3. CASE Select \/ CronDone \/ CronError \/ CronGone
  BY <1>3, SameRows DEF Select, CronDone, CronError, CronGone
<1>4. CASE CronRecord
  <2>1. PICK d \in Dispatches : deliveredDispatch(d) \/ failedDispatch(d)
    BY <1>4, Parts DEF CronRecord, CronOK
  <2> QED BY <2>1, SetGentle DEF deliveredDispatch, failedDispatch, RowStates
<1>5. ASSUME NEW d \in Dispatches, CronAdmit(d) PROVE RowsGentle
  <2>1. Set(d, Admissible(d), "pending") /\ (Admissible(d) => row[d].state # "dead-letter")
    BY <1>5 DEF CronAdmit, Admissible
  <2> QED BY <2>1, SetGentle DEF RowStates
<1>6. ASSUME NEW d \in Dispatches, CronSend(d) PROVE RowsGentle
  BY <1>6, SameRows DEF CronSend
<1> QED BY <1>1, <1>2, <1>3, <1>4, <1>5, <1>6 DEF CronStep

(* A step of the scheduled repair, its errors and its eviction. *)
LEMMA CronTurn ==
    ASSUME IndInv, CronStep \/ CronError \/ CronGone
    PROVE  IndInv' /\ RowsGentle
<1>1. CronOK
  BY Parts
<1>2. Waiting \in CronStates /\ Waiting.pc = "repair"
  BY DEF Waiting, CronStates
<1>3. RowsGentle
  BY CronRows
<1>4. CASE Repair \/ Sweep \/ Select
  <2>1. CronOK' /\ UNCHANGED <<work, queue, consumer, producer, fenced, faults>>
    BY <1>1, <1>4 DEF Repair, Sweep, Select, CronOK, CronStates
  <2> QED BY <1>3, <2>1, Stay, Whole
<1>5. CASE CronRecord
  <2>1. CronOK' /\ UNCHANGED <<work, queue, consumer, producer, fenced, faults>>
    BY <1>1, <1>5 DEF CronRecord, CronOK, CronStates
  <2> QED BY <1>3, <2>1, Stay, Whole
<1>6. CASE CronDone
  <2>1. CronOK' /\ UNCHANGED <<work, queue, consumer, producer, fenced, faults>>
    BY <1>2, <1>6 DEF CronDone, CronOK
  <2> QED BY <1>3, <2>1, Stay, Whole
<1>7. ASSUME NEW d \in Dispatches, CronAdmit(d) PROVE IndInv' /\ RowsGentle
  <2>1. CronOK' /\ UNCHANGED <<work, queue, consumer, producer, fenced, faults>>
    BY <1>1, <1>7 DEF CronAdmit, CronOK, CronStates
  <2> QED BY <1>3, <2>1, Stay, Whole
<1>8. ASSUME NEW d \in Dispatches, CronSend(d) PROVE IndInv' /\ RowsGentle
  <2>1. CronOK' /\ UNCHANGED <<work, consumer, producer, fenced, faults>>
    BY <1>1, <1>8 DEF CronSend, CronOK, CronStates
  <2>2. QueueOK'
    BY <1>8, NewMessage, Parts DEF CronSend, QueueOK
  <2> QED BY <1>3, <2>1, <2>2, Stay, Whole
<1>9. CASE CronError
  <2>1. CronOK'
    BY <1>1, <1>9 DEF CronError, CronOK, CronStates
  <2>2. RestOK' /\ UNCHANGED <<queue, consumer, producer>>
    BY <1>9, Spent DEF CronError
  <2> QED BY <1>3, <2>1, <2>2, Stay, Whole
<1>10. CASE CronGone
  <2>1. CronOK'
    BY <1>2, <1>10 DEF CronGone, CronOK
  <2>2. RestOK' /\ UNCHANGED <<queue, consumer, producer>>
    BY <1>10, Spent DEF CronGone
  <2> QED BY <1>3, <2>1, <2>2, Stay, Whole
<1> QED BY <1>4, <1>5, <1>6, <1>7, <1>8, <1>9, <1>10 DEF CronStep

(* Retry times fall due and rows grow old. *)
LEMMA TimeStep ==
    ASSUME IndInv, NEW d \in Dispatches, Due(d) \/ Age(d) \/ Slow(d)
    PROVE  IndInv' /\ RowsGentle
<1>1. RowsGentle
  BY MarkGentle DEF Due, Age, Slow, Old
<1>2. RestOK' /\ UNCHANGED <<queue, consumer, producer, cron>>
  BY Spent DEF Due, Age, Slow, Old
<1> QED BY <1>1, <1>2, Stay, Whole

\* The recorded recovery puts a dead letter back, with its evidence.
LEMMA RecoverStep ==
    ASSUME IndInv, NEW d \in Dispatches, Recover(d)
    PROVE  /\ IndInv' /\ faults' < faults
           /\ \A e \in Dispatches : /\ row'[e].state = row[e].state \/ row'[e].state = "backpressured"
                                    /\ row'[e].evidence = row[e].evidence
<1>1. row \in [Dispatches -> RowRecords] /\ EvidenceStands
  BY Types DEF IndInv
<1>2. PICK new : new = [row[d] EXCEPT !.state = "backpressured", !.due = FALSE, !.stale = FALSE]
  OBVIOUS
<1>3. new \in RowRecords /\ new.state = "backpressured" /\ new.evidence = row[d].evidence
  BY <1>1, <1>2 DEF RowRecords, RowStates
<1>4. row' = [row EXCEPT ![d] = new]
  BY <1>1, <1>2 DEF Recover, To
<1>5. row' \in [Dispatches -> RowRecords] /\ row'[d] = new /\ \A e \in Dispatches \ {d} : row'[e] = row[e]
  BY <1>1, <1>3, <1>4
<1>6. RestOK' /\ UNCHANGED <<queue, consumer, producer, cron>>
  BY Spent DEF Recover
<1>7. TypeOK'
  BY <1>5, <1>6, Types DEF IndInv, RestOK, TypeOK, RowRecords, ConsumerPcs, ConsumerStates, ProducerStates, CronStates
<1>8. EvidenceStands'
  BY <1>1, <1>3, <1>5 DEF EvidenceStands
<1>9. AtWork'
  BY <1>6 DEF IndInv, AtWork
<1>10. faults' < faults
  BY Types DEF IndInv, Recover
<1> QED BY <1>3, <1>5, <1>7, <1>8, <1>9, <1>10 DEF IndInv

(* The fence comes and goes. *)
LEMMA FenceStep ==
    ASSUME IndInv, Fence \/ Unfence \/ UNCHANGED vars
    PROVE  IndInv' /\ RowsGentle
<1>1. RestOK' /\ UNCHANGED <<row, queue, consumer, producer, cron>>
  BY Parts DEF Fence, Unfence, vars, RestOK
<1> QED BY <1>1, SameRows, Stay, Whole

-----------------------------------------------------------------------------
(***************************************************************************)
(* The theorems.                                                           *)
(***************************************************************************)

(* At first there is no row, no message and nobody at work. *)
LEMMA InitInv == Init => IndInv
<1> SUFFICES ASSUME Init PROVE IndInv
  OBVIOUS
<1>1. MaxFaults \in 0..MaxFaults /\ 0 \in 0..MaxDeliveries
  BY BoundAssumption
<1>2. row \in [Dispatches -> RowRecords] /\ \A d \in Dispatches : row[d].state = "absent"
  BY DEF Init, RowRecords, RowStates
<1>3. consumer \in [Consumers -> ConsumerStates] /\ \A c \in Consumers : consumer[c].pc = "idle"
  BY <1>1 DEF Init, Idle, ConsumerPcs, ConsumerStates
<1>4. producer \in [Producers -> ProducerStates] /\ \A p \in Producers : producer[p].pc = "idle"
  BY DEF Init, Resting, ProducerStates
<1>5. cron \in CronStates /\ cron.pc = "repair"
  BY DEF Init, Waiting, CronStates
<1>6. TypeOK
  BY <1>1, <1>2, <1>3, <1>4, <1>5
     DEF Init, TypeOK, RowRecords, ConsumerPcs, ConsumerStates, ProducerStates, CronStates
<1>7. EvidenceStands /\ AtWork
  BY <1>2, <1>3, <1>4, <1>5 DEF EvidenceStands, AtWork
<1> QED BY <1>6, <1>7 DEF IndInv

\* Only the recovery takes a dead letter back.
LEMMA StepInv ==
    ASSUME IndInv, [Next]_vars
    PROVE  IndInv' /\ (RowsGentle \/ \E d \in Dispatches : Recover(d))
<1>1. ASSUME NEW d \in Dispatches, Due(d) \/ Age(d) \/ Slow(d) \/ Recover(d)
      PROVE  IndInv' /\ (RowsGentle \/ \E e \in Dispatches : Recover(e))
  BY <1>1, TimeStep, RecoverStep
<1>2. ASSUME NEW p \in Producers, NEW d \in Dispatches, CreateWork(p, d) PROVE IndInv' /\ RowsGentle
  BY <1>2, CreateWorkStep
<1>3. ASSUME NEW p \in Producers, Produce(p) \/ ProducerError(p) \/ ProducerGone(p) PROVE IndInv' /\ RowsGentle
  BY <1>3, ProduceStep
<1>4. CASE CronStep \/ CronError \/ CronGone
  BY <1>4, CronTurn
<1>5. ASSUME NEW m \in Messages, Skip(m) \/ \E c \in Consumers : Deliver(c, m) PROVE IndInv' /\ RowsGentle
  BY <1>5, QueueStep
<1>6. ASSUME NEW c \in Consumers, Consume(c) \/ Unsettled(c) \/ ConsumerError(c) \/ ConsumerGone(c)
      PROVE  IndInv' /\ RowsGentle
  BY <1>6, ConsumeStep
<1>7. CASE Fence \/ Unfence \/ UNCHANGED vars
  BY <1>7, FenceStep
<1> QED BY <1>1, <1>2, <1>3, <1>4, <1>5, <1>6, <1>7 DEF Next

\* Dead letters have their evidence, and whoever works on a row knows whose it is.
\* (deadDispatch, handleQueue, dispatchRuntimeWork, scheduled)
THEOREM Invariance == Spec => []IndInv
<1>1. IndInv /\ [Next]_vars => IndInv'
  BY StepInv
<1> QED BY <1>1, InitInv, PTL DEF Spec

\* Rows, messages, consumers, producers and the cron are what the code makes of them.
\* (wp_codebox_runtime_dispatches, handleQueue, dispatchRuntimeWork, scheduled)
THEOREM TypeCorrect == Spec => []TypeOK
<1>1. IndInv => TypeOK
  BY DEF IndInv
<1> QED BY <1>1, Invariance, PTL

\* A dead letter is left by the recorded recovery only, and keeps its evidence, for any number of
\* late consumers, producers and cron passes.
\* (deadDispatch, completeDispatch, retryDispatch, failedDispatch)
THEOREM DeadLettersStand == Spec => DeadLetterStands
<1>1. ASSUME IndInv, [Next]_vars, NEW d \in Dispatches
      PROVE  /\ row[d].state = "dead-letter" =>
                  row'[d].state = "dead-letter" \/ (faults' < faults /\ row'[d].state = "backpressured")
             /\ row'[d].state = "dead-letter" => row'[d].evidence # {}
             /\ row[d].evidence \subseteq row'[d].evidence
  <2>1. IndInv' /\ (RowsGentle \/ \E e \in Dispatches : Recover(e))
    BY <1>1, StepInv
  <2>2. row'[d].state = "dead-letter" => row'[d].evidence # {}
    BY <2>1 DEF IndInv, EvidenceStands
  <2>3. CASE RowsGentle
    BY <2>2, <2>3 DEF RowsGentle, Gentle
  <2>4. ASSUME NEW e \in Dispatches, Recover(e)
        PROVE  /\ row[d].state = "dead-letter" =>
                    row'[d].state = "dead-letter" \/ (faults' < faults /\ row'[d].state = "backpressured")
               /\ row[d].evidence \subseteq row'[d].evidence
    BY <1>1, <2>4, RecoverStep
  <2> QED BY <2>1, <2>2, <2>3, <2>4
<1>2. IndInv /\ [Next]_vars =>
        [\A d \in Dispatches :
            /\ row[d].state = "dead-letter" =>
                 row'[d].state = "dead-letter" \/ (faults' < faults /\ row'[d].state = "backpressured")
            /\ row'[d].state = "dead-letter" => row'[d].evidence # {}
            /\ row[d].evidence \subseteq row'[d].evidence]_vars
  BY <1>1
<1> QED BY <1>2, Invariance, PTL DEF Spec, DeadLetterStands

=============================================================================
