------------------------ MODULE StateCoordinatorProofs ------------------------
(***************************************************************************)
(* Proofs about StateCoordinator, for every set of callers, tokens,        *)
(* pointers and durations and every bound: what the Durable Object         *)
(* promises holds wherever an eviction strikes.                            *)
(***************************************************************************)
EXTENDS StateCoordinator, TLAPS

(***************************************************************************)
(* The inductive invariant.                                                *)
(***************************************************************************)

\* What a handler that awaits R2 has checked still holds when it goes on: no fence became
\* active, and the record a commit read is the one it will replace.
HandlerSees ==
    handler # None =>
        /\ stored # None
        /\ ~FenceActive(stored)
        /\ handler.op = "commit" => handler.record = stored /\ stored.version < MaxVersion
        /\ handler.op = "reset" => current = None /\ everStored

\* Once a record was stored and deleted, there is nothing in R2 to make another one of.
EmptyStays == everStored /\ stored = None => current = None

IndInv == TypeOK /\ ReceiptForCurrent /\ FenceExcludesLease /\ HandlerSees /\ EmptyStays

-----------------------------------------------------------------------------
(***************************************************************************)
(* What a step may do.                                                     *)
(***************************************************************************)

\* A handler of one write refreshes the record: pointer and version stay as they are, and
\* not both a fence and a lease are good afterwards.
Refresh(r) ==
    /\ handler = None
    /\ r \in Records
    /\ r.pointer = Record.pointer
    /\ r.version = Record.version
    /\ ~(FenceActive(r) /\ LeaseLive(r))
    /\ Save(r)
    /\ UNCHANGED <<clock, receipts, current, handler>>

\* A step of the callers or of the environment: records and receipts stay.
Idles ==
    /\ clock' \in clock..MaxTime
    /\ handler' \in {handler, None}
    /\ UNCHANGED <<stored, receipts, current, everStored>>

\* The state of the callers remains well typed.
CallersTyped == issued' \in SUBSET Tokens /\ held' \in [Callers -> Leases \cup {None}]

\* The record a handler works with is a record, and nothing is missing from it.
LEMMA RecordTyped == TypeOK => Record \in Records /\ Record # None
BY NoneAssumption, BoundAssumption DEF TypeOK, Record, Records

\* The record's lease and fence are in its fields, and putting others there keeps it one.
LEMMA RecordFields ==
    ASSUME NEW r \in Records
    PROVE  /\ r.pointer \in Pointers \cup {None} /\ r.version \in 0..MaxVersion
           /\ r.lease \in Leases \cup {None} /\ r.fence \in Fences \cup {None}
           /\ \A l \in Leases \cup {None} : [r EXCEPT !.lease = l] \in Records
           /\ \A f \in Fences \cup {None} : [r EXCEPT !.fence = f] \in Records
BY DEF Records

\* Before a handler runs, a good fence excludes a good lease also in a record it makes.
LEMMA RecordExcludes ==
    ASSUME FenceExcludesLease
    PROVE  ~(FenceActive(Record) /\ LeaseLive(Record))
BY DEF FenceExcludesLease, Record, FenceActive, LeaseLive

\* A reply hands its caller a lease or none.
LEMMA ReplyTyped ==
    ASSUME TypeOK, NEW c \in Callers, NEW l \in Leases \cup {None}, Reply(c, l)
    PROVE  held' \in [Callers -> Leases \cup {None}]
BY DEF TypeOK, Reply

\* The handlers that refresh the record.
LEMMA AnswerRefreshes ==
    ASSUME TypeOK, FenceExcludesLease, Answer
    PROVE  Refresh(Record) /\ CallersTyped
BY RecordTyped, RecordExcludes DEF Answer, Serialized, Refresh, CallersTyped, TypeOK

(* acquire changes the record as a refresh does. *)
LEMMA BeginRefreshes ==
    ASSUME TypeOK, NEW c \in Callers, Begin(c)
    PROVE  (\E r : Refresh(r)) /\ CallersTyped
<1>1. PICK t \in Tokens \ issued, ttl \in LeaseTtls :
        LET lease == [token |-> t, base |-> Record.pointer, version |-> Record.version,
                      expires |-> clock + ttl]
        IN  /\ Save([Record EXCEPT !.lease = lease])
            /\ Reply(c, lease)
            /\ issued' = issued \cup {t}
  BY DEF Begin
<1> DEFINE lease == [token |-> t, base |-> Record.pointer, version |-> Record.version,
                     expires |-> clock + ttl]
           r == [Record EXCEPT !.lease = lease]
<1>2. Record \in Records
  BY RecordTyped
<1>3. clock + ttl \in Nat
  BY TtlAssumption, BoundAssumption DEF TypeOK
<1>4. lease \in Leases
  BY <1>2, <1>3, RecordFields DEF Leases
<1>5. r \in Records /\ r.pointer = Record.pointer /\ r.version = Record.version
      /\ r.fence = Record.fence
  BY <1>2, <1>4 DEF Records
<1>6. ~FenceActive(r)
  BY <1>5 DEF Begin, CanBegin, FenceActive
<1>7. Refresh(r)
  BY <1>1, <1>5, <1>6 DEF Begin, Serialized, Refresh
<1>8. CallersTyped
  BY <1>1, <1>4, ReplyTyped DEF CallersTyped, TypeOK
<1> QED BY <1>7, <1>8

(* renew changes the record as a refresh does. *)
LEMMA RenewRefreshes ==
    ASSUME TypeOK, FenceExcludesLease, NEW c \in Callers, Renew(c)
    PROVE  (\E r : Refresh(r)) /\ CallersTyped
<1>1. PICK ttl \in LeaseTtls :
        LET lease == [Record.lease EXCEPT !.expires = clock + ttl]
        IN  Save([Record EXCEPT !.lease = lease]) /\ Reply(c, lease)
  BY DEF Renew
<1> DEFINE lease == [Record.lease EXCEPT !.expires = clock + ttl]
           r == [Record EXCEPT !.lease = lease]
<1>2. Record \in Records /\ Record.lease \in Leases
  BY RecordTyped, RecordFields DEF Renew, HoldsLease, LeaseLive
<1>3. clock + ttl \in Nat
  BY TtlAssumption, BoundAssumption DEF TypeOK
<1>4. lease \in Leases
  BY <1>2, <1>3 DEF Leases
<1>5. r \in Records /\ r.pointer = Record.pointer /\ r.version = Record.version
      /\ r.fence = Record.fence
  BY <1>2, <1>4 DEF Records
<1>6. ~FenceActive(r)
  BY <1>5, RecordExcludes DEF Renew, HoldsLease, FenceActive
<1>7. Refresh(r)
  BY <1>1, <1>5, <1>6 DEF Renew, Serialized, Refresh
<1>8. CallersTyped
  BY <1>1, <1>4, ReplyTyped DEF Renew, CallersTyped, TypeOK
<1> QED BY <1>7, <1>8

(* release and abort change the record as a refresh does. *)
LEMMA FinishRefreshes ==
    ASSUME TypeOK, NEW c \in Callers, Finish(c)
    PROVE  (\E r : Refresh(r)) /\ CallersTyped
<1> DEFINE r == [Record EXCEPT !.lease = None]
<1>1. r \in Records /\ r.pointer = Record.pointer /\ r.version = Record.version /\ r.lease = None
  BY RecordTyped DEF Records
<1>2. Refresh(r)
  BY <1>1 DEF Finish, Serialized, Refresh, LeaseLive
<1>3. CallersTyped
  BY DEF Finish, CallersTyped, TypeOK
<1> QED BY <1>2, <1>3

(* Taking a fence changes the record as a refresh does. *)
LEMMA AcquireFenceRefreshes ==
    ASSUME TypeOK, AcquireFence
    PROVE  (\E r : Refresh(r)) /\ CallersTyped
<1>1. PICK t \in Tokens \ issued, ttl \in FenceTtls :
        /\ Save([Record EXCEPT !.lease = None, !.fence = [token |-> t, expires |-> clock + ttl]])
        /\ issued' = issued \cup {t}
  BY DEF AcquireFence
<1> DEFINE fence == [token |-> t, expires |-> clock + ttl]
           r == [Record EXCEPT !.lease = None, !.fence = fence]
<1>2. clock + ttl \in Nat
  BY TtlAssumption, BoundAssumption DEF TypeOK
<1>3. fence \in Fences
  BY <1>2 DEF Fences
<1>4. r \in Records /\ r.pointer = Record.pointer /\ r.version = Record.version /\ r.lease = None
  BY <1>3, RecordTyped DEF Records
<1>5. Refresh(r)
  BY <1>1, <1>4 DEF AcquireFence, Serialized, Refresh, LeaseLive
<1>6. CallersTyped
  BY <1>1 DEF AcquireFence, CallersTyped, TypeOK
<1> QED BY <1>5, <1>6

(* Renewing a fence changes the record as a refresh does. *)
LEMMA RenewFenceRefreshes ==
    ASSUME TypeOK, FenceExcludesLease, RenewFence
    PROVE  (\E r : Refresh(r)) /\ CallersTyped
<1>1. PICK ttl \in FenceTtls : Save([Record EXCEPT !.fence.expires = clock + ttl])
  BY DEF RenewFence
<1> DEFINE r == [Record EXCEPT !.fence.expires = clock + ttl]
<1>2. clock + ttl \in Nat
  BY TtlAssumption, BoundAssumption DEF TypeOK
<1>3. Record \in Records /\ Record.fence \in Fences
  BY RecordTyped, RecordFields DEF RenewFence, FenceActive
<1>4. r \in Records /\ r.pointer = Record.pointer /\ r.version = Record.version
      /\ r.lease = Record.lease
  BY <1>2, <1>3 DEF Records, Fences
<1>5. ~LeaseLive(r)
  BY <1>4, RecordExcludes DEF RenewFence, LeaseLive
<1>6. Refresh(r)
  BY <1>1, <1>4, <1>5 DEF RenewFence, Serialized, Refresh
<1>7. CallersTyped
  BY DEF RenewFence, CallersTyped, TypeOK
<1> QED BY <1>6, <1>7

(* Releasing a fence changes the record as a refresh does. *)
LEMMA ReleaseFenceRefreshes ==
    ASSUME TypeOK, ReleaseFence
    PROVE  (\E r : Refresh(r)) /\ CallersTyped
<1> DEFINE r == [Record EXCEPT !.fence = None]
<1>1. r \in Records /\ r.pointer = Record.pointer /\ r.version = Record.version /\ r.fence = None
  BY RecordTyped DEF Records
<1>2. Refresh(r)
  BY <1>1 DEF ReleaseFence, Serialized, Refresh, FenceActive
<1>3. CallersTyped
  BY DEF ReleaseFence, CallersTyped, TypeOK
<1> QED BY <1>2, <1>3

\* Every step idles, refreshes the record, or is one of the five writes that move pointer or
\* version.
LEMMA StepKinds ==
    ASSUME TypeOK, FenceExcludesLease, [Next]_vars
    PROVE  \/ Idles /\ CallersTyped
           \/ (\E r : Refresh(r)) /\ CallersTyped
           \/ \E c \in Callers : CommitPut(c)
           \/ CommitStore
           \/ \E p \in Pointers, v \in Versions, t \in issued \cup {None} : Adopt(p, v, t)
           \/ ResetDelete
           \/ ResetStore
<1>1. CASE Tick
  BY <1>1, BoundAssumption DEF Tick, Idles, CallersTyped, TypeOK
<1>2. CASE Evict
  BY <1>2, BoundAssumption DEF Evict, Idles, CallersTyped, TypeOK
<1>3. ASSUME NEW c \in Callers, Vanish(c)
      PROVE  Idles /\ CallersTyped
  BY <1>3, BoundAssumption DEF Vanish, Idles, CallersTyped, TypeOK
<1>4. CASE UNCHANGED vars
  BY <1>4, BoundAssumption DEF vars, Idles, CallersTyped, TypeOK
<1> QED
  BY <1>1, <1>2, <1>3, <1>4, AnswerRefreshes, BeginRefreshes, RenewRefreshes, FinishRefreshes,
     AcquireFenceRefreshes, RenewFenceRefreshes, ReleaseFenceRefreshes DEF Next

-----------------------------------------------------------------------------
(***************************************************************************)
(* Each kind of step keeps the invariant.                                  *)
(***************************************************************************)

(* A step that leaves record, receipts and R2 alone keeps the invariant. *)
LEMMA IdlesStep ==
    ASSUME IndInv, Idles, CallersTyped
    PROVE  IndInv'
<1> USE DEF IndInv, Idles
<1>1. clock \in Nat /\ clock' \in Nat /\ clock <= clock' /\ clock' \in 0..MaxTime
  BY BoundAssumption DEF TypeOK
<1>2. TypeOK'
  BY <1>1 DEF TypeOK, CallersTyped
<1>3. stored # None => /\ FenceActive(stored)' => FenceActive(stored)
                       /\ LeaseLive(stored)' => LeaseLive(stored)
  <2>1. ASSUME NEW x \in Nat, x > clock' PROVE x > clock
    BY <1>1, <2>1
  <2>2. stored # None => stored \in Records /\ (stored.fence # None => stored.fence \in Fences)
                         /\ (stored.lease # None => stored.lease \in Leases)
    BY RecordFields DEF TypeOK
  <2> QED
    BY <2>1, <2>2 DEF FenceActive, LeaseLive, Fences, Leases
<1>4. FenceExcludesLease'
  BY <1>3 DEF FenceExcludesLease
<1>5. HandlerSees'
  BY <1>3 DEF HandlerSees
<1> QED
  BY <1>2, <1>4, <1>5 DEF ReceiptForCurrent, EmptyStays

(* A refresh of the record keeps the invariant. *)
LEMMA RefreshStep ==
    ASSUME IndInv, NEW r, Refresh(r), CallersTyped
    PROVE  IndInv'
<1>1. TypeOK'
  BY DEF IndInv, Refresh, Save, TypeOK, CallersTyped
<1>2. stored' # None
  BY NoneAssumption DEF Refresh, Save
<1>3. ReceiptForCurrent'
  BY DEF IndInv, Refresh, Save, ReceiptForCurrent, Record
<1>4. FenceExcludesLease'
  BY DEF Refresh, Save, FenceExcludesLease, FenceActive, LeaseLive
<1>5. HandlerSees' /\ EmptyStays'
  BY <1>2 DEF Refresh, HandlerSees, EmptyStays
<1> QED
  BY <1>1, <1>3, <1>4, <1>5 DEF IndInv

\* A commit checks a live lease, so there is a record already and no fence is active.
LEMMA CommitPutSees ==
    ASSUME IndInv, NEW c \in Callers, CommitPut(c)
    PROVE  Record = stored /\ stored # None /\ ~FenceActive(stored) /\ LeaseLive(stored)
<1>1. LeaseLive(Record)
  BY DEF CommitPut, CanCommit, HoldsLease
<1>2. Record = stored /\ stored # None
  BY <1>1 DEF Record, LeaseLive
<1> QED
  BY <1>1, <1>2 DEF IndInv, FenceExcludesLease

(* The first half of commit puts current.json and leaves the record to the second. *)
LEMMA CommitPutStep ==
    ASSUME IndInv, NEW c \in Callers, CommitPut(c)
    PROVE  IndInv'
<1>1. PICK p \in Pointers :
        /\ current' = p
        /\ handler' = [op |-> "commit", caller |-> c, record |-> Record, pointer |-> p]
  BY DEF CommitPut
<1>2. Record = stored /\ stored # None /\ ~FenceActive(stored)
  BY CommitPutSees
<1>3. handler' \in Commits /\ Record \in Records
  BY <1>1, RecordTyped DEF Commits, IndInv
<1>4. TypeOK'
  BY <1>1, <1>3 DEF CommitPut, IndInv, TypeOK
<1>5. HandlerSees'
  BY <1>1, <1>2 DEF CommitPut, HandlerSees, FenceActive
<1>6. ReceiptForCurrent' /\ FenceExcludesLease' /\ EmptyStays'
  BY <1>2 DEF CommitPut, IndInv, ReceiptForCurrent, FenceExcludesLease, EmptyStays, FenceActive, LeaseLive
<1> QED
  BY <1>4, <1>5, <1>6 DEF IndInv

\* The transaction replaces the record the handler read, as its next version.
LEMMA CommitStoreSees ==
    ASSUME IndInv, CommitStore
    PROVE  /\ stored # None /\ ~FenceActive(stored)
           /\ stored.version \in 0..MaxVersion /\ stored.version + 1 \in Versions
           /\ handler.pointer \in Pointers
           /\ stored' \in Records /\ stored'.lease = None
           /\ stored'.pointer = handler.pointer /\ stored'.version = stored.version + 1
           /\ receipts' = [receipts EXCEPT ![stored.version + 1] = handler.pointer]
<1>1. handler \in Commits
  BY DEF IndInv, TypeOK, CommitStore, Resets
<1>2. /\ stored # None /\ stored \in Records /\ ~FenceActive(stored)
      /\ handler.record = stored /\ stored.version < MaxVersion
  BY DEF IndInv, TypeOK, HandlerSees, CommitStore
<1>3. handler.pointer \in Pointers
  BY <1>1 DEF Commits
<1>4. stored.version \in 0..MaxVersion
  BY <1>2 DEF Records
<1>5. stored.version + 1 \in Versions /\ stored.version + 1 \in 0..MaxVersion
  BY <1>2, <1>4, BoundAssumption DEF Versions
<1> DEFINE r == Promoted(stored, handler.pointer)
<1>6. /\ r \in Records /\ r.lease = None
      /\ r.pointer = handler.pointer /\ r.version = stored.version + 1
  BY <1>2, <1>3, <1>5 DEF Promoted, Records
<1> QED
  BY <1>2, <1>3, <1>4, <1>5, <1>6 DEF CommitStore, Save, PutReceipt

(* The second half of commit stores what its handler read, unchanged by anybody. *)
LEMMA CommitStoreStep ==
    ASSUME IndInv, CommitStore
    PROVE  IndInv'
<1>1. handler.caller \in Callers
  BY DEF IndInv, TypeOK, CommitStore, Resets, Commits
<1>2. held' \in [Callers -> Leases \cup {None}]
  BY <1>1, ReplyTyped DEF CommitStore, IndInv
<1>3. receipts' \in [Versions -> Pointers \cup {None}]
  BY CommitStoreSees DEF IndInv, TypeOK
<1>4. TypeOK'
  BY <1>2, <1>3, CommitStoreSees DEF IndInv, TypeOK, CommitStore, Save
<1>5. stored' # None
  BY CommitStoreSees, NoneAssumption
<1>6. ReceiptForCurrent'
  BY CommitStoreSees DEF ReceiptForCurrent, IndInv, TypeOK
<1>7. FenceExcludesLease'
  BY CommitStoreSees DEF FenceExcludesLease, LeaseLive
<1>8. HandlerSees' /\ EmptyStays'
  BY <1>5 DEF CommitStore, HandlerSees, EmptyStays
<1> QED
  BY <1>4, <1>6, <1>7, <1>8 DEF IndInv

\* An adoption writes the receipt of the version it moves to, where there is none or the same.
LEMMA AdoptSees ==
    ASSUME IndInv, NEW p \in Pointers, NEW v \in Versions, NEW t, Adopt(p, v, t)
    PROVE  /\ stored' \in Records /\ stored' # None
           /\ stored'.pointer = p /\ stored'.version = v /\ stored'.lease = None
           /\ stored'.fence = Record.fence
           /\ receipts' = [receipts EXCEPT ![v] = p]
           /\ everStored' = TRUE /\ UNCHANGED <<clock, current, handler, issued, held>>
<1> DEFINE r == [Record EXCEPT !.pointer = p, !.version = v, !.lease = None]
<1>1. Record \in Records
  BY RecordTyped DEF IndInv
<1>2. v \in 0..MaxVersion
  BY BoundAssumption DEF Versions
<1>3. r \in Records /\ r.pointer = p /\ r.version = v /\ r.lease = None /\ r.fence = Record.fence
  BY <1>1, <1>2 DEF Records
<1>4. stored' = r /\ everStored' = TRUE
  BY DEF Adopt, Save
<1> QED
  BY <1>3, <1>4, NoneAssumption DEF Adopt, PutReceipt

(* Adoption stores pointer and receipt together. *)
LEMMA AdoptStep ==
    ASSUME IndInv, NEW p \in Pointers, NEW v \in Versions, NEW t, Adopt(p, v, t)
    PROVE  IndInv'
<1>1. TypeOK'
  BY AdoptSees DEF IndInv, TypeOK
<1>2. ReceiptForCurrent'
  BY AdoptSees DEF ReceiptForCurrent, IndInv, TypeOK
<1>3. FenceExcludesLease'
  BY AdoptSees DEF FenceExcludesLease, LeaseLive
<1>4. HandlerSees' /\ EmptyStays'
  BY AdoptSees DEF Adopt, Serialized, HandlerSees, EmptyStays
<1> QED
  BY <1>1, <1>2, <1>3, <1>4 DEF IndInv

(* The first half of reset empties R2. *)
LEMMA ResetDeleteStep ==
    ASSUME IndInv, ResetDelete
    PROVE  IndInv'
<1>1. Record \in Records /\ Record # None
  BY RecordTyped DEF IndInv
<1>2. /\ stored' = Record /\ everStored' = TRUE /\ current' = None
      /\ handler' = [op |-> "reset"]
      /\ UNCHANGED <<clock, receipts, issued, held>>
  BY DEF ResetDelete, ResetWrite, Save
<1>3. ~FenceActive(Record)
  BY DEF ResetDelete
<1>4. TypeOK'
  BY <1>1, <1>2 DEF IndInv, TypeOK, Resets
<1>5. ReceiptForCurrent'
  BY <1>2 DEF IndInv, ReceiptForCurrent, Record
<1>6. FenceExcludesLease' /\ HandlerSees' /\ EmptyStays'
  BY <1>1, <1>2, <1>3 DEF FenceExcludesLease, HandlerSees, EmptyStays, FenceActive
<1> QED
  BY <1>4, <1>5, <1>6 DEF IndInv

(* The second half of reset empties the record. *)
LEMMA ResetStoreStep ==
    ASSUME IndInv, ResetStore
    PROVE  IndInv'
<1>1. stored' = None /\ handler' = None /\ UNCHANGED <<clock, receipts, current, issued, held, everStored>>
  BY DEF ResetStore, ResetWrite
<1>2. current = None
  BY DEF ResetStore, IndInv, HandlerSees
<1> QED
  BY <1>1, <1>2 DEF IndInv, TypeOK, ReceiptForCurrent, FenceExcludesLease, HandlerSees, EmptyStays

(* A site begins without a record, or with the current.json it is seeded from. *)
LEMMA InitInv == Init => IndInv
<1>1. Init => TypeOK
  <2>1. Init => everStored \in BOOLEAN
    BY Zenon DEF Init
  <2> QED BY <2>1, BoundAssumption DEF Init, TypeOK
<1>2. Init => EmptyStays
  BY Zenon DEF Init, EmptyStays
<1> QED
  BY <1>1, <1>2 DEF Init, IndInv, ReceiptForCurrent, FenceExcludesLease, HandlerSees

(* Every handler, eviction, reply and tick keeps the invariant. *)
LEMMA NextInv == IndInv /\ [Next]_vars => IndInv'
<1> SUFFICES ASSUME IndInv, [Next]_vars PROVE IndInv'
  OBVIOUS
<1>1. TypeOK /\ FenceExcludesLease
  BY DEF IndInv
<1> QED
  BY <1>1, StepKinds, IdlesStep, RefreshStep, CommitPutStep, CommitStoreStep, AdoptStep,
     ResetDeleteStep, ResetStoreStep

\* The inductive invariant holds in every state.
THEOREM Invariance == Spec => []IndInv
BY InitInv, NextInv, PTL DEF Spec

-----------------------------------------------------------------------------
(***************************************************************************)
(* The theorems.                                                           *)
(***************************************************************************)

\* The object's storage, R2 and what callers hold keep their types. (CoordinatorRecord)
THEOREM TypeCorrect == Spec => []TypeOK
<1>1. IndInv => TypeOK
  BY DEF IndInv
<1> QED BY <1>1, Invariance, PTL

\* The current version has its receipt and it is the current pointer. (commit, adopt)
THEOREM CurrentHasReceipt == Spec => []ReceiptForCurrent
<1>1. IndInv => ReceiptForCurrent
  BY DEF IndInv
<1> QED BY <1>1, Invariance, PTL

\* A fence and a lease are never both good. (begin, renew, acquireFence, renewFence)
THEOREM FencesExclude == Spec => []FenceExcludesLease
<1>1. IndInv => FenceExcludesLease
  BY DEF IndInv
<1> QED BY <1>1, Invariance, PTL

\* A site emptied by a reset is not filled again from R2, wherever it was evicted.
\* (reset, record)
THEOREM ResetsStick == Spec => ResetSticks
<1>1. IndInv /\ [Next]_vars =>
        (everStored /\ stored = None /\ stored' # None /\ stored'.version = 0
            => stored'.pointer = None)
  <2> SUFFICES ASSUME IndInv, [Next]_vars, everStored, stored = None, stored' # None,
                      stored'.version = 0
               PROVE  stored'.pointer = None
    OBVIOUS
  <2>1. Record.pointer = None
    BY DEF IndInv, EmptyStays, Record
  <2>2. ASSUME NEW r, Refresh(r) PROVE stored'.pointer = None
    BY <2>1, <2>2 DEF Refresh, Save
  <2>3. CASE ResetDelete
    BY <2>1, <2>3 DEF ResetDelete, ResetWrite, Save
  <2>4. ASSUME NEW c \in Callers, CommitPut(c) PROVE FALSE
    BY <2>4, CommitPutSees
  <2>5. CASE CommitStore
    BY <2>5, CommitStoreSees
  <2>6. ASSUME NEW p \in Pointers, NEW v \in Versions, NEW t, Adopt(p, v, t) PROVE FALSE
    <3>1. stored'.version = v
      BY <2>6, AdoptSees
    <3> QED BY <3>1, BoundAssumption DEF Versions
  <2>7. ~Idles /\ ~ResetStore
    <3>1. stored' # stored
      OBVIOUS
    <3>2. ResetStore => stored' = None
      BY DEF ResetStore, ResetWrite
    <3> QED BY <3>1, <3>2, Zenon DEF Idles
  <2>8. TypeOK /\ FenceExcludesLease
    BY DEF IndInv
  <2> QED
    BY <2>2, <2>3, <2>4, <2>5, <2>6, <2>7, <2>8, StepKinds
<1> QED BY <1>1, Invariance, PTL DEF Spec, ResetSticks

\* No pointer is replaced but by a later version: no commit is lost to one that has not
\* seen it. (commit, fetch)
THEOREM NothingOverwritten == Spec => NoOverwrite
<1>1. IndInv /\ [Next]_vars =>
        (stored # None /\ stored' # None /\ stored'.pointer # stored.pointer
            => stored'.version > stored.version)
  <2> SUFFICES ASSUME IndInv, [Next]_vars, stored # None, stored' # None,
                      stored'.pointer # stored.pointer
               PROVE  stored'.version > stored.version
    OBVIOUS
  <2>1. Record = stored /\ stored.version \in 0..MaxVersion
    BY DEF Record, IndInv, TypeOK, Records
  <2>2. CASE CommitStore
    BY <2>1, <2>2, CommitStoreSees
  <2>3. ASSUME NEW p \in Pointers, NEW v \in Versions, NEW t, Adopt(p, v, t)
        PROVE  stored'.version > stored.version
    <3>1. stored'.pointer = p /\ stored'.version = v
      BY <2>3, AdoptSees
    <3>2. v \in Nat /\ v > 0
      BY BoundAssumption DEF Versions
    <3>3. \/ stored.version = 0
          \/ stored.version = v /\ stored.pointer = p
          \/ v > stored.version
      BY <2>1, <2>3 DEF Adopt
    <3> QED BY <2>1, <3>1, <3>2, <3>3
  <2> QED
    BY <2>1, <2>2, <2>3, StepKinds
       DEF IndInv, Idles, Refresh, Save, CommitPut, ResetDelete, ResetStore, ResetWrite
<1> QED BY <1>1, Invariance, PTL DEF Spec, NoOverwrite

\* Under an active fence no commit and no reset reaches the record or R2. (acquireFence)
THEOREM FencesFreeze == Spec => FenceFreezes
<1>1. IndInv /\ [Next]_vars =>
        (stored # None /\ FenceActive(stored) =>
            /\ current' = current
            /\ stored' # None
            /\ stored'.version # stored.version => handler = None)
  <2> SUFFICES ASSUME IndInv, [Next]_vars, stored # None, FenceActive(stored)
               PROVE  /\ current' = current
                      /\ stored' # None
                      /\ stored'.version # stored.version => handler = None
    OBVIOUS
  <2>1. Record = stored /\ handler = None
    BY DEF Record, IndInv, HandlerSees
  <2>2. ASSUME NEW r, Refresh(r) PROVE current' = current /\ stored' # None
    BY <2>2, NoneAssumption DEF Refresh, Save
  <2>3. ASSUME NEW p \in Pointers, NEW v \in Versions, NEW t, Adopt(p, v, t)
        PROVE  current' = current /\ stored' # None
    BY <2>3, AdoptSees DEF Adopt
  <2>4. ASSUME NEW c \in Callers, CommitPut(c) PROVE FALSE
    BY <2>4, CommitPutSees
  <2>5. ~CommitStore /\ ~ResetStore /\ ~ResetDelete
    BY <2>1 DEF CommitStore, ResetStore, ResetDelete
  <2> QED
    BY <2>1, <2>2, <2>3, <2>4, <2>5, StepKinds DEF IndInv, Idles
<1> QED BY <1>1, Invariance, PTL DEF Spec, FenceFreezes

\* The receipt of a version the record has reached is never rewritten. (commit, adopt)
THEOREM ReceiptsStand == Spec => PastReceiptsStand
<1>1. IndInv /\ [Next]_vars =>
        \A v \in Versions :
            stored # None /\ v <= stored.version /\ receipts[v] # None
                => receipts'[v] = receipts[v]
  <2> SUFFICES ASSUME IndInv, [Next]_vars, NEW v \in Versions,
                      stored # None, v <= stored.version, receipts[v] # None
               PROVE  receipts'[v] = receipts[v]
    OBVIOUS
  <2>1. receipts \in [Versions -> Pointers \cup {None}]
    BY DEF IndInv, TypeOK
  <2>2. CASE CommitStore
    <3>1. stored.version + 1 # v
      BY <2>2, CommitStoreSees DEF Versions
    <3> QED BY <2>1, <2>2, <3>1, CommitStoreSees
  <2>3. ASSUME NEW p \in Pointers, NEW u \in Versions, NEW t, Adopt(p, u, t)
        PROVE  receipts'[v] = receipts[v]
    <3>1. receipts' = [receipts EXCEPT ![u] = p] /\ receipts[u] \in {None, p}
      BY <2>3, AdoptSees DEF Adopt
    <3> QED BY <2>1, <3>1
  <2> QED
    BY <2>2, <2>3, StepKinds
       DEF IndInv, Idles, Refresh, Save, CommitPut, ResetDelete, ResetStore
<1> QED BY <1>1, Invariance, PTL DEF Spec, PastReceiptsStand
=============================================================================
