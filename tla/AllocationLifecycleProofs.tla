---------------------- MODULE AllocationLifecycleProofs ----------------------
(***************************************************************************)
(* Proofs about AllocationLifecycle, for any number of cron runs that      *)
(* overlap, requests, objects and operations, and every retention policy   *)
(* whose grace period outlives an admitted request: a tombstone is written *)
(* when nothing that was admitted is left, whatever was read how long ago, *)
(* and whatever the writers put that are never asked.                      *)
(***************************************************************************)
EXTENDS AllocationLifecycle, FiniteSetTheorems, TLAPS

(***************************************************************************)
(* The inductive invariant.                                                *)
(***************************************************************************)

CronStates == [pc: {"idle", "expire", "cancel", "pending", "get", "list", "delete", "clean",
                    "count", "update", "tombstone", "events"},
               at: 0..MaxTime, fence: 0..2, cursor: Keys \cup {None}, counted: Nat,
               page: SUBSET Keys, next: Keys \cup {None}, unresolved: Nat]

\* A listing reads what is there, and D1 counts rows that are there.
AllFinite ==
    /\ IsFiniteSet(objects)
    /\ IsFiniteSet(strays)
    /\ IsFiniteSet(Present)
    /\ \A c \in Crons : IsFiniteSet(cron[c].page)

\* The fence counts the deletion, an active row is retained RetainMs beyond its expiry, and
\* the receipt is written with the tombstone.
RowAgrees ==
    /\ row.fence = 1 <=> row.state = "active"
    /\ row.state = "active" => row.retain = row.expires + RetainMs
    /\ row.state = "tombstoned" <=> receipts # None
    /\ row.state = "tombstoned" => row.receipt = receipts /\ row.retain <= clock

\* Whoever was admitted is done when the grace period is over.
RequestsEnd ==
    \A r \in Requests : request[r] # None =>
        request[r] <= clock /\ request[r] + WriteTime <= row.retain

\* No admitted object lies at or before the cursor, where a listing would not find it.
Behind(cursor) == cursor # None => \A k \in objects : k > cursor

CheckpointBehind == row.cursor # None => row.state # "active" /\ row.retain <= clock /\ Behind(row.cursor)

\* What a cron run has read and done holds when it acts on it: the deletion goes on and its
\* grace period is over, and what the run takes for empty is empty.
Reclaiming == {"get", "list", "delete", "clean", "count", "update", "tombstone"}

CronKnows(s) ==
    /\ s.at <= clock
    /\ s.pc \in Reclaiming => s.fence = 2 /\ row.state # "active" /\ row.retain <= s.at
    /\ s.pc = "list" => Behind(s.cursor)
    /\ s.pc = "delete" => \A k \in objects : s.next = None \/ k <= s.next => k \in s.page
    /\ s.pc \in {"clean", "count", "tombstone"} => objects = {}
    /\ s.pc = "update" => Behind(s.next)
    /\ s.pc = "update" /\ s.next = None => objects = {} /\ (s.unresolved = 0 => Present = {})
    /\ s.pc = "tombstone" => Present = {}

IndInv ==
    /\ TypeOK
    /\ AllFinite
    /\ RowAgrees
    /\ RequestsEnd
    /\ CheckpointBehind
    /\ \A c \in Crons : CronKnows(cron[c])
    /\ TombstoneIsEmpty

-----------------------------------------------------------------------------
(***************************************************************************)
(* Sets of keys.                                                           *)
(***************************************************************************)

\* A set of numbers that is not empty has a least element.
LEMMA LeastElement ==
    ASSUME NEW S \in SUBSET Nat, S # {}
    PROVE  \E m \in S : \A n \in S : m <= n
<1>1. PICK m \in S : \A n \in S : <<n, m>> \notin OpToRel(<, Nat)
  BY NatLessThanWellFounded, WFMin
<1>2. \A n \in S : ~(n < m)
  BY <1>1 DEF OpToRel
<1> QED BY <1>2

\* A finite one has a greatest, too: otherwise take one without of the least size, and
\* remove an element.
LEMMA GreatestElement ==
    ASSUME NEW S \in SUBSET Nat, S # {}, IsFiniteSet(S)
    PROVE  Max(S) \in S /\ \A n \in S : n <= Max(S)
<1> DEFINE HasMax(T) == \E m \in T : \A n \in T : n <= m
           Bad(T) == T # {} /\ IsFiniteSet(T) /\ ~HasMax(T)
           Sizes == {Cardinality(T) : T \in {U \in SUBSET Nat : Bad(U)}}
<1>1. SUFFICES ASSUME ~HasMax(S) PROVE FALSE
  BY DEF Max
<1>2. Sizes \in SUBSET Nat /\ Sizes # {}
  BY <1>1, FS_CardinalityType
<1>3. PICK size \in Sizes : \A n \in Sizes : size <= n
  BY <1>2, LeastElement
<1>4. PICK T \in SUBSET Nat : Bad(T) /\ Cardinality(T) = size
  OBVIOUS
<1>5. PICK x : x \in T
  BY <1>4
<1> DEFINE U == T \ {x}
<1>6. U \in SUBSET Nat /\ IsFiniteSet(U) /\ Cardinality(U) = Cardinality(T) - 1
  BY <1>4, <1>5, FS_RemoveElement
<1>7. ~Bad(U)
  <2>1. size \in Nat /\ ~(size <= Cardinality(U))
    BY <1>2, <1>4, <1>6
  <2>2. Bad(U) => Cardinality(U) \in Sizes
    BY <1>6
  <2> QED BY <1>3, <2>1, <2>2
<1>8. HasMax(T)
  <2>1. CASE U = {}
    BY <2>1, <1>5
  <2>2. CASE HasMax(U)
    <3>1. PICK m \in U : \A n \in U : n <= m
      BY <2>2
    <3>2. m \in T /\ x \in T /\ m \in Nat /\ x \in Nat /\ \A n \in T : n \in Nat /\ (n = x \/ n \in U)
      BY <1>5
    <3>3. CASE m <= x
      BY <3>1, <3>2, <3>3
    <3>4. CASE x <= m
      BY <3>1, <3>2, <3>4
    <3> QED BY <3>2, <3>3, <3>4
  <2> QED BY <1>6, <1>7, <2>1, <2>2
<1> QED BY <1>4, <1>8

\* A page ends the listing, or it holds all the keys up to its last one.
LEMMA PageIsPrefix ==
    ASSUME NEW S \in SUBSET Keys, IsFiniteSet(S)
    PROVE  /\ FirstKeys(S) \in SUBSET S /\ IsFiniteSet(FirstKeys(S))
           /\ FirstKeys(S) # S => /\ Max(FirstKeys(S)) \in FirstKeys(S)
                                  /\ \A k \in S : k <= Max(FirstKeys(S)) => k \in FirstKeys(S)
<1> DEFINE page == FirstKeys(S)
<1>1. page \in SUBSET S /\ IsFiniteSet(page)
  BY FS_Subset DEF FirstKeys
<1>2. S \in SUBSET Nat /\ PageLimit \in Nat \ {0}
  BY Grace DEF GraceAssumption
<1>3. ASSUME page # S PROVE page # {}
  <2>1. PICK m \in S : \A k \in S : m <= k
    BY <1>1, <1>2, <1>3, LeastElement
  <2>2. {j \in S : j < m} = {}
    <3>1. \A j \in S : ~(j < m)
      BY <1>2, <2>1
    <3> QED BY <3>1
  <2>3. Cardinality({j \in S : j < m}) < PageLimit
    BY <1>2, <2>2, FS_EmptySet
  <2> QED BY <2>1, <2>3 DEF FirstKeys
<1>4. ASSUME NEW m \in page, NEW k \in S, k <= m PROVE k \in page
  <2> DEFINE A == {j \in S : j < k}
             B == {j \in S : j < m}
  <2>1. A \in SUBSET B /\ IsFiniteSet(B) /\ IsFiniteSet(A)
    <3>1. m \in Nat /\ k \in Nat /\ \A j \in S : j \in Nat
      BY <1>1, <1>2
    <3>2. \A j \in S : j < k => j < m
      BY <1>4, <3>1
    <3>3. A \in SUBSET S /\ B \in SUBSET S /\ A \in SUBSET B
      BY <3>2
    <3> QED BY <3>3, FS_Subset
  <2>2. Cardinality(A) <= Cardinality(B) /\ Cardinality(A) \in Nat /\ Cardinality(B) \in Nat
    BY <2>1, FS_Subset, FS_CardinalityType
  <2>3. Cardinality(B) < PageLimit
    BY DEF FirstKeys
  <2>4. Cardinality(A) < PageLimit
    BY <1>2, <2>2, <2>3
  <2> QED BY <2>4 DEF FirstKeys
<1>5. page # S => Max(page) \in page
  BY <1>1, <1>2, <1>3, GreatestElement
<1> HIDE DEF page
<1> QED BY <1>1, <1>4, <1>5 DEF page

-----------------------------------------------------------------------------
(***************************************************************************)
(* What a step may do.                                                     *)
(***************************************************************************)

RowStates == [state: {"active", "deleting", "tombstoned"}, expires: Nat, retain: Nat,
              fence: {1, 2}, cursor: Keys \cup {None}, counted: Nat, receipt: Nat \cup {None}]

OpStates == {"absent", "queued", "running", "succeeded", "failed", "deleted"}

\* The parts of the type invariant.
LEMMA Types ==
    ASSUME TypeOK
    PROVE  /\ clock \in Nat /\ clock <= MaxTime
           /\ row \in RowStates /\ receipts \in Nat \cup {None}
           /\ objects \in SUBSET Keys /\ strays \in SUBSET Keys
           /\ op \in [Ops -> OpStates] /\ cron \in [Crons -> CronStates]
           /\ owner \in {"idle", "cancel"} /\ request \in [Requests -> (0..MaxTime) \cup {None}]
BY Grace DEF TypeOK, RowStates, OpStates, CronStates, GraceAssumption

\* The durations are natural numbers.
LEMMA Durations ==
    /\ TtlMs \in Nat /\ RetainMs \in Nat /\ WriteTime \in Nat /\ MaxLag \in Nat
    /\ MaxTime \in Nat
    /\ WriteTime + MaxLag <= RetainMs /\ MaxLag <= TtlMs
    /\ Keys \in SUBSET (Nat \ {0}) /\ None \notin Nat
BY Grace DEF GraceAssumption

\* What a cron run may hold, field by field, and a run that starts.
LEMMA CronFields ==
    ASSUME NEW s \in CronStates
    PROVE  /\ s.at \in 0..MaxTime /\ s.fence \in 0..2 /\ s.cursor \in Keys \cup {None}
           /\ s.counted \in Nat /\ s.page \in SUBSET Keys /\ s.next \in Keys \cup {None}
           /\ s.unresolved \in Nat
BY DEF CronStates

(* A cron run that has not begun holds nothing. *)
LEMMA IdleTyped == Idle \in CronStates /\ Idle.pc = "idle" /\ Idle.at = 0 /\ Idle.page = {}
BY Durations DEF Idle, CronStates

\* A deletion that has begun goes on, under the same grace period.
GoesOn == row.state # "active" => row'.state # "active" /\ row'.retain = row.retain

\* Less is left of what was admitted, or as much, whoever else puts something.
Recedes ==
    /\ objects' \in SUBSET objects /\ Present' \in SUBSET Present
    /\ strays' \in SUBSET Keys /\ IsFiniteSet(strays')

\* The cron runs stay where they are, or know what they need to where they go.
CronsKnow ==
    /\ cron' \in [Crons -> CronStates]
    /\ \A c \in Crons : \/ cron'[c] = cron[c]
                        \/ IsFiniteSet(cron'[c].page) /\ CronKnows(cron[c])'

\* A cron run c goes on to the state s.
LEMMA CronGoes ==
    ASSUME TypeOK, NEW c \in Crons, NEW s \in CronStates, cron' = [cron EXCEPT ![c] = s],
           IsFiniteSet(s.page), CronKnows(s)'
    PROVE  CronsKnow
<1>1. cron' \in [Crons -> CronStates] /\ cron'[c] = s /\ \A d \in Crons \ {c} : cron'[d] = cron[d]
  BY Types
<1>2. CronKnows(cron[c])'
  BY <1>1 DEF CronKnows
<1> QED BY <1>1, <1>2 DEF CronsKnow

\* What a run knows remains true while the deletion goes on.
LEMMA KnowsStill ==
    ASSUME NEW s \in CronStates, CronKnows(s), clock \in Nat, clock' \in Nat, clock <= clock',
           GoesOn, Recedes
    PROVE  CronKnows(s)'
<1>1. s.at \in Nat
  BY CronFields, Durations
<1>2. \A k \in objects' : k \in objects
  BY DEF Recedes
<1>3. (s.at <= clock)' /\ (s.pc \in Reclaiming => s.fence = 2 /\ row'.state # "active" /\ row'.retain <= s.at)
  BY <1>1 DEF CronKnows, GoesOn
<1>4. (s.pc = "list" => Behind(s.cursor)) /\ (s.pc = "update" => Behind(s.next))
  BY DEF CronKnows
<1>5. (s.pc = "list" => Behind(s.cursor))' /\ (s.pc = "update" => Behind(s.next))'
  BY <1>2, <1>4 DEF Behind
<1>6. s.pc = "delete" => \A k \in objects' : s.next = None \/ k <= s.next => k \in s.page
  BY <1>2 DEF CronKnows
<1>7. (objects = {} => objects' = {}) /\ (Present = {} => Present' = {})
  BY DEF Recedes
<1>8. /\ s.pc \in {"clean", "count", "tombstone"} => objects' = {}
      /\ s.pc = "update" /\ s.next = None => objects' = {} /\ (s.unresolved = 0 => Present' = {})
      /\ s.pc = "tombstone" => Present' = {}
  BY <1>7 DEF CronKnows
<1> QED BY <1>3, <1>5, <1>6, <1>8 DEF CronKnows

\* So the runs know what they need after a step under which the deletion goes on.
LEMMA AllKnow ==
    ASSUME IndInv, CronsKnow, GoesOn, Recedes, clock' \in Nat, clock <= clock'
    PROVE  AllFinite' /\ \A c \in Crons : CronKnows(cron[c])'
<1>1. ASSUME NEW c \in Crons PROVE CronKnows(cron[c])' /\ IsFiniteSet(cron'[c].page)
  <2>1. cron[c] \in CronStates /\ clock \in Nat /\ CronKnows(cron[c]) /\ IsFiniteSet(cron[c].page)
    BY Types DEF IndInv, AllFinite
  <2>2. CASE cron'[c] = cron[c]
    <3>1. \A s \in CronStates : CronKnows(s) => CronKnows(s)'
      BY <2>1, KnowsStill
    <3>2. PICK s \in CronStates : s = cron[c]
      BY <2>1
    <3>3. CronKnows(s)'
      BY <2>1, <3>1, <3>2 DEF CronKnows
    <3>4. cron'[c] = s
      BY <2>2, <3>2
    <3> QED BY <2>1, <2>2, <3>3, <3>4 DEF CronKnows
  <2> QED BY <2>2 DEF CronsKnow
<1>2. IsFiniteSet(objects') /\ IsFiniteSet(strays') /\ IsFiniteSet(Present')
  BY FS_Subset DEF IndInv, AllFinite, Recedes
<1> QED BY <1>1, <1>2 DEF AllFinite

-----------------------------------------------------------------------------
(***************************************************************************)
(* Every step preserves the invariant.                                     *)
(***************************************************************************)

\* A step that leaves the row alone, admits nobody, and adds nothing that was admitted.
LEMMA QuietStep ==
    ASSUME IndInv, TypeOK', CronsKnow, Recedes, clock <= clock', UNCHANGED <<row, receipts>>,
           \A r \in Requests : request'[r] \in {request[r], None}
    PROVE  IndInv'
<1>1. clock \in Nat /\ clock' \in Nat /\ row \in RowStates /\ objects' \in SUBSET objects
  BY Types, Durations DEF IndInv, Recedes, TypeOK
<1>2. AllFinite' /\ \A c \in Crons : CronKnows(cron[c])'
  BY <1>1, AllKnow DEF GoesOn
<1>3. row.retain \in Nat /\ row.cursor \in Keys \cup {None}
  BY <1>1 DEF RowStates
<1>4. RowAgrees'
  BY <1>1, <1>3 DEF IndInv, RowAgrees
<1>5. RequestsEnd'
  <2> SUFFICES ASSUME NEW r \in Requests, request'[r] # None
               PROVE  request'[r] <= clock' /\ request'[r] + WriteTime <= row.retain
    BY DEF RequestsEnd
  <2> request'[r] = request[r]
    OBVIOUS
  <2>1. request[r] \in Nat /\ request[r] <= clock /\ request[r] + WriteTime <= row.retain
    BY Types, Durations DEF IndInv, RequestsEnd
  <2> QED BY <1>1, <2>1
<1>6. CheckpointBehind'
  BY <1>1, <1>3 DEF IndInv, CheckpointBehind, Behind
<1>7. TombstoneIsEmpty'
  BY DEF IndInv, TombstoneIsEmpty, Recedes
<1> QED BY <1>2, <1>4, <1>5, <1>6, <1>7 DEF IndInv

\* Before the grace period is over, no run reclaims, and there is no checkpoint or tombstone.
LEMMA NotOver ==
    ASSUME IndInv, row.state = "active" \/ clock < row.retain
    PROVE  /\ \A c \in Crons : cron[c].pc \notin Reclaiming
           /\ row.cursor = None /\ row.state # "tombstoned"
<1>1. clock \in Nat /\ row.retain \in Nat
  BY Types DEF IndInv, RowStates
<1>2. ASSUME NEW c \in Crons, cron[c].pc \in Reclaiming PROVE FALSE
  <2>1. cron[c].at \in Nat
    BY Types, CronFields, Durations DEF IndInv
  <2>2. cron[c].at <= clock /\ row.state # "active" /\ row.retain <= cron[c].at
    BY <1>2 DEF IndInv, CronKnows
  <2> QED BY <1>1, <2>1, <2>2
<1>3. row.cursor = None
  BY <1>1 DEF IndInv, CheckpointBehind
<1>4. row.state # "tombstoned"
  BY <1>1 DEF IndInv, RowAgrees
<1> QED BY <1>2, <1>3, <1>4

\* Then something may be added to the site.
LEMMA GrowStep ==
    ASSUME IndInv, TypeOK', row.state = "active" \/ clock < row.retain,
           IsFiniteSet(objects'), IsFiniteSet(strays'), IsFiniteSet(Present'),
           UNCHANGED <<clock, row, receipts, cron, request>>
    PROVE  IndInv'
<1>1. AllFinite' /\ RowAgrees' /\ RequestsEnd'
  BY DEF IndInv, AllFinite, RowAgrees, RequestsEnd
<1>2. CheckpointBehind' /\ TombstoneIsEmpty'
  BY NotOver DEF CheckpointBehind, TombstoneIsEmpty
<1>3. ASSUME NEW c \in Crons PROVE CronKnows(cron[c])'
  <2>1. cron[c].pc \notin Reclaiming /\ cron'[c] = cron[c] /\ cron[c].at <= clock'
    BY NotOver DEF IndInv, CronKnows
  <2> QED BY <2>1 DEF CronKnows, Reclaiming
<1> QED BY <1>1, <1>2, <1>3 DEF IndInv

(* An operation row is created only while the site is active. *)
LEMMA CreateStep ==
    ASSUME IndInv, NEW o \in Ops, Create(o)
    PROVE  IndInv'
<1>1. /\ row.state = "active"
      /\ op' = [op EXCEPT ![o] = "queued"]
      /\ UNCHANGED <<clock, row, receipts, objects, strays, cron, owner, request>>
  BY DEF Create, Admits
<1>2. TypeOK'
  BY <1>1, Types DEF IndInv, TypeOK
<1>3. Present' = Present \cup {o}
  BY <1>1, Types DEF Present, IndInv, OpStates
<1>4. IsFiniteSet(Present')
  BY <1>3, FS_AddElement DEF IndInv, AllFinite
<1> QED BY <1>1, <1>2, <1>4, GrowStep DEF IndInv, AllFinite

(* A request writes only within its time after admission, before the retention ends. *)
LEMMA PutStep ==
    ASSUME IndInv, NEW r \in Requests, NEW k \in Keys, Put(r, k)
    PROVE  IndInv'
<1>1. /\ request[r] # None /\ clock < request[r] + WriteTime
      /\ objects' = objects \cup {k}
      /\ UNCHANGED <<clock, row, receipts, strays, op, cron, owner, request>>
  BY DEF Put, Running
<1>2. TypeOK'
  BY <1>1 DEF IndInv, TypeOK
<1>3. clock < row.retain
  <2>1. request[r] \in Nat /\ request[r] + WriteTime <= row.retain
    BY <1>1, Types, Durations DEF IndInv, RequestsEnd
  <2>2. clock \in Nat /\ row.retain \in Nat /\ WriteTime \in Nat
    BY Types, Durations DEF IndInv, RowStates
  <2> QED BY <1>1, <2>1, <2>2
<1>4. IsFiniteSet(objects') /\ IsFiniteSet(strays') /\ IsFiniteSet(Present')
  BY <1>1, FS_AddElement DEF IndInv, AllFinite, Present
<1> QED BY <1>1, <1>2, <1>3, <1>4, GrowStep

\* A row of an operation changes, and is not created.
LEMMA OpsRecede ==
    ASSUME IndInv, op' \in [Ops -> OpStates], UNCHANGED <<objects, strays>>,
           \A o \in Ops : op[o] \in {"absent", "deleted"} => op'[o] = op[o]
    PROVE  Recedes
BY Types DEF IndInv, AllFinite, Recedes, Present

(* Where objects and operations stay, nothing that was gone comes back. *)
LEMMA OpsKept ==
    ASSUME IndInv, UNCHANGED <<objects, strays, op>>
    PROVE  Recedes /\ op' \in [Ops -> OpStates]
BY Types DEF IndInv, AllFinite, Recedes, Present

(* Claims and completions change only rows of an active site. *)
LEMMA ClaimStep ==
    ASSUME IndInv, NEW o \in Ops, Claim(o) \/ Work(o)
    PROVE  IndInv'
<1>1. /\ op[o] \in {"queued", "running"}
      /\ \E state \in {"running", "queued", "succeeded"} : op' = [op EXCEPT ![o] = state]
      /\ UNCHANGED <<clock, row, receipts, objects, strays, cron, owner, request>>
  BY DEF Claim, Work
<1>2. op' \in [Ops -> OpStates] /\ TypeOK /\ \A p \in Ops : op[p] \in {"absent", "deleted"} => op'[p] = op[p]
  BY <1>1, Types DEF IndInv, OpStates
<1>3. TypeOK'
  BY <1>1, <1>2 DEF TypeOK, OpStates
<1>4. CronsKnow /\ clock <= clock'
  BY <1>1, Types DEF IndInv, CronsKnow
<1> QED BY <1>1, <1>2, <1>3, <1>4, OpsRecede, QuietStep

(* The owner's cancellation, or its loss, only ends operations. *)
LEMMA OwnerStep ==
    ASSUME IndInv, OwnerCancel \/ OwnerGone
    PROVE  IndInv'
<1>1. /\ op' = op \/ op' = Cancelled
      /\ owner' = "idle"
      /\ UNCHANGED <<clock, row, receipts, objects, strays, cron, request>>
  BY DEF OwnerCancel, OwnerGone
<1>2. op' \in [Ops -> OpStates] /\ TypeOK /\ \A p \in Ops : op[p] \in {"absent", "deleted"} => op'[p] = op[p]
  BY <1>1, Types DEF IndInv, OpStates, Cancelled
<1>3. TypeOK'
  BY <1>1, <1>2 DEF TypeOK, OpStates
<1>4. CronsKnow /\ clock <= clock'
  BY <1>1, Types DEF IndInv, CronsKnow
<1> QED BY <1>1, <1>2, <1>3, <1>4, OpsRecede, QuietStep

(* Time alone makes nothing true that an invocation or a cron run relied on. *)
LEMMA TickStep ==
    ASSUME IndInv, Tick
    PROVE  IndInv'
<1>1. clock \in Nat /\ clock < MaxTime /\ clock' = clock + 1 /\ MaxTime \in Nat
      /\ UNCHANGED <<row, receipts, objects, strays, op, cron, owner>>
  BY Types, Durations DEF IndInv, Tick
<1>2. /\ request' \in [Requests -> (0..MaxTime) \cup {None}]
      /\ \A r \in Requests : request'[r] \in {request[r], None}
  BY Types DEF IndInv, Tick
<1>3. TypeOK'
  BY <1>1, <1>2 DEF IndInv, TypeOK
<1>4. CronsKnow /\ Recedes /\ clock <= clock'
  BY <1>1, OpsKept, Types DEF IndInv, CronsKnow
<1> QED BY <1>1, <1>2, <1>3, <1>4, QuietStep

\* The deletion begins, at a clock reading of at most MaxLag ago: whoever was admitted is done
\* RetainMs after that reading.
LEMMA MarkStep ==
    ASSUME IndInv, NEW at \in Nat, at <= clock, clock - at <= MaxLag, row.state = "active",
           row' = Marked(at), CronsKnow, TypeOK', UNCHANGED <<clock, receipts, objects, strays, op, request>>
    PROVE  IndInv'
<1>1. /\ row \in RowStates /\ row.fence \in {1, 2} /\ row.retain \in Nat /\ clock \in Nat
      /\ RetainMs \in Nat /\ MaxLag \in Nat /\ WriteTime \in Nat
  BY Types, Durations DEF IndInv, RowStates
<1>2. /\ row'.state = "deleting" /\ row'.fence = row.fence + 1 /\ row'.cursor = None
      /\ row'.retain = RetainUntil(at)
  BY <1>1 DEF Marked, RowStates
<1>3. AllFinite' /\ \A c \in Crons : CronKnows(cron[c])'
  BY <1>1, OpsKept, AllKnow DEF GoesOn
<1>4. receipts = None /\ row.fence = 1
  BY DEF IndInv, RowAgrees
<1>5. RowAgrees' /\ CheckpointBehind' /\ TombstoneIsEmpty'
  BY <1>2, <1>4 DEF RowAgrees, CheckpointBehind, TombstoneIsEmpty
<1>6. RequestsEnd'
  <2> SUFFICES ASSUME NEW r \in Requests, request[r] # None
               PROVE  request[r] <= clock /\ request[r] + WriteTime <= RetainUntil(at)
    BY <1>2 DEF RequestsEnd
  <2>1. request[r] \in Nat /\ request[r] <= clock /\ request[r] + WriteTime <= row.retain
    BY Types, Durations DEF IndInv, RequestsEnd
  <2>2. request[r] + WriteTime <= at + RetainMs
    BY <1>1, <2>1, Durations
  <2> QED BY <1>1, <2>1, <2>2 DEF RetainUntil
<1> QED BY <1>3, <1>5, <1>6 DEF IndInv

\* The marked row is a row.
LEMMA MarkTyped ==
    ASSUME row \in RowStates, row.fence = 1, NEW at \in Nat
    PROVE  Marked(at) \in RowStates
<1>1. ASSUME NEW r \in RowStates, r.fence = 1, NEW n \in Nat
      PROVE  [r EXCEPT !.state = "deleting", !.fence = @ + 1, !.retain = n, !.cursor = None] \in RowStates
  <2>1. r.fence + 1 \in {1, 2}
    BY <1>1
  <2> QED BY <2>1 DEF RowStates
<1>2. RetainUntil(at) \in Nat
  BY Durations DEF RetainUntil, RowStates
<1> QED BY <1>1, <1>2 DEF Marked

(* The owner's deletion marks an active site and begins a new fence. *)
LEMMA OwnerDeleteStep ==
    ASSUME IndInv, OwnerDelete
    PROVE  IndInv'
<1>1. PICK at \in Readings : row' = Marked(at)
  BY DEF OwnerDelete
<1>2. /\ row.state = "active" /\ owner' = "cancel"
      /\ UNCHANGED <<clock, receipts, objects, strays, op, cron, request>>
  BY DEF OwnerDelete
<1>3. at \in Nat /\ at <= clock /\ clock - at <= MaxLag
  BY Types DEF IndInv, Readings
<1>4. TypeOK'
  <2>1. row' \in RowStates
    BY <1>1, <1>2, <1>3, Types, MarkTyped DEF IndInv, RowAgrees
  <2> QED BY <1>2, <2>1 DEF IndInv, TypeOK, RowStates
<1>5. CronsKnow
  BY <1>2, Types DEF IndInv, CronsKnow
<1> QED BY <1>1, <1>2, <1>3, <1>4, <1>5, MarkStep

\* A renewal leaves time for everyone admitted so far, however old its clock reading is.
LEMMA RenewStep ==
    ASSUME IndInv, Renew
    PROVE  IndInv'
<1>1. PICK at \in Readings :
        row' = [row EXCEPT !.expires = at + TtlMs, !.retain = at + TtlMs + RetainMs]
  BY DEF Renew
<1>2. row.state = "active" /\ UNCHANGED <<clock, receipts, objects, strays, op, cron, owner, request>>
  BY DEF Renew
<1>3. /\ row \in RowStates /\ clock \in Nat /\ at \in Nat /\ at <= clock /\ clock - at <= MaxLag
      /\ TtlMs \in Nat /\ RetainMs \in Nat /\ MaxLag \in Nat /\ WriteTime \in Nat
  BY Types, Durations DEF IndInv, Readings
<1>4. /\ row' \in RowStates /\ row'.state = "active" /\ row'.fence = row.fence /\ row'.cursor = row.cursor
      /\ row'.expires = at + TtlMs /\ row'.retain = at + TtlMs + RetainMs
  <2> DEFINE m == at + TtlMs
             n == at + TtlMs + RetainMs
  <2>2. m \in Nat /\ n \in Nat /\ row' = [row EXCEPT !.expires = m, !.retain = n]
    BY <1>1, <1>3
  <2>3. /\ row' \in RowStates /\ row'.state = row.state /\ row'.fence = row.fence
        /\ row'.cursor = row.cursor /\ row'.expires = m /\ row'.retain = n
    <3> HIDE DEF m, n
    <3> QED BY <1>3, <2>2 DEF RowStates
  <2> QED BY <1>2, <2>3
<1>5. TypeOK'
  BY <1>2, <1>4 DEF IndInv, TypeOK, RowStates
<1>6. RowAgrees' /\ CheckpointBehind' /\ TombstoneIsEmpty'
  BY <1>2, <1>3, <1>4, NotOver DEF IndInv, RowAgrees, CheckpointBehind, TombstoneIsEmpty
<1>7. RequestsEnd'
  <2> SUFFICES ASSUME NEW r \in Requests, request[r] # None
               PROVE  request[r] <= clock /\ request[r] + WriteTime <= at + TtlMs + RetainMs
    BY <1>2, <1>4 DEF RequestsEnd
  <2>1. request[r] \in Nat /\ request[r] <= clock
    BY Types, Durations DEF IndInv, RequestsEnd
  <2> QED BY <1>3, <2>1, Durations
<1>8. AllFinite'
  BY <1>2 DEF IndInv, AllFinite, Present
<1>9. ASSUME NEW c \in Crons PROVE CronKnows(cron[c])'
  <2>1. cron[c].pc \notin Reclaiming /\ cron'[c] = cron[c] /\ cron[c].at <= clock'
    BY <1>2, NotOver DEF IndInv, CronKnows
  <2> QED BY <2>1 DEF CronKnows, Reclaiming
<1> QED BY <1>5, <1>6, <1>7, <1>8, <1>9 DEF IndInv

\* Whoever is admitted now is done before the grace period of a deletion is over: the clock
\* reading that admitted it was before the expiry.
LEMMA EnterStep ==
    ASSUME IndInv, NEW r \in Requests, Enter(r)
    PROVE  IndInv'
<1>1. PICK at \in Readings : Admits(at)
  BY DEF Enter
<1>2. /\ request' = [request EXCEPT ![r] = clock]
      /\ UNCHANGED <<clock, row, receipts, objects, strays, op, cron, owner>>
  BY DEF Enter
<1>3. /\ row \in RowStates /\ row.expires \in Nat /\ clock \in 0..MaxTime
      /\ at \in Nat /\ at <= clock /\ clock - at <= MaxLag
      /\ RetainMs \in Nat /\ MaxLag \in Nat /\ WriteTime \in Nat
  BY Types, Durations DEF IndInv, Readings, RowStates
<1>4. row.state = "active" /\ row.expires > at /\ row.retain = row.expires + RetainMs
  BY <1>1 DEF Admits, IndInv, RowAgrees
<1>5. TypeOK'
  <2>1. request' \in [Requests -> (0..MaxTime) \cup {None}]
    BY <1>2, <1>3, Types DEF IndInv
  <2> QED BY <1>2, <2>1 DEF IndInv, TypeOK
<1>6. RequestsEnd'
  <2>1. clock <= clock /\ clock + WriteTime <= row.retain
    BY <1>3, <1>4, Durations
  <2>2. request'[r] = clock /\ \A q \in Requests \ {r} : request'[q] = request[q]
    BY <1>2, Types DEF IndInv
  <2> QED BY <1>2, <2>1, <2>2 DEF IndInv, RequestsEnd
<1>7. AllFinite' /\ RowAgrees' /\ CheckpointBehind' /\ TombstoneIsEmpty'
  BY <1>2 DEF IndInv, AllFinite, RowAgrees, CheckpointBehind, TombstoneIsEmpty, Behind, Present
<1>8. ASSUME NEW c \in Crons PROVE CronKnows(cron[c])'
  BY <1>2 DEF IndInv, CronKnows, Behind, Present
<1> QED BY <1>5, <1>6, <1>7, <1>8 DEF IndInv

-----------------------------------------------------------------------------
(***************************************************************************)
(* The steps of a cron run.                                                *)
(***************************************************************************)

Pcs == {"idle", "expire", "cancel", "pending", "events"} \cup Reclaiming

\* A run that goes on with what it holds.
Holds(t, s) ==
    /\ t.at = s.at /\ t.fence = s.fence /\ t.page = s.page /\ t.next = s.next
    /\ t.cursor = s.cursor /\ t.unresolved = s.unresolved

(* A cron run that goes on to another step keeps what it read. *)
LEMMA AtTyped ==
    ASSUME NEW s \in CronStates, NEW pc \in Pcs
    PROVE  LET t == [s EXCEPT !.pc = pc] IN t \in CronStates /\ t.pc = pc /\ Holds(t, s)
BY DEF CronStates, Pcs, Reclaiming, Holds

\* A step of a run that leaves the row, its receipt and the operations' types alone.
CronWalks ==
    /\ UNCHANGED <<clock, row, receipts, owner, request>>
    /\ op' \in [Ops -> OpStates]
    /\ Recedes

\* Such a step of a run that holds what it needs keeps the invariant.
LEMMA WalkStep ==
    ASSUME IndInv, NEW c \in Crons, CronWalks, NEW s \in CronStates,
           cron' = [cron EXCEPT ![c] = s], IsFiniteSet(s.page), CronKnows(s)'
    PROVE  IndInv'
<1>1. TypeOK /\ clock <= clock'
  BY Types DEF IndInv, CronWalks
<1>2. TypeOK'
  <2>1. cron' \in [Crons -> CronStates] /\ objects' \in SUBSET Keys /\ strays' \in SUBSET Keys
    BY <1>1, Types DEF CronWalks, Recedes
  <2> QED BY <1>1, <2>1 DEF TypeOK, CronWalks, OpStates, CronStates
<1>3. CronsKnow
  BY <1>1, CronGoes
<1> QED BY <1>1, <1>2, <1>3, QuietStep DEF CronWalks

\* What the invariant says of one run.
LEMMA CronIs ==
    ASSUME IndInv, NEW c \in Crons
    PROVE  /\ cron[c] \in CronStates /\ IsFiniteSet(cron[c].page) /\ CronKnows(cron[c])
           /\ cron[c].at \in Nat /\ cron[c].at <= clock /\ clock \in Nat
           /\ TypeOK /\ cron \in [Crons -> CronStates]
BY Types, CronFields, Durations DEF IndInv, AllFinite, CronKnows

\* A run of nothing yet, or before it reclaims, needs to know no more than the time.
LEMMA KnowsTime ==
    ASSUME NEW s, s.pc \notin Reclaiming, s.at <= clock'
    PROVE  CronKnows(s)'
BY DEF CronKnows, Reclaiming

(* A cron run that stops forgets what it read. *)
LEMMA StopStep ==
    ASSUME IndInv, NEW c \in Crons, Stop(c), CronWalks
    PROVE  IndInv'
<1>1. cron' = [cron EXCEPT ![c] = Idle]
  BY DEF Stop
<1>2. Idle \in CronStates /\ IsFiniteSet(Idle.page)
  BY IdleTyped, FS_EmptySet
<1>3. CronKnows(Idle)'
  BY IdleTyped, KnowsTime, Types DEF IndInv, CronWalks, Reclaiming
<1> QED BY <1>1, <1>2, <1>3, WalkStep

\* A run goes on, and still knows what it needs to where it goes.
LEMMA AtStep ==
    ASSUME IndInv, NEW c \in Crons, NEW pc \in Pcs, At(c, pc), CronWalks,
           \A s \in CronStates : s.pc = pc /\ Holds(s, cron[c]) => CronKnows(s)'
    PROVE  IndInv'
<1>1. cron[c] \in CronStates /\ IsFiniteSet(cron[c].page)
  BY CronIs
<1>2. PICK s \in CronStates : s = [cron[c] EXCEPT !.pc = pc] /\ s.pc = pc /\ Holds(s, cron[c])
  BY <1>1, AtTyped
<1>3. cron' = [cron EXCEPT ![c] = s]
  BY <1>2 DEF At
<1>4. IsFiniteSet(s.page) /\ CronKnows(s)'
  BY <1>1, <1>2 DEF Holds
<1> QED BY <1>2, <1>3, <1>4, WalkStep

(* A scheduled invocation keeps its time, for the reclaiming or for the site's own events. *)
LEMMA CronSelectStep ==
    ASSUME IndInv, NEW c \in Crons, CronSelect(c) \/ CronSites(c)
    PROVE  IndInv'
<1>1. PICK at \in Readings : \E pc \in {"expire", "pending", "events"} :
        cron' = [cron EXCEPT ![c] = [Idle EXCEPT !.at = at, !.pc = pc]]
  BY DEF CronSelect, CronSites
<1>2. PICK pc \in {"expire", "pending", "events"} :
        cron' = [cron EXCEPT ![c] = [Idle EXCEPT !.at = at, !.pc = pc]]
  BY <1>1
<1>3. at \in 0..MaxTime /\ at <= clock /\ UNCHANGED <<clock, row, receipts, objects, strays, op, owner, request>>
  <2>1. UNCHANGED <<clock, row, receipts, objects, strays, op, owner, request>>
    BY DEF CronSelect, CronSites
  <2>2. at \in 0..MaxTime /\ at <= clock
    BY Types, Durations DEF IndInv, Readings
  <2> QED BY <2>1, <2>2
<1>4. PICK s \in CronStates : /\ s = [Idle EXCEPT !.at = at, !.pc = pc]
                              /\ s.pc = pc /\ s.at = at /\ s.page = {}
  <2>1. ASSUME NEW t \in CronStates
        PROVE  LET s == [t EXCEPT !.at = at, !.pc = pc]
               IN  s \in CronStates /\ s.pc = pc /\ s.at = at /\ s.page = t.page
    BY <1>3 DEF CronStates
  <2> QED BY <2>1, IdleTyped
<1>5. IsFiniteSet(s.page) /\ CronKnows(s)'
  BY <1>3, <1>4, KnowsTime, FS_EmptySet DEF Reclaiming
<1>6. CronWalks
  BY <1>3, OpsKept, Types DEF IndInv, CronWalks
<1> QED BY <1>2, <1>4, <1>5, <1>6, WalkStep

(* The UPDATE of expire marks only a row that has expired by the run's time. *)
LEMMA CronExpireStep ==
    ASSUME IndInv, NEW c \in Crons, CronExpire(c)
    PROVE  IndInv'
<1>1. /\ Timely(c) /\ UNCHANGED <<clock, receipts, objects, strays, op, owner, request>>
      /\ \/ row.state = "active" /\ row' = Marked(cron[c].at) /\ At(c, "cancel")
         \/ At(c, "pending") /\ row' = row
  BY DEF CronExpire
<1>2. /\ cron[c] \in CronStates /\ IsFiniteSet(cron[c].page) /\ TypeOK
      /\ cron[c].at \in Nat /\ cron[c].at <= clock /\ clock - cron[c].at <= MaxLag
  BY <1>1, CronIs DEF Timely
<1>3. CASE At(c, "pending") /\ row' = row
  <2>1. CronWalks
    BY <1>1, <1>3, OpsKept, Types DEF IndInv, CronWalks
  <2>2. \A s \in CronStates : s.pc = "pending" /\ Holds(s, cron[c]) => CronKnows(s)'
    BY <1>1, <1>2, KnowsTime DEF Holds, Reclaiming
  <2> QED BY <1>3, <2>1, <2>2, AtStep DEF Pcs
<1>4. CASE row.state = "active" /\ row' = Marked(cron[c].at) /\ At(c, "cancel")
  <2>1. PICK s \in CronStates : cron' = [cron EXCEPT ![c] = s] /\ s.pc = "cancel" /\ Holds(s, cron[c])
    BY <1>2, <1>4, AtTyped DEF At, Pcs
  <2>2. IsFiniteSet(s.page) /\ CronKnows(s)'
    BY <1>1, <1>2, <2>1, KnowsTime DEF Holds, Reclaiming
  <2>3. CronsKnow
    BY <1>2, <2>1, <2>2, CronGoes
  <2>4. PICK at \in Nat : at = cron[c].at
    BY <1>2
  <2>5. row' \in RowStates
    BY <1>2, <1>4, <2>4, MarkTyped, Types DEF IndInv, RowAgrees
  <2>6. cron' \in [Crons -> CronStates]
    BY <2>3 DEF CronsKnow
  <2>7. TypeOK'
    BY <1>1, <1>2, <2>5, <2>6 DEF TypeOK, RowStates, CronStates
  <2> QED BY <1>1, <1>2, <1>4, <2>3, <2>4, <2>7, MarkStep
<1> QED BY <1>1, <1>3, <1>4

(* The cancellation of an expired site's operations ends them. *)
LEMMA CronCancelStep ==
    ASSUME IndInv, NEW c \in Crons, CronCancel(c)
    PROVE  IndInv'
<1>1. /\ op' = Cancelled /\ At(c, "pending")
      /\ UNCHANGED <<clock, row, receipts, objects, strays, owner, request>>
  BY DEF CronCancel
<1>2. op' \in [Ops -> OpStates] /\ \A o \in Ops : op[o] \in {"absent", "deleted"} => op'[o] = op[o]
  BY <1>1, Types DEF IndInv, OpStates, Cancelled
<1>3. CronWalks
  BY <1>1, <1>2, OpsRecede, Types DEF IndInv, CronWalks
<1>4. \A s \in CronStates : s.pc = "pending" /\ Holds(s, cron[c]) => CronKnows(s)'
  BY <1>1, CronIs, KnowsTime DEF Holds, Reclaiming
<1> QED BY <1>1, <1>3, <1>4, AtStep DEF Pcs

(* pendingDeletions takes a fence whose retention is over. *)
LEMMA CronPendingStep ==
    ASSUME IndInv, NEW c \in Crons, CronPending(c)
    PROVE  IndInv'
<1>1. UNCHANGED <<clock, row, receipts, objects, strays, op, owner, request>>
  BY DEF CronPending
<1>2. CronWalks
  BY <1>1, OpsKept, Types DEF IndInv, CronWalks
<1>3. CASE Stop(c)
  BY <1>2, <1>3, StopStep
<1>4. CASE /\ row.state = "deleting" /\ row.retain <= cron[c].at
           /\ cron' = [cron EXCEPT ![c].pc = "get", ![c].fence = row.fence]
  <2>1. row.fence = 2
    BY <1>4, Types DEF IndInv, RowAgrees, RowStates
  <2>2. PICK s \in CronStates : /\ s = [cron[c] EXCEPT !.pc = "get", !.fence = row.fence]
                                /\ s.pc = "get" /\ s.fence = 2 /\ s.at = cron[c].at
                                /\ s.page = cron[c].page
    <3>1. ASSUME NEW t \in CronStates
          PROVE  LET s == [t EXCEPT !.pc = "get", !.fence = 2]
                 IN  s \in CronStates /\ s.pc = "get" /\ s.fence = 2 /\ s.at = t.at /\ s.page = t.page
      <4>1. 2 \in 0..2
        OBVIOUS
      <4> QED BY <4>1 DEF CronStates
    <3> QED BY <2>1, <3>1, CronIs
  <2>3. cron' = [cron EXCEPT ![c] = s]
    BY <1>4, <2>2
  <2>4. IsFiniteSet(s.page) /\ CronKnows(s)'
    BY <1>1, <1>4, <2>2, CronIs DEF CronKnows
  <2> QED BY <1>2, <2>3, <2>4, WalkStep
<1> QED BY <1>3, <1>4 DEF CronPending

(* A run reads one page of objects after its cursor. *)
LEMMA CronGetStep ==
    ASSUME IndInv, NEW c \in Crons, CronGet(c)
    PROVE  IndInv'
<1>1. UNCHANGED <<clock, row, receipts, objects, strays, op, owner, request>>
  BY DEF CronGet
<1>2. CronWalks
  BY <1>1, OpsKept, Types DEF IndInv, CronWalks
<1>3. CASE Stop(c)
  BY <1>2, <1>3, StopStep
<1>4. CASE cron' = [cron EXCEPT ![c].pc = "list", ![c].cursor = row.cursor, ![c].counted = row.counted]
  <2>1. row.cursor \in Keys \cup {None} /\ row.counted \in Nat /\ Behind(row.cursor)
    BY Types DEF IndInv, RowStates, CheckpointBehind, Behind
  <2>2. PICK s \in CronStates :
          /\ s = [cron[c] EXCEPT !.pc = "list", !.cursor = row.cursor, !.counted = row.counted]
          /\ s.pc = "list" /\ s.cursor = row.cursor /\ s.fence = cron[c].fence
          /\ s.at = cron[c].at /\ s.page = cron[c].page
    <3>1. cron[c] \in CronStates
      BY CronIs
    <3>2. LET s == [cron[c] EXCEPT !.pc = "list", !.cursor = row.cursor, !.counted = row.counted]
          IN  /\ s \in CronStates /\ s.pc = "list" /\ s.cursor = row.cursor
              /\ s.fence = cron[c].fence /\ s.at = cron[c].at /\ s.page = cron[c].page
      BY <2>1, <3>1 DEF CronStates
    <3> QED BY <3>2, Zenon
  <2>3. cron' = [cron EXCEPT ![c] = s]
    BY <1>4, <2>2
  <2>4. cron[c].pc = "get"
    BY DEF CronGet
  <2>5. IsFiniteSet(s.page) /\ CronKnows(s)'
    BY <1>1, <2>1, <2>2, <2>4, CronIs DEF CronKnows, Behind, Reclaiming
  <2> QED BY <1>2, <2>3, <2>5, WalkStep
<1> QED BY <1>3, <1>4 DEF CronGet

\* What a run lists is all there is up to where the page ends: nothing lies behind the cursor.
LEMMA CronListStep ==
    ASSUME IndInv, NEW c \in Crons, CronList(c)
    PROVE  IndInv'
<1> DEFINE available == After(cron[c].cursor)
           page == FirstKeys(available)
           next == IF page # available THEN Max(page) ELSE None
<1>1. /\ cron' = [cron EXCEPT ![c].pc = "delete", ![c].page = page, ![c].next = next]
      /\ cron[c].pc = "list"
      /\ UNCHANGED <<clock, row, receipts, objects, strays, op, owner, request>>
  BY DEF CronList
<1>2. CronWalks
  BY <1>1, OpsKept, Types DEF IndInv, CronWalks
<1>3. CronKnows(cron[c]) /\ cron[c] \in CronStates
  BY CronIs
<1>4. objects \in SUBSET available
  BY <1>1, <1>3 DEF CronKnows, Behind, After
<1>5. available \in SUBSET Keys /\ IsFiniteSet(available)
  <2>1. objects \cup strays \in SUBSET Keys /\ IsFiniteSet(objects \cup strays)
    BY Types, FS_Union DEF IndInv, AllFinite
  <2> QED BY <2>1, FS_Subset DEF After
<1>6. /\ page \in SUBSET Keys /\ IsFiniteSet(page) /\ next \in Keys \cup {None}
      /\ \A k \in objects : next = None \/ k <= next => k \in page
  <2> HIDE DEF available
  <2>1. /\ page \in SUBSET available /\ IsFiniteSet(page)
        /\ page # available => Max(page) \in page /\ \A k \in available : k <= Max(page) => k \in page
    BY <1>5, PageIsPrefix
  <2>2. \A k \in Keys : k # None
    BY Durations
  <2> HIDE DEF page
  <2> QED BY <1>4, <1>5, <2>1, <2>2
<1> HIDE DEF page, next, available
<1>7. PICK s \in CronStates : /\ s = [cron[c] EXCEPT !.pc = "delete", !.page = page, !.next = next]
                              /\ s.pc = "delete" /\ s.page = page /\ s.next = next
                              /\ s.fence = cron[c].fence /\ s.at = cron[c].at
  <2>1. LET s == [cron[c] EXCEPT !.pc = "delete", !.page = page, !.next = next]
        IN  /\ s \in CronStates /\ s.pc = "delete" /\ s.page = page /\ s.next = next
            /\ s.fence = cron[c].fence /\ s.at = cron[c].at
    BY <1>3, <1>6 DEF CronStates
  <2> QED BY <2>1, Zenon
<1>8. cron' = [cron EXCEPT ![c] = s]
  BY <1>1, <1>7
<1>9. CronKnows(s)'
  BY <1>1, <1>3, <1>6, <1>7 DEF CronKnows, Reclaiming
<1> QED BY <1>2, <1>6, <1>7, <1>8, <1>9, WalkStep

(* A run deletes the page it listed. *)
LEMMA CronDeleteStep ==
    ASSUME IndInv, NEW c \in Crons, CronDelete(c)
    PROVE  IndInv'
<1> DEFINE pc == IF cron[c].next = None THEN "clean" ELSE "update"
<1>1. /\ cron[c].pc = "delete" /\ objects' = objects \ cron[c].page /\ At(c, pc)
      /\ strays' = strays \ cron[c].page
      /\ UNCHANGED <<clock, row, receipts, op, owner, request>>
  BY DEF CronDelete
<1>2. CronWalks
  <2>1. strays' \in SUBSET Keys /\ IsFiniteSet(strays')
    BY <1>1, Types, FS_Subset DEF IndInv, AllFinite
  <2> QED BY <1>1, <2>1, Types DEF IndInv, CronWalks, Recedes, Present
<1>3. /\ cron[c] \in CronStates /\ CronKnows(cron[c]) /\ objects \in SUBSET Nat
      /\ cron[c].next \in Nat \cup {None}
  BY CronIs, CronFields, Types, Durations DEF IndInv
<1>4. ASSUME NEW s \in CronStates, s.pc = pc, Holds(s, cron[c]) PROVE CronKnows(s)'
  <2>1. /\ s.at = cron[c].at /\ s.fence = cron[c].fence /\ s.next = cron[c].next
        /\ s.pc \in {"clean", "update"} /\ (s.pc = "clean" <=> s.next = None)
    BY <1>4 DEF Holds
  <2>2. s.fence = 2 /\ row'.state # "active" /\ row'.retain <= s.at /\ s.at <= clock'
    BY <1>1, <1>3, <2>1 DEF CronKnows, Reclaiming
  <2>3. \A k \in objects' : k \in objects /\ s.next # None /\ ~(k <= s.next)
    BY <1>1, <1>3, <2>1 DEF CronKnows
  <2>4. s.next = None => objects' = {}
    BY <2>3
  <2>5. \A k \in objects' : s.next # None => k > s.next
    <3>1. \A k \in objects' : k \in Nat /\ s.next \in Nat
      BY <1>3, <2>1, <2>3
    <3>2. \A k, n \in Nat : ~(k <= n) => k > n
      OBVIOUS
    <3> QED BY <2>3, <3>1, <3>2
  <2> QED BY <2>1, <2>2, <2>4, <2>5 DEF CronKnows, Behind
<1> QED BY <1>1, <1>2, <1>4, AtStep DEF Pcs, Reclaiming

\* Nothing is added to an empty site while the deletion goes on.
LEMMA CronCleanStep ==
    ASSUME IndInv, NEW c \in Crons, CronClean(c)
    PROVE  IndInv'
<1>1. PICK gone \in SUBSET Present : op' = [o \in Ops |-> IF o \in gone THEN "deleted" ELSE op[o]]
  BY DEF CronClean
<1>2. cron[c].pc = "clean" /\ At(c, "count") /\ UNCHANGED <<clock, row, receipts, objects, strays, owner, request>>
  BY DEF CronClean
<1>3. op' \in [Ops -> OpStates] /\ \A o \in Ops : op[o] \in {"absent", "deleted"} => op'[o] = op[o]
  BY <1>1, Types DEF IndInv, OpStates, Present
<1>4. CronWalks
  BY <1>2, <1>3, OpsRecede, Types DEF IndInv, CronWalks
<1>5. ASSUME NEW s \in CronStates, s.pc = "count", Holds(s, cron[c]) PROVE CronKnows(s)'
  BY <1>2, <1>5, CronIs DEF CronKnows, Holds, Reclaiming
<1> QED BY <1>2, <1>4, <1>5, AtStep DEF Pcs, Reclaiming

(* A run counts the operation rows that are left. *)
LEMMA CronCountStep ==
    ASSUME IndInv, NEW c \in Crons, CronCount(c)
    PROVE  IndInv'
<1>1. /\ cron[c].pc = "count"
      /\ cron' = [cron EXCEPT ![c].pc = "update", ![c].unresolved = Cardinality(Present)]
      /\ UNCHANGED <<clock, row, receipts, objects, strays, op, owner, request>>
  BY DEF CronCount
<1>2. CronWalks
  BY <1>1, OpsKept, Types DEF IndInv, CronWalks
<1> DEFINE n == Cardinality(Present)
<1>3. n \in Nat /\ (n = 0 => Present = {})
  BY FS_CardinalityType, FS_EmptySet DEF IndInv, AllFinite
<1>4. cron[c] \in CronStates /\ IsFiniteSet(cron[c].page) /\ CronKnows(cron[c])
  BY CronIs
<1>5. PICK s \in CronStates : /\ s = [cron[c] EXCEPT !.pc = "update", !.unresolved = n]
                              /\ s.pc = "update" /\ s.unresolved = n /\ s.page = cron[c].page
                              /\ s.fence = cron[c].fence /\ s.at = cron[c].at
  <2> HIDE DEF n
  <2>1. LET s == [cron[c] EXCEPT !.pc = "update", !.unresolved = n]
        IN  /\ s \in CronStates /\ s.pc = "update" /\ s.unresolved = n /\ s.page = cron[c].page
            /\ s.fence = cron[c].fence /\ s.at = cron[c].at
    BY <1>3, <1>4 DEF CronStates
  <2> QED BY <2>1, Zenon
<1>6. cron' = [cron EXCEPT ![c] = s]
  BY <1>1, <1>5
<1>7. s.unresolved = 0 => Present' = {}
  BY <1>1, <1>3, <1>5 DEF Present
<1>8. CronKnows(s)'
  BY <1>1, <1>4, <1>5, <1>7 DEF CronKnows, Reclaiming, Behind
<1> QED BY <1>2, <1>4, <1>5, <1>6, <1>8, WalkStep

\* A checkpoint is of the listing's own end: nothing lies behind it.
LEMMA CronUpdateStep ==
    ASSUME IndInv, NEW c \in Crons, CronUpdate(c)
    PROVE  IndInv'
<1>1. cron[c].pc = "update" /\ UNCHANGED <<clock, receipts, objects, strays, op, owner, request>>
  BY DEF CronUpdate
<1>2. /\ cron[c] \in CronStates /\ CronKnows(cron[c]) /\ IsFiniteSet(cron[c].page)
      /\ cron[c].next \in Keys \cup {None} /\ cron[c].at \in Nat /\ clock \in Nat /\ row \in RowStates
  BY CronIs, CronFields, Types DEF IndInv
<1>3. /\ cron[c].fence = 2 /\ row.state # "active" /\ row.retain <= cron[c].at /\ cron[c].at <= clock
      /\ Behind(cron[c].next) /\ row.retain \in Nat
  BY <1>1, <1>2 DEF CronKnows, Reclaiming, RowStates
<1>4. CASE Stop(c) /\ row' = row
  BY <1>1, <1>4, OpsKept, StopStep, Types DEF IndInv, CronWalks
<1>5. CASE /\ row.state = "deleting"
           /\ row' = [row EXCEPT !.cursor = cron[c].next, !.counted = @ + Cardinality(cron[c].page)]
           /\ \/ Stop(c)
              \/ At(c, "tombstone") /\ cron[c].next = None /\ ~(cron[c].unresolved > 0)
  <2> DEFINE n == row.counted + Cardinality(cron[c].page)
  <2>1. n \in Nat
    BY <1>2, FS_CardinalityType DEF RowStates
  <2>2. row' = [row EXCEPT !.cursor = cron[c].next, !.counted = n]
    BY <1>5
  <2>3. /\ row' \in RowStates /\ row'.state = row.state /\ row'.fence = row.fence
        /\ row'.retain = row.retain /\ row'.expires = row.expires /\ row'.receipt = row.receipt
        /\ row'.cursor = cron[c].next
    <3> HIDE DEF n
    <3> QED BY <1>2, <2>1, <2>2 DEF RowStates
  <2>4. GoesOn /\ Recedes
    BY <1>1, <2>3, OpsKept DEF GoesOn
  <2>5. CronsKnow
    <3>1. CASE Stop(c)
      <4>1. Idle \in CronStates /\ IsFiniteSet(Idle.page) /\ cron' = [cron EXCEPT ![c] = Idle]
        BY <3>1, IdleTyped, FS_EmptySet DEF Stop
      <4>2. CronKnows(Idle)'
        BY <1>1, <1>2, IdleTyped, KnowsTime DEF Reclaiming
      <4> QED BY <4>1, <4>2, CronGoes DEF IndInv
    <3>2. CASE At(c, "tombstone") /\ cron[c].next = None /\ ~(cron[c].unresolved > 0)
      <4>1. PICK s \in CronStates : /\ cron' = [cron EXCEPT ![c] = s]
                                    /\ s.pc = "tombstone" /\ Holds(s, cron[c])
        BY <1>2, <3>2, AtTyped DEF At, Pcs, Reclaiming
      <4>2. cron[c].unresolved = 0
        BY <1>2, <3>2, CronFields
      <4>3. objects' = {} /\ Present' = {}
        BY <1>1, <1>2, <3>2, <4>2 DEF CronKnows, Present
      <4>4. CronKnows(s)'
        BY <1>1, <1>3, <2>3, <4>1, <4>3 DEF CronKnows, Holds, Reclaiming
      <4>5. IsFiniteSet(s.page)
        BY <1>2, <4>1 DEF Holds
      <4> QED BY <4>1, <4>4, <4>5, CronGoes DEF IndInv
    <3> QED BY <1>5, <3>1, <3>2
  <2>6. AllFinite' /\ \A d \in Crons : CronKnows(cron[d])'
    BY <1>1, <1>2, <2>4, <2>5, AllKnow
  <2>7. TypeOK'
    <3>1. cron' \in [Crons -> CronStates]
      BY <2>5 DEF CronsKnow
    <3> QED BY <1>1, <2>3, <3>1 DEF IndInv, TypeOK, RowStates, CronStates
  <2>8. RowAgrees' /\ RequestsEnd'
    BY <1>1, <2>3 DEF IndInv, RowAgrees, RequestsEnd
  <2>9. row'.state # "active" /\ row'.retain <= clock' /\ Behind(row.cursor)'
    BY <1>1, <1>2, <1>3, <2>3 DEF Behind
  <2>10. CheckpointBehind' /\ TombstoneIsEmpty'
    BY <1>5, <2>3, <2>9 DEF CheckpointBehind, TombstoneIsEmpty
  <2> QED BY <2>6, <2>7, <2>8, <2>10 DEF IndInv
<1>6. cron[c].unresolved \in Nat
  BY <1>2, CronFields
<1> QED BY <1>4, <1>5, <1>6 DEF CronUpdate

\* The receipt is written once: whoever comes to write it a second time would find the
\* deletion tombstoned already, and writes the same.
LEMMA CronTombstoneStep ==
    ASSUME IndInv, NEW c \in Crons, CronTombstone(c)
    PROVE  IndInv'
<1> DEFINE n == cron[c].counted + Cardinality(cron[c].page)
<1>1. /\ cron[c].pc = "tombstone" /\ Stop(c)
      /\ receipts' = (IF receipts = None THEN n ELSE receipts)
      /\ row' = IF CanTombstone(c)
                THEN [row EXCEPT !.state = "tombstoned", !.cursor = None, !.receipt = n]
                ELSE row
      /\ UNCHANGED <<clock, objects, strays, op, owner, request>>
  BY DEF CronTombstone
<1>2. /\ cron[c] \in CronStates /\ CronKnows(cron[c]) /\ cron[c].at \in Nat /\ clock \in Nat
      /\ row \in RowStates /\ receipts \in Nat \cup {None} /\ row.retain \in Nat
  BY CronIs, Types DEF IndInv, RowStates
<1>3. /\ cron[c].fence = 2 /\ row.state # "active" /\ row.retain <= clock /\ row.fence = 2
      /\ objects = {} /\ Present = {}
  BY <1>1, <1>2 DEF CronKnows, Reclaiming, IndInv, RowAgrees, RowStates
<1>4. n \in Nat
  BY <1>2, CronFields, CronIs, FS_CardinalityType
<1> HIDE DEF n
<1>5. /\ row' \in RowStates /\ row'.state = "tombstoned" /\ row'.fence = 2
      /\ row'.retain = row.retain /\ receipts' \in Nat /\ row'.receipt = receipts'
  <2>1. CASE row.state = "deleting"
    <3>1. row' = [row EXCEPT !.state = "tombstoned", !.cursor = None, !.receipt = n] /\ receipts' = n
      BY <1>1, <1>3, <2>1 DEF CanTombstone, IndInv, RowAgrees
    <3>2. /\ row' \in RowStates /\ row'.state = "tombstoned" /\ row'.fence = row.fence
          /\ row'.retain = row.retain /\ row'.receipt = n
      BY <1>2, <1>4, <3>1 DEF RowStates
    <3> QED BY <1>3, <1>4, <3>1, <3>2
  <2>2. CASE row.state = "tombstoned"
    <3>1. row' = row /\ receipts # None /\ receipts' = receipts /\ row.receipt = receipts
      BY <1>1, <2>2 DEF CanTombstone, IndInv, RowAgrees
    <3> QED BY <1>2, <1>3, <2>2, <3>1
  <2> QED BY <1>2, <1>3, <2>1, <2>2 DEF RowStates
<1>6. GoesOn /\ Recedes
  BY <1>1, <1>5, OpsKept DEF GoesOn
<1>7. CronsKnow
  <2>1. Idle \in CronStates /\ IsFiniteSet(Idle.page) /\ cron' = [cron EXCEPT ![c] = Idle]
    BY <1>1, IdleTyped, FS_EmptySet DEF Stop
  <2>2. CronKnows(Idle)'
    BY <1>1, <1>2, IdleTyped, KnowsTime DEF Reclaiming
  <2> QED BY <2>1, <2>2, CronGoes DEF IndInv
<1>8. AllFinite' /\ \A d \in Crons : CronKnows(cron[d])'
  BY <1>1, <1>2, <1>6, <1>7, AllKnow
<1>9. TypeOK'
  <2>1. cron' \in [Crons -> CronStates]
    BY <1>7 DEF CronsKnow
  <2> QED BY <1>1, <1>5, <2>1 DEF IndInv, TypeOK, RowStates, CronStates
<1>10. RowAgrees' /\ RequestsEnd' /\ CheckpointBehind'
  BY <1>1, <1>3, <1>5, Durations DEF IndInv, RowAgrees, RequestsEnd, CheckpointBehind, Behind
<1>11. TombstoneIsEmpty'
  BY <1>1, <1>3 DEF TombstoneIsEmpty, Present
<1> QED BY <1>8, <1>9, <1>10, <1>11 DEF IndInv

\* Someone puts what was not admitted: that disturbs no run that reclaims.
LEMMA StrayStep ==
    ASSUME IndInv, NEW k \in Keys, strays' = strays \cup {k},
           UNCHANGED <<clock, row, receipts, objects, op, cron, owner, request>>
    PROVE  IndInv'
<1>1. strays' \in SUBSET Keys /\ IsFiniteSet(strays')
  BY Types, FS_AddElement DEF IndInv, AllFinite
<1>2. Recedes
  BY <1>1 DEF Recedes, Present
<1>3. TypeOK'
  BY <1>1 DEF IndInv, TypeOK
<1>4. CronsKnow /\ clock <= clock'
  BY Types DEF IndInv, CronsKnow
<1> QED BY <1>2, <1>3, <1>4, QuietStep

(* So do the events of the WordPress cron and a bootstrap. *)
LEMMA StraysStep ==
    ASSUME IndInv, NEW k \in Keys, Bootstrap(k) \/ \E c \in Crons : CronEvent(c, k)
    PROVE  IndInv'
BY StrayStep DEF Bootstrap, CronEvent

(* The events of one invocation come to an end. *)
LEMMA CronBoundedStep ==
    ASSUME IndInv, NEW c \in Crons, CronBounded(c)
    PROVE  IndInv'
<1>1. Stop(c) /\ UNCHANGED <<clock, row, receipts, objects, strays, op, owner, request>>
  BY DEF CronBounded
<1>2. CronWalks
  BY <1>1, OpsKept, Types DEF IndInv, CronWalks
<1> QED BY <1>1, <1>2, StopStep

(* A failed run leaves its row to the next. *)
LEMMA CronGoneStep ==
    ASSUME IndInv, NEW c \in Crons, CronGone(c)
    PROVE  IndInv'
<1>1. Stop(c) /\ UNCHANGED <<clock, row, receipts, objects, strays, op, owner, request>>
  BY DEF CronGone
<1>2. CronWalks
  BY <1>1, OpsKept DEF CronWalks
<1> QED BY <1>1, <1>2, StopStep

\* The site begins unused.
LEMMA InitInv == Init => IndInv
<1> SUFFICES ASSUME Init PROVE IndInv
  OBVIOUS
<1> USE DEF Init
<1>1. row \in RowStates
  BY Durations DEF RowStates
<1>2. TypeOK
  BY <1>1, IdleTyped, Durations DEF TypeOK, RowStates, CronStates
<1>3. Present = {}
  BY DEF Present
<1>4. AllFinite
  BY <1>3, IdleTyped, FS_EmptySet DEF AllFinite
<1>5. RowAgrees /\ RequestsEnd /\ CheckpointBehind /\ TombstoneIsEmpty
  BY Durations DEF RowAgrees, RequestsEnd, CheckpointBehind, TombstoneIsEmpty
<1>6. \A c \in Crons : CronKnows(cron[c])
  BY IdleTyped DEF CronKnows, Reclaiming
<1> QED BY <1>2, <1>4, <1>5, <1>6 DEF IndInv

(* Every step of owner, requests, operations and cron keeps the invariant. *)
LEMMA NextInv == IndInv /\ [Next]_vars => IndInv'
<1> SUFFICES ASSUME IndInv, [Next]_vars PROVE IndInv'
  OBVIOUS
<1>1. CASE Next
  <2>1. CASE Tick \/ Renew \/ OwnerDelete \/ OwnerCancel \/ OwnerGone
    BY <2>1, TickStep, RenewStep, OwnerDeleteStep, OwnerStep
  <2>2. CASE \E o \in Ops : Create(o) \/ Claim(o) \/ Work(o)
    BY <2>2, CreateStep, ClaimStep
  <2>3. CASE \E r \in Requests : Enter(r) \/ \E k \in Keys : Put(r, k)
    BY <2>3, EnterStep, PutStep
  <2>4. CASE \E c \in Crons : CronStep(c) \/ CronGone(c)
    BY <2>4, StraysStep, CronBoundedStep, CronSelectStep, CronExpireStep, CronCancelStep, CronPendingStep, CronGetStep,
       CronListStep, CronDeleteStep, CronCleanStep, CronCountStep, CronUpdateStep,
       CronTombstoneStep, CronGoneStep DEF CronStep
  <2>5. CASE \E k \in Keys : Bootstrap(k)
    BY <2>5, StraysStep
  <2> QED BY <1>1, <2>1, <2>2, <2>3, <2>4, <2>5 DEF Next
<1>2. CASE UNCHANGED vars
  BY <1>2 DEF vars, IndInv, TypeOK, AllFinite, RowAgrees, RequestsEnd, CheckpointBehind, Behind,
     CronKnows, TombstoneIsEmpty, Present
<1> QED BY <1>1, <1>2

-----------------------------------------------------------------------------
(***************************************************************************)
(* The theorems.                                                           *)
(***************************************************************************)

\* The inductive invariant holds in every reachable state. (reclaim)
THEOREM Invariance == Spec => []IndInv
<1> QED BY InitInv, NextInv, PTL DEF Spec

\* The rows, the receipt and what the runs hold are well typed. (allocation-lifecycle.ts)
THEOREM TypeCorrect == Spec => []TypeOK
<1>1. IndInv => TypeOK
  BY DEF IndInv
<1> QED BY <1>1, Invariance, PTL

\* A tombstone says that nothing is left of what was admitted, whatever the requests admitted
\* before and the cron runs did late, twice or halfway, and whatever the WordPress cron and a
\* bootstrap, which are never asked, put at any time. (reclaim, assertActive, the retention period)
THEOREM TombstonesAreEmpty == Spec => []TombstoneIsEmpty
<1>1. IndInv => TombstoneIsEmpty
  BY DEF IndInv
<1> QED BY <1>1, Invariance, PTL

\* Once a deletion has begun, no operation is created, claimed or completed any more.
\* (activeLifecycle, beginDeletion)
THEOREM DeletionsFence == Spec => DeletionFencesWork
<1>1. ASSUME IndInv, [Next]_vars, row.state # "active", NEW o \in Ops
      PROVE  op'[o] \in {op[o], "failed", "deleted"}
  <2>1. CASE Next
    <3>1. CASE Tick \/ Renew \/ OwnerDelete \/ OwnerCancel \/ OwnerGone
      BY <3>1 DEF Tick, Renew, OwnerDelete, OwnerCancel, OwnerGone, Cancelled
    <3>2. CASE \E p \in Ops : Create(p) \/ Claim(p) \/ Work(p)
      BY <1>1, <3>2 DEF Create, Claim, Work, Admits
    <3>3. CASE \E r \in Requests : Enter(r) \/ \E k \in Keys : Put(r, k)
      BY <3>3 DEF Enter, Put
    <3>4. CASE \E c \in Crons : CronStep(c) \/ CronGone(c)
      BY <3>4 DEF CronStep, CronSelect, CronExpire, CronCancel, CronPending, CronGet, CronList,
         CronDelete, CronClean, CronCount, CronUpdate, CronTombstone, CronGone, CronSites, CronBounded, CronEvent, Cancelled
    <3>5. CASE \E k \in Keys : Bootstrap(k)
      BY <3>5 DEF Bootstrap
    <3> QED BY <2>1, <3>1, <3>2, <3>3, <3>4, <3>5 DEF Next
  <2>2. CASE UNCHANGED vars
    BY <2>2 DEF vars
  <2> QED BY <1>1, <2>1, <2>2
<1>2. IndInv /\ [Next]_vars
      => [row.state # "active" => \A o \in Ops : op'[o] \in {op[o], "failed", "deleted"}]_vars
  BY <1>1
<1> QED BY <1>2, Invariance, PTL DEF Spec, DeletionFencesWork

\* A deletion is never taken back or put off, and its receipt is written once. (reclaim, renew)
THEOREM TombstonesStand == Spec => TombstoneStands
<1> DEFINE Stands == /\ row.state # "active" => row'.state # "active" /\ row'.retain = row.retain
                     /\ row.state = "tombstoned" => row' = row /\ receipts' = receipts /\ row.receipt = receipts
<1>1. ASSUME IndInv, [Next]_vars PROVE Stands
  <2>1. row \in RowStates /\ (row.state = "tombstoned" => receipts # None /\ row.receipt = receipts)
    BY <1>1, Types DEF IndInv, RowAgrees
  <2>2. CASE row' = row /\ receipts' = receipts
    BY <2>1, <2>2, Types DEF IndInv
  <2>3. CASE Renew \/ OwnerDelete
    BY <2>3 DEF Renew, OwnerDelete
  <2>4. ASSUME NEW c \in Crons, CronUpdate(c) PROVE Stands
    BY <2>1, <2>4, Types DEF CronUpdate, IndInv, RowStates
  <2>5. ASSUME NEW c \in Crons, CronTombstone(c) PROVE Stands
    BY <2>1, <2>5, Types DEF CronTombstone, CanTombstone, IndInv, RowStates
  <2>6. ASSUME NEW c \in Crons, CronExpire(c) PROVE Stands
    BY <2>1, <2>6, Types DEF CronExpire, IndInv, RowStates
  <2>7. CASE UNCHANGED vars
    BY <2>2, <2>7 DEF vars
  <2>8. CASE Next
    <3>1. CASE Tick \/ OwnerCancel \/ OwnerGone
      BY <2>2, <3>1 DEF Tick, OwnerCancel, OwnerGone
    <3>2. CASE \E o \in Ops : Create(o) \/ Claim(o) \/ Work(o)
      BY <2>2, <3>2 DEF Create, Claim, Work
    <3>3. CASE \E r \in Requests : Enter(r) \/ \E k \in Keys : Put(r, k)
      BY <2>2, <3>3 DEF Enter, Put
    <3>4. CASE \E c \in Crons : CronStep(c) \/ CronGone(c)
      BY <2>2, <2>4, <2>5, <2>6, <3>4 DEF CronStep, CronSelect, CronCancel, CronPending, CronGet,
         CronList, CronDelete, CronClean, CronCount, CronGone, CronSites, CronBounded, CronEvent
    <3>5. CASE \E k \in Keys : Bootstrap(k)
      BY <2>2, <3>5 DEF Bootstrap
    <3> QED BY <2>3, <2>8, <3>1, <3>2, <3>3, <3>4, <3>5 DEF Next
  <2> QED BY <1>1, <2>7, <2>8
<1>2. IndInv /\ [Next]_vars => [Stands]_vars
  BY <1>1
<1> QED BY <1>2, Invariance, PTL DEF Spec, TombstoneStands

=============================================================================
