--------------------- MODULE D1RevisionCoordinatorProofs ---------------------
(***************************************************************************)
(* Proofs about D1RevisionCoordinator, for every set of callers, tokens,   *)
(* pointers and durations and every bound.                                 *)
(***************************************************************************)
EXTENDS D1RevisionCoordinator, TLAPS

\* The null records are well typed, a revision is drawn from its pointer, and no pointer
\* is None.
LEMMA Constants ==
    /\ NoLease \in [token: Tokens \cup {None}, base: Revisions \cup {None},
                    version: 0..MaxVersion, expires: Expiries]
    /\ NoFence \in [token: Tokens \cup {None}, expires: Expiries]
    /\ NotHeld \in [token: Tokens \cup {None}, pointer: Pointers \cup {None},
                    version: 0..MaxVersion, expires: Expiries]
    /\ Idle \in [op: Steps, at: Times, token: Tokens \cup {None}]
    /\ NoReceipts \in [Versions -> Pointers \cup {None}]
    /\ None \notin Pointers /\ None \notin Tokens /\ None \notin Revisions
    /\ \A p \in Pointers \cup {None} : RevisionOf(p) \in Revisions \cup {None}
BY NoneAssumption, BoundAssumption
   DEF NoLease, NoFence, NotHeld, Idle, NoReceipts, Expiries, Steps, Operations, Times,
       Versions, Pointers, RevisionOf

\* Every step of a worker, of the database or of the clock keeps the rows well typed.
LEMMA TypeStep ==
    ASSUME TypeOK, [Next]_vars
    PROVE  TypeOK'
<1> USE Constants, BoundAssumption, TtlAssumption
<1>1. CASE UNCHANGED vars
  BY <1>1 DEF TypeOK, vars
<1>2. CASE Tick
  BY <1>2 DEF TypeOK, Tick, Times
<1>3. ASSUME NEW c \in Callers, Step(c)
      PROVE  TypeOK'
  <2> USE DEF TypeOK, Return
  <2>1. ASSUME NEW op \in Operations, Begin(c, op)
        PROVE  TypeOK'
    <3>1. PICK t \in TokensFor(op) :
             call' = [call EXCEPT ![c] = [op |-> op, at |-> clock, token |-> t]]
      BY <2>1 DEF Begin
    <3>2. t \in Tokens \cup {None}
      BY DEF TokensFor
    <3>3. [op |-> op, at |-> clock, token |-> t]
             \in [op: Steps, at: Times, token: Tokens \cup {None}]
      BY <3>2 DEF Steps
    <3>. QED
      BY <2>1, <3>1, <3>3 DEF Begin
  <2>2. CASE Vanish(c)
    BY <2>2 DEF Vanish
  <2>3. CASE Acquire(c)
    <3>1. PICK t \in Tokens \ issued, ttl \in LeaseTtls :
             /\ issued' = issued \cup {t}
             /\ lease' = [token |-> t, base |-> RevisionOf(pointer), version |-> version,
                          expires |-> call[c].at + ttl]
             /\ call' = [call EXCEPT ![c].op = "granted", ![c].token = t]
      BY <2>3 DEF Acquire
    <3>2. call[c].at + ttl \in Expiries /\ RevisionOf(pointer) \in Revisions \cup {None}
      BY DEF Expiries, Times
    <3>3. call' \in [Callers -> [op: Steps, at: Times, token: Tokens \cup {None}]]
      BY <3>1 DEF Steps
    <3>. QED
      BY <2>3, <3>1, <3>2, <3>3 DEF Acquire
  <2>4. CASE ReadGrant(c)
    BY <2>4 DEF ReadGrant
  <2>5. CASE Renew(c)
    <3>1. PICK ttl \in LeaseTtls :
             /\ lease' = [lease EXCEPT !.expires = call[c].at + ttl]
             /\ held' = [held EXCEPT ![c].expires = call[c].at + ttl]
      BY <2>5 DEF Renew
    <3>2. call[c].at + ttl \in Expiries
      BY DEF Expiries, Times
    <3>. QED
      BY <2>5, <3>1, <3>2 DEF Renew
  <2>6. CASE Finish(c)
    BY <2>6 DEF Finish
  <2>7. CASE Commit(c)
    BY <2>7 DEF Commit, AddReceipt, Versions
  <2>8. CASE AcquireFence(c)
    BY <2>8 DEF AcquireFence, Times, Expiries
  <2>9. CASE RenewFence(c)
    BY <2>9 DEF RenewFence, Times, Expiries
  <2>10. CASE ReleaseFence(c)
    BY <2>10 DEF ReleaseFence
  <2>11. CASE AdoptCheck(c)
    BY <2>11 DEF AdoptCheck, Steps
  <2>12. ASSUME NEW p \in Pointers, NEW v \in Versions, Adopt(c, p, v)
         PROVE  TypeOK'
    BY <2>12 DEF Adopt, AddReceipt, Versions
  <2>13. ASSUME NEW p \in Pointers, NEW v \in Versions, AdoptConflict(c, p, v)
         PROVE  TypeOK'
    BY <2>13 DEF AdoptConflict, Conflict
  <2>14. CASE Reset(c)
    BY <2>14 DEF Reset
  <2>15. CASE Refused(c)
    BY <2>15 DEF Refused, GrantLost, AdoptRefused, Conflict
  <2>. QED
    BY <1>3, <2>1, <2>2, <2>3, <2>4, <2>5, <2>6, <2>7, <2>8, <2>9, <2>10, <2>11, <2>12,
       <2>13, <2>14, <2>15 DEF Step
<1>. QED
  BY <1>1, <1>2, <1>3 DEF Next

\* The rows keep their column types, every bound time lies within the clock's range and
\* every caller is at a step its operation has, whatever the callers do.
THEOREM TypeCorrect == Spec => []TypeOK
<1>1. Init => TypeOK
  BY Constants, BoundAssumption DEF Init, TypeOK, Times, Steps
<1>2. TypeOK /\ [Next]_vars => TypeOK'
  BY TypeStep
<1>. QED
  BY <1>1, <1>2, PTL DEF Spec

-----------------------------------------------------------------------------
(***************************************************************************)
(* The inductive invariant.                                                *)
(***************************************************************************)

\* The part of the invariant that is not typing.
Linked == CallsBound /\ LeaseRow /\ TokensOwned /\ HeldMatchesRow /\ LiveLeaseInRow
            /\ ReceiptsMatchHistory

\* A step of c that leaves the rows and every lease alone, and moves its call to a step
\* that is not the reading of a grant, with a bound time that is not in the future.
Quiet(c, k) ==
    /\ call' = [call EXCEPT ![c] = k]
    /\ k.op # "granted"
    /\ k.op \in {"renew", "finish", "commit"} <=> (k # Idle /\ held[c] # NotHeld)
    /\ k.at <= clock
    /\ call[c].op = "granted" => held[c] = NotHeld
    /\ UNCHANGED <<clock, pointer, version, lease, receipts, issued, held>>

\* A step that only moves a caller along its call leaves everything linked.
LEMMA QuietStep ==
    ASSUME TypeOK, Linked, NEW c \in Callers, NEW k, Quiet(c, k)
    PROVE  Linked'
<1>1. CallsBound'
  BY DEF Quiet, Linked, CallsBound, TypeOK
<1>2. LeaseRow'
  BY DEF Quiet, Linked, LeaseRow
<1>3. TokensOwned'
  <2>1. \A d \in Callers : TokenOf(d)' \in {TokenOf(d), None}
    BY DEF Quiet, Linked, TokensOwned, TokenOf, TypeOK, NotHeld
  <2>. QED
    BY <2>1 DEF Quiet, Linked, TokensOwned, TypeOK
<1>4. HeldMatchesRow'
  BY DEF Quiet, Linked, HeldMatchesRow
<1>5. LiveLeaseInRow'
  BY DEF Quiet, Linked, LiveLeaseInRow, Live
<1>6. ReceiptsMatchHistory'
  BY DEF Quiet, Linked, ReceiptsMatchHistory
<1>. QED
  BY <1>1, <1>2, <1>3, <1>4, <1>5, <1>6 DEF Linked

\* A lease found free by a bound time is nobody's live lease.
LEMMA FreeMeansNobodyLive ==
    ASSUME TypeOK, Linked, NEW c \in Callers, LeaseFree(call[c].at)
    PROVE  \A d \in Callers : ~Live(d)
<1>1. SUFFICES ASSUME NEW d \in Callers, Live(d)
               PROVE  FALSE
  OBVIOUS
<1>2. lease.token = held[d].token /\ lease.token # None
  BY <1>1 DEF Linked, LiveLeaseInRow, TokensOwned, Live
<1>3. lease.expires = held[d].expires /\ lease.expires > clock
  BY <1>1, <1>2 DEF Linked, HeldMatchesRow, Live
<1>4. lease.expires <= call[c].at /\ call[c].at <= clock
  BY <1>2 DEF LeaseFree, Linked, CallsBound
<1>. QED
  BY <1>3, <1>4 DEF TypeOK, Times, Expiries

\* A step that replaces the row and clears the lease columns, taken when nobody's lease
\* is live or by the lease's own holder, who gives it up.
Rewrites(c) ==
    /\ lease' = NoLease
    /\ call' = [call EXCEPT ![c] = Idle]
    /\ held' \in {held, [held EXCEPT ![c] = NotHeld]}
    /\ call[c].op # "granted"
    /\ held' = held => call[c].op \notin {"renew", "finish", "commit"}
    /\ \A d \in Callers : Live(d) => held'[d] = NotHeld
    /\ UNCHANGED <<clock, issued>>

\* A statement that writes the history and clears the lease keeps everything linked if the
\* receipts it leaves are the history and nobody else holds a good lease.
LEMMA RewritesStep ==
    ASSUME TypeOK, Linked, NEW c \in Callers, Rewrites(c), ReceiptsMatchHistory'
    PROVE  Linked'
<1>1. CallsBound'
  BY DEF Rewrites, Linked, CallsBound, TypeOK, Idle, Times
<1>2. LeaseRow'
  BY DEF Rewrites, LeaseRow, NoLease
<1>3. TokensOwned'
  <2>1. \A d \in Callers : held'[d] \in {held[d], NotHeld}
    BY DEF Rewrites, TypeOK
  <2>2. \A d \in Callers : TokenOf(d)' \in {TokenOf(d), None}
    BY <2>1 DEF Rewrites, Linked, TokensOwned, TokenOf, TypeOK, NotHeld, Idle
  <2>. QED
    BY <2>1, <2>2 DEF Rewrites, Linked, TokensOwned, TypeOK, NoLease, Idle
<1>4. \A d \in Callers : held'[d] \in {held[d], NotHeld}
  BY DEF Rewrites, TypeOK
<1>5. HeldMatchesRow'
  BY <1>4 DEF Rewrites, Linked, TokensOwned, HeldMatchesRow, NoLease
<1>6. LiveLeaseInRow'
  BY <1>4 DEF Rewrites, LiveLeaseInRow, Live
<1>. QED
  BY <1>1, <1>2, <1>3, <1>5, <1>6 DEF Linked

\* A fresh token makes a lease that only the drawing caller knows.
LEMMA AcquireStep ==
    ASSUME TypeOK, Linked, NEW c \in Callers, Acquire(c)
    PROVE  Linked'
<1> DEFINE at == call[c].at
<1>1. PICK t \in Tokens \ issued, ttl \in LeaseTtls :
         /\ issued' = issued \cup {t}
         /\ lease' = [token |-> t, base |-> RevisionOf(pointer), version |-> version,
                      expires |-> at + ttl]
         /\ call' = [call EXCEPT ![c].op = "granted", ![c].token = t]
  BY DEF Acquire
<1>2. t # None /\ t \notin issued
  BY Constants
<1>3. \A d \in Callers : ~Live(d)
  BY FreeMeansNobodyLive DEF Acquire, CanAcquire
<1>4. held[c] = NotHeld /\ call[c].op = "acquire"
  BY DEF Acquire, Linked, TokensOwned, Idle
<1>5. CallsBound'
  BY <1>1 DEF Acquire, Linked, CallsBound, TypeOK
<1>6. LeaseRow'
  BY <1>1, <1>2 DEF Acquire, LeaseRow
<1>7. TokensOwned'
  <2>1. TokenOf(c)' = t /\ \A d \in Callers \ {c} : TokenOf(d)' = TokenOf(d)
    BY <1>1 DEF Acquire, TokenOf, TypeOK
  <2>2. \A d \in Callers : TokenOf(d) # t
    BY <1>2 DEF Linked, TokensOwned
  <2>3. call'[c].op = "granted" /\ call'[c].token = t
    BY <1>1 DEF TypeOK
  <2>4. \A d \in Callers \ {c} : call'[d] = call[d]
    BY <1>1 DEF TypeOK
  <2>5. held' = held /\ issued' = issued \cup {t} /\ lease'.token = t
    BY <1>1 DEF Acquire
  <2>. QED
    BY <1>2, <1>4, <2>1, <2>2, <2>3, <2>4, <2>5 DEF Linked, TokensOwned
<1>8. HeldMatchesRow'
  <2>1. \A d \in Callers : held[d] # NotHeld => held[d].token \in issued
    BY DEF Linked, TokensOwned, TokenOf
  <2>. QED
    BY <1>1, <1>2, <2>1 DEF Acquire, HeldMatchesRow
<1>9. LiveLeaseInRow'
  BY <1>3 DEF Acquire, LiveLeaseInRow, Live
<1>10. ReceiptsMatchHistory'
  BY DEF Acquire, Linked, ReceiptsMatchHistory
<1>. QED
  BY <1>5, <1>6, <1>7, <1>8, <1>9, <1>10 DEF Linked

\* What is read back with the caller's own token is what was granted.
LEMMA ReadGrantStep ==
    ASSUME TypeOK, Linked, NEW c \in Callers, ReadGrant(c)
    PROVE  Linked'
<1>1. call[c].op = "granted" /\ lease.token = call[c].token /\ lease.token # None
  BY DEF ReadGrant, Linked, TokensOwned
<1>2. lease.version = version
  BY <1>1 DEF Linked, LeaseRow
<1>3. held'[c] = [token |-> lease.token, pointer |-> pointer, version |-> version,
                  expires |-> lease.expires]
  BY <1>1, <1>2 DEF ReadGrant, TypeOK
<1>4. /\ \A d \in Callers \ {c} : held'[d] = held[d] /\ call'[d] = call[d]
      /\ call'[c] = Idle
  BY DEF ReadGrant, Return, TypeOK
<1>5. CallsBound'
  BY <1>4 DEF ReadGrant, Linked, CallsBound, Idle, TypeOK, Times
<1>6. LeaseRow'
  BY DEF ReadGrant, Linked, LeaseRow
<1>7. TokensOwned'
  <2>1. \A d \in Callers : TokenOf(d)' = TokenOf(d)
    BY <1>1, <1>3, <1>4 DEF TokenOf, Idle
  <2>. QED
    BY <1>1, <1>3, <1>4, <2>1 DEF ReadGrant, Linked, TokensOwned, Idle
<1>8. HeldMatchesRow'
  BY <1>3, <1>4 DEF ReadGrant, Linked, HeldMatchesRow
<1>9. LiveLeaseInRow'
  BY <1>3, <1>4 DEF ReadGrant, Linked, LiveLeaseInRow, Live
<1>10. ReceiptsMatchHistory'
  BY DEF ReadGrant, Linked, ReceiptsMatchHistory
<1>. QED
  BY <1>5, <1>6, <1>7, <1>8, <1>9, <1>10 DEF Linked

\* A renewal moves the expiry in the row and in the holder's hands together.
LEMMA RenewStep ==
    ASSUME TypeOK, Linked, NEW c \in Callers, Renew(c)
    PROVE  Linked'
<1>1. PICK ttl \in LeaseTtls :
         /\ lease' = [lease EXCEPT !.expires = call[c].at + ttl]
         /\ held' = [held EXCEPT ![c].expires = call[c].at + ttl]
  BY DEF Renew
<1>2. call[c].op = "renew" /\ held[c] # NotHeld /\ lease.token = held[c].token
  BY DEF Renew, CanRenew, LeaseLive, Linked, TokensOwned
<1>3. held[c].token # None
  BY <1>2 DEF Linked, TokensOwned
<1>4. /\ held'[c].token = held[c].token /\ held'[c].pointer = held[c].pointer
      /\ held'[c].version = held[c].version /\ held'[c].expires = call[c].at + ttl
      /\ held'[c] # NotHeld
  BY <1>1, <1>3 DEF TypeOK, NotHeld
<1>5. lease'.token = lease.token /\ lease'.base = lease.base /\ lease'.version = lease.version
        /\ lease'.expires = call[c].at + ttl
  BY <1>1 DEF TypeOK
<1>6. /\ \A d \in Callers \ {c} : held'[d] = held[d] /\ call'[d] = call[d]
      /\ call'[c] = Idle
  BY <1>1 DEF Renew, Return, TypeOK
<1>7. CallsBound'
  BY <1>6 DEF Renew, Linked, CallsBound, Idle, TypeOK, Times
<1>8. LeaseRow'
  BY <1>2, <1>3, <1>5 DEF Renew, Linked, LeaseRow
<1>9. TokensOwned'
  <2>1. \A d \in Callers : TokenOf(d)' = TokenOf(d)
    BY <1>2, <1>4, <1>6 DEF TokenOf, Idle
  <2>. QED
    BY <1>2, <1>3, <1>4, <1>5, <1>6, <2>1 DEF Renew, Linked, TokensOwned, Idle
<1>10. \A d \in Callers \ {c} : held[d] # NotHeld => held[d].token # lease.token
  BY <1>2, <1>3 DEF Linked, TokensOwned, TokenOf
<1>11. HeldMatchesRow'
  BY <1>2, <1>4, <1>5, <1>6, <1>10 DEF Renew, Linked, HeldMatchesRow
<1>12. LiveLeaseInRow'
  BY <1>2, <1>4, <1>5, <1>6 DEF Renew, Linked, LiveLeaseInRow, Live
<1>13. ReceiptsMatchHistory'
  BY DEF Renew, Linked, ReceiptsMatchHistory
<1>. QED
  BY <1>7, <1>8, <1>9, <1>11, <1>12, <1>13 DEF Linked

\* A caller that forgets what it knows leaves the rows alone.
LEMMA VanishStep ==
    ASSUME TypeOK, Linked, NEW c \in Callers, Vanish(c)
    PROVE  Linked'
<1>1. held'[c] = NotHeld /\ call'[c] = Idle
        /\ \A d \in Callers \ {c} : held'[d] = held[d] /\ call'[d] = call[d]
  BY DEF Vanish, TypeOK
<1>2. CallsBound'
  BY <1>1 DEF Vanish, Linked, CallsBound, Idle, TypeOK, Times
<1>3. LeaseRow'
  BY DEF Vanish, Linked, LeaseRow
<1>4. TokensOwned'
  <2>1. TokenOf(c)' = None /\ \A d \in Callers \ {c} : TokenOf(d)' = TokenOf(d)
    BY <1>1 DEF TokenOf, Idle, NotHeld
  <2>. QED
    BY <1>1, <2>1 DEF Vanish, Linked, TokensOwned, Idle
<1>5. HeldMatchesRow'
  BY <1>1 DEF Vanish, Linked, HeldMatchesRow
<1>6. LiveLeaseInRow'
  BY <1>1 DEF Vanish, Linked, LiveLeaseInRow, Live
<1>7. ReceiptsMatchHistory'
  BY DEF Vanish, Linked, ReceiptsMatchHistory
<1>. QED
  BY <1>2, <1>3, <1>4, <1>5, <1>6, <1>7 DEF Linked

\* A statement that matches a live lease token is the work of the only owner of a live
\* lease.
LEMMA HolderIsAlone ==
    ASSUME TypeOK, Linked, NEW c \in Callers, held[c] # NotHeld, lease.token = held[c].token
    PROVE  \A d \in Callers : Live(d) => d = c
<1>1. SUFFICES ASSUME NEW d \in Callers, Live(d)
               PROVE  d = c
  OBVIOUS
<1>2. held[d].token = held[c].token /\ held[c].token # None
  BY <1>1 DEF Linked, LiveLeaseInRow, TokensOwned
<1>3. TokenOf(d) = held[d].token /\ TokenOf(c) = held[c].token
  BY <1>1 DEF TokenOf, Linked, TokensOwned, Live
<1>. QED
  BY <1>2, <1>3 DEF Linked, TokensOwned

\* Ending a lease clears the row if the lease is still there, and is otherwise the
\* caller's own forgetting.
LEMMA FinishStep ==
    ASSUME TypeOK, Linked, NEW c \in Callers, Finish(c)
    PROVE  Linked'
<1>1. CASE LeaseLive(held[c].token, call[c].at)
  <2>1. held[c] # NotHeld /\ call[c].op = "finish" /\ lease.token = held[c].token
    BY <1>1 DEF Finish, LeaseLive, Linked, TokensOwned
  <2>2. \A d \in Callers : Live(d) => held'[d] = NotHeld
    BY <2>1, HolderIsAlone DEF Finish, TypeOK
  <2>3. held' # held
    BY <2>1 DEF Finish, TypeOK
  <2>4. Rewrites(c)
    BY <1>1, <2>1, <2>2, <2>3 DEF Finish, Return, Rewrites
  <2>5. ReceiptsMatchHistory'
    BY DEF Finish, Linked, ReceiptsMatchHistory
  <2>. QED
    BY <2>4, <2>5, RewritesStep
<1>2. CASE ~LeaseLive(held[c].token, call[c].at)
  <2>1. Vanish(c)
    BY <1>2 DEF Finish, Return, Vanish, Idle
  <2>. QED
    BY <2>1, VanishStep
<1>. QED
  BY <1>1, <1>2

\* A commit adds the receipt of a version that had none.
LEMMA CommitStep ==
    ASSUME TypeOK, Linked, NEW c \in Callers, Commit(c)
    PROVE  Linked'
<1>1. held[c] # NotHeld /\ lease.token = held[c].token
  BY DEF Commit, CanCommit, LeaseLive, Linked, TokensOwned, Idle
<1>2. \A d \in Callers : Live(d) => held'[d] = NotHeld
  BY <1>1, HolderIsAlone DEF Commit, TypeOK
<1>3. held' # held
  BY <1>1 DEF Commit, TypeOK
<1>4. Rewrites(c)
  BY <1>1, <1>2, <1>3 DEF Commit, Return, Rewrites
<1>5. PICK p \in Pointers : pointer' = p /\ receipts' = AddReceipt(version + 1, p)
  BY DEF Commit
<1>6. version + 1 \in Versions /\ version' = version + 1 /\ receipts[version + 1] = None
  BY BoundAssumption DEF Commit, Versions, TypeOK, Linked, ReceiptsMatchHistory
<1>7. receipts' = [receipts EXCEPT ![version + 1] = p]
  BY <1>5, <1>6 DEF AddReceipt
<1>8. ReceiptsMatchHistory'
  BY <1>5, <1>6, <1>7, Constants, BoundAssumption
     DEF Linked, ReceiptsMatchHistory, TypeOK, Versions
<1>. QED
  BY <1>4, <1>8, RewritesStep

\* An adoption moves the version forward, or into an empty site, or changes nothing.
LEMMA AdoptStep ==
    ASSUME TypeOK, Linked, NEW c \in Callers, NEW p \in Pointers, NEW v \in Versions,
           Adopt(c, p, v)
    PROVE  Linked'
<1>1. \A d \in Callers : ~Live(d)
  BY FreeMeansNobodyLive DEF Adopt, CanAdopt
<1>2. Rewrites(c)
  BY <1>1 DEF Adopt, Return, Rewrites
<1>3. receipts'[v] = p /\ \A u \in Versions \ {v} : receipts'[u] = receipts[u]
  BY Constants DEF Adopt, CanAdopt, AddReceipt, TypeOK
<1>4. \A u \in Versions : u > v => receipts[u] = None
  BY Constants, BoundAssumption
     DEF Adopt, CanAdopt, Linked, ReceiptsMatchHistory, TypeOK, Versions, NoReceipts
<1>5. ReceiptsMatchHistory'
  BY <1>3, <1>4, Constants DEF Adopt, ReceiptsMatchHistory, Versions
<1>. QED
  BY <1>2, <1>5, RewritesStep

\* A reset empties pointer and receipts together, and no good lease outlives it.
LEMMA ResetStep ==
    ASSUME TypeOK, Linked, NEW c \in Callers, Reset(c)
    PROVE  Linked'
<1>1. \A d \in Callers : ~Live(d)
  BY FreeMeansNobodyLive DEF Reset, CanReset
<1>2. Rewrites(c)
  BY <1>1 DEF Reset, Return, Rewrites
<1>3. ReceiptsMatchHistory'
  BY DEF Reset, ReceiptsMatchHistory, NoReceipts
<1>. QED
  BY <1>2, <1>3, RewritesStep

\* Refusals and fence operations touch neither rows of the history nor leases.
LEMMA ReturnIsQuiet ==
    ASSUME TypeOK, Linked, NEW c \in Callers, Return(c),
           UNCHANGED <<clock, pointer, version, lease, receipts, issued, held>>
    PROVE  Linked'
<1>1. Quiet(c, Idle)
  BY DEF Return, Quiet, Linked, TokensOwned, Idle, TypeOK, Times
<1>. QED
  BY <1>1, QuietStep

\* Every step keeps rows, tokens and leases linked: one case for every operation.
LEMMA LinkedStep ==
    ASSUME TypeOK, Linked, [Next]_vars
    PROVE  Linked'
<1>1. CASE UNCHANGED vars
  BY <1>1 DEF vars, Linked, CallsBound, LeaseRow, TokensOwned, TokenOf, HeldMatchesRow,
              LiveLeaseInRow, Live, ReceiptsMatchHistory
<1>2. CASE Tick
  BY <1>2 DEF Tick, Linked, CallsBound, LeaseRow, TokensOwned, TokenOf, HeldMatchesRow,
              LiveLeaseInRow, Live, ReceiptsMatchHistory, TypeOK, Times, Expiries
<1>3. ASSUME NEW c \in Callers, Step(c)
      PROVE  Linked'
  <2>1. ASSUME NEW op \in Operations, Begin(c, op)
        PROVE  Linked'
    <3>1. PICK t \in TokensFor(op) :
             call' = [call EXCEPT ![c] = [op |-> op, at |-> clock, token |-> t]]
      BY <2>1 DEF Begin
    <3>. DEFINE k == [op |-> op, at |-> clock, token |-> t]
    <3>2. k.op = op /\ k.at = clock /\ op # "granted" /\ op # "idle"
      BY DEF Operations
    <3>3. k # Idle /\ call[c].op # "granted"
      BY <2>1, <3>2 DEF Begin, Idle
    <3>4. clock <= clock
      BY DEF TypeOK, Times
    <3>5. Quiet(c, k)
      BY <2>1, <3>1, <3>2, <3>3, <3>4 DEF Begin, Quiet
    <3>. QED
      BY <3>5, QuietStep
  <2>2. CASE Vanish(c)
    BY <2>2, VanishStep
  <2>3. CASE Acquire(c)
    BY <2>3, AcquireStep
  <2>4. CASE ReadGrant(c)
    BY <2>4, ReadGrantStep
  <2>5. CASE Renew(c)
    BY <2>5, RenewStep
  <2>6. CASE Finish(c)
    BY <2>6, FinishStep
  <2>7. CASE Commit(c)
    BY <2>7, CommitStep
  <2>8. CASE AcquireFence(c)
    <3>1. CallsBound' /\ LeaseRow' /\ HeldMatchesRow' /\ LiveLeaseInRow' /\ ReceiptsMatchHistory'
      BY <2>8 DEF AcquireFence, Return, Linked, CallsBound, LeaseRow, HeldMatchesRow,
                  LiveLeaseInRow, Live, ReceiptsMatchHistory, TypeOK, Idle, Times
    <3>2. \A d \in Callers : TokenOf(d)' = TokenOf(d)
      BY <2>8 DEF AcquireFence, Return, TokenOf, TypeOK, Idle
    <3>3. TokensOwned'
      BY <2>8, <3>2 DEF AcquireFence, Return, Linked, TokensOwned, TypeOK, Idle
    <3>. QED
      BY <3>1, <3>3 DEF Linked
  <2>9. CASE RenewFence(c)
    BY <2>9, ReturnIsQuiet DEF RenewFence
  <2>10. CASE ReleaseFence(c)
    BY <2>10, ReturnIsQuiet DEF ReleaseFence
  <2>11. CASE AdoptCheck(c)
    <3>1. Quiet(c, [call[c] EXCEPT !.op = "adopting"])
      BY <2>11 DEF AdoptCheck, Quiet, Linked, CallsBound, TokensOwned, TypeOK, Idle
    <3>. QED
      BY <3>1, QuietStep
  <2>12. ASSUME NEW p \in Pointers, NEW v \in Versions, Adopt(c, p, v)
         PROVE  Linked'
    BY <2>12, AdoptStep
  <2>13. ASSUME NEW p \in Pointers, NEW v \in Versions, AdoptConflict(c, p, v)
         PROVE  Linked'
    BY <2>13, ReturnIsQuiet DEF AdoptConflict, Conflict
  <2>14. CASE Reset(c)
    BY <2>14, ResetStep
  <2>15. CASE Refused(c)
    BY <2>15, ReturnIsQuiet DEF Refused, GrantLost, AdoptRefused, Conflict
  <2>. QED
    BY <1>3, <2>1, <2>2, <2>3, <2>4, <2>5, <2>6, <2>7, <2>8, <2>9, <2>10, <2>11, <2>12,
       <2>13, <2>14, <2>15 DEF Step
<1>. QED
  BY <1>1, <1>2, <1>3 DEF Next

\* Bound times, the lease row, the tokens callers know and the leases they hold stay
\* linked as IndInv says, for any number of callers.
THEOREM Invariance == Spec => []IndInv
<1>1. Init => IndInv
  <2>1. Init => TypeOK
    BY Constants, BoundAssumption DEF Init, TypeOK, Times, Steps
  <2>2. Init => Linked
    BY BoundAssumption
       DEF Init, Linked, CallsBound, LeaseRow, TokensOwned, TokenOf, HeldMatchesRow,
           LiveLeaseInRow, Live, ReceiptsMatchHistory, NoLease, NotHeld, Idle, NoReceipts
  <2>. QED
    BY <2>1, <2>2 DEF IndInv, Linked
<1>2. IndInv /\ [Next]_vars => IndInv'
  BY TypeStep, LinkedStep DEF IndInv, Linked
<1>. QED
  BY <1>1, <1>2, PTL DEF Spec

\* No two callers ever hold leases that are both good by the clock: a worker that reads
\* its own expiry may trust it, however late its statements reach the database.
THEOREM LeasesExclude == Spec => []ExclusiveWriter
<1>1. IndInv => ExclusiveWriter
  <2>. SUFFICES ASSUME IndInv, NEW c \in Callers, NEW d \in Callers, Live(c), Live(d)
                PROVE  c = d
    BY DEF ExclusiveWriter
  <2>. QED
    BY HolderIsAlone DEF IndInv, Linked, LiveLeaseInRow, Live
<1>. QED
  BY <1>1, Invariance, PTL

\* The commit table is exactly the history behind the canonical pointer, so a commit's
\* INSERT OR IGNORE is never ignored and no receipt lies ahead of the version.
THEOREM ReceiptsAreHistory == Spec => []ReceiptsMatchHistory
<1>1. IndInv => ReceiptsMatchHistory
  BY DEF IndInv
<1>. QED
  BY <1>1, Invariance, PTL

-----------------------------------------------------------------------------
(***************************************************************************)
(* Steps.                                                                  *)
(***************************************************************************)

\* Only three statements write the history, and each of them is the end of every lease
\* that is still good.
LEMMA WritersEndLeases ==
    ASSUME TypeOK, Linked, [Next]_vars,
           <<pointer, version, receipts>>' # <<pointer, version, receipts>>
    PROVE  \A d \in Callers : Live(d) => held'[d] = NotHeld
<1>1. PICK c \in Callers : Step(c)
  BY DEF Next, Tick, vars
<1>2. \/ Commit(c) \/ Reset(c)
      \/ \E p \in Pointers, v \in Versions : Adopt(c, p, v)
  BY <1>1 DEF Step, Begin, Vanish, Acquire, ReadGrant, Renew, Finish, AcquireFence, RenewFence,
              ReleaseFence, AdoptCheck, AdoptConflict, Refused, GrantLost, AdoptRefused, Conflict
<1>3. CASE Commit(c)
  <2>1. held[c] # NotHeld /\ lease.token = held[c].token
    BY <1>3 DEF Commit, CanCommit, LeaseLive, Linked, TokensOwned, Idle
  <2>. QED
    BY <1>3, <2>1, HolderIsAlone DEF Commit, TypeOK
<1>4. CASE Reset(c)
  BY <1>4, FreeMeansNobodyLive DEF Reset, CanReset
<1>5. CASE \E p \in Pointers, v \in Versions : Adopt(c, p, v)
  BY <1>5, FreeMeansNobodyLive DEF Adopt, CanAdopt
<1>. QED
  BY <1>2, <1>3, <1>4, <1>5

\* While a lease is good nothing but its own commit changes pointer, version or receipts.
THEOREM LeaseStabilises == Spec => StableUnderLease
<1>1. IndInv /\ [Next]_vars =>
        [<<pointer, version, receipts>>' # <<pointer, version, receipts>>
           => \A c \in Callers : Live(c) => held'[c] = NotHeld]_vars
  BY WritersEndLeases DEF IndInv, Linked
<1>. QED
  BY <1>1, Invariance, PTL DEF Spec, StableUnderLease

\* A fence that is active by the clock is active by every bound time.
LEMMA ActiveWhenBound ==
    ASSUME TypeOK, Linked, FenceActive(clock), NEW c \in Callers
    PROVE  FenceActive(call[c].at)
BY DEF FenceActive, Linked, CallsBound, TypeOK, Times, Expiries

\* While a fence is active no lease is granted or extended, the site is not emptied and
\* only an earlier lease's commit or the fence's own adoption moves the version.
THEOREM FenceHolds == Spec => FenceRejects
<1> DEFINE Rejects ==
      FenceActive(clock) =>
         /\ lease'.token \in {lease.token, None}
         /\ lease'.expires <= lease.expires
         /\ pointer' = None => pointer = None
         /\ version' # version =>
              \E c \in Callers :
                /\ call[c] # Idle /\ call'[c] = Idle
                /\ call[c].op = "commit" \/ call[c].token = fence.token
<1>1. ASSUME TypeOK, Linked, Next, FenceActive(clock)
      PROVE  Rejects
  <2>1. CASE Tick
    BY <1>1, <2>1 DEF Tick, TypeOK, Expiries
  <2>2. ASSUME NEW c \in Callers, Step(c)
        PROVE  Rejects
    <3>1. FenceActive(call[c].at)
      BY <1>1, ActiveWhenBound
    <3>2. NoLease.token = None /\ NoLease.expires <= lease.expires /\ lease.expires <= lease.expires
      BY <1>1 DEF NoLease, TypeOK, Expiries
    <3>3. CASE lease' = lease /\ pointer' = pointer /\ version' = version
      BY <3>2, <3>3
    <3>4. CASE Finish(c)
      BY <3>2, <3>4 DEF Finish
    <3>5. CASE Commit(c)
      <4>1. call[c] # Idle /\ call'[c] = Idle /\ call[c].op = "commit"
        BY <1>1, <3>5 DEF Commit, Return, Idle, TypeOK
      <4>2. pointer' # None
        BY <3>5, Constants DEF Commit
      <4>. QED
        BY <3>2, <3>5, <4>1, <4>2 DEF Commit
    <3>6. ASSUME NEW p \in Pointers, NEW v \in Versions, Adopt(c, p, v)
          PROVE  Rejects
      <4>1. call[c] # Idle /\ call'[c] = Idle /\ call[c].token = fence.token
        BY <1>1, <3>1, <3>6 DEF Adopt, CanAdopt, FenceLive, Return, Idle, TypeOK
      <4>2. pointer' # None
        BY <3>6, Constants DEF Adopt
      <4>. QED
        BY <3>2, <3>6, <4>1, <4>2 DEF Adopt
    <3>7. ~Acquire(c) /\ ~Renew(c) /\ ~Reset(c)
      BY <3>1 DEF Acquire, CanAcquire, Renew, CanRenew, Reset, CanReset
    <3>. QED
      BY <2>2, <3>3, <3>4, <3>5, <3>6, <3>7
         DEF Step, Begin, Vanish, ReadGrant, AcquireFence, RenewFence, ReleaseFence,
             AdoptCheck, AdoptConflict, Refused, GrantLost, AdoptRefused, Conflict
  <2>. QED
    BY <1>1, <2>1, <2>2 DEF Next
<1>2. IndInv /\ [Next]_vars => [Rejects]_vars
  BY <1>1 DEF IndInv, Linked
<1>. QED
  BY <1>2, Invariance, PTL DEF Spec, FenceRejects

-----------------------------------------------------------------------------
(***************************************************************************)
(* Refinement of RevisionHistory.                                          *)
(***************************************************************************)

\* The one caller whose token is in the lease row has the current value as its basis.
LEMMA HolderIs ==
    ASSUME TypeOK, Linked, NEW c \in Callers, held[c] # NotHeld, lease.token = held[c].token
    PROVE  Basis[c] = History!Current /\ Holders = {c}
<1>1. Basis[c] = History!Current
  BY DEF Basis, History!Current, Linked, HeldMatchesRow
<1>2. held[c].token # None /\ TokenOf(c) = held[c].token
  BY DEF Linked, TokensOwned, TokenOf
<1>3. ASSUME NEW d \in Callers, held[d] # NotHeld, held[d].token = lease.token
      PROVE  d = c
  <2>1. TokenOf(d) = held[d].token
    BY <1>3 DEF Linked, TokensOwned, TokenOf
  <2>. QED
    BY <1>2, <1>3, <2>1 DEF Linked, TokensOwned
<1>. QED
  BY <1>1, <1>3 DEF Holders

\* What callers hold and the row's token say all there is about the leases.
LEMMA LeasesUnchanged ==
    ASSUME held' = held, lease'.token = lease.token
    PROVE  Basis' = Basis /\ Holders' = Holders
BY DEF Basis, Holders

\* With a token in the row that nobody holds, or none, no lease counts.
LEMMA NobodyHolds ==
    ASSUME \A c \in Callers : held'[c] = NotHeld \/ held'[c].token # lease'.token
    PROVE  Holders' = {}
BY DEF Holders

\* A caller that forgets its lease is the only one whose basis changes.
LEMMA Forgotten ==
    ASSUME TypeOK, NEW c \in Callers, held' = [held EXCEPT ![c] = NotHeld]
    PROVE  /\ Basis' = [Basis EXCEPT ![c] = None]
           /\ lease'.token = lease.token => Holders' = Holders \ {c}
BY DEF TypeOK, Basis, Holders

\* Every step of the coordinator is a step of the abstract history or leaves it alone.
LEMMA StepRefines ==
    ASSUME TypeOK, Linked, [Next]_vars
    PROVE  [History!Next]_(History!vars)
<1> USE DEF History!vars
<1>1. CASE UNCHANGED vars
  BY <1>1, LeasesUnchanged DEF vars
<1>2. CASE Tick
  BY <1>2, LeasesUnchanged DEF Tick
<1>3. ASSUME NEW c \in Callers, Step(c)
      PROVE  [History!Next]_(History!vars)
  <2> DEFINE Known == \A d \in Callers : held[d] # NotHeld =>
                        held[d].token \in issued /\ held[d].token # None
  <2>0. Known
    BY DEF Linked, TokensOwned, TokenOf
  <2>1. CASE UNCHANGED <<pointer, version, receipts, held>> /\ lease'.token = lease.token
    BY <2>1, LeasesUnchanged
  <2>2. CASE UNCHANGED <<pointer, version, receipts>> /\ Finish(c)
    <3>1. held[c] # NotHeld /\ Basis' = [Basis EXCEPT ![c] = None]
      BY <2>2, Forgotten DEF Finish, Linked, TokensOwned, Idle
    <3>2. CASE LeaseLive(held[c].token, call[c].at)
      <4>1. Holders = {c}
        BY <3>1, <3>2, HolderIs DEF LeaseLive
      <4>2. Holders' = {}
        BY <2>0, <2>2, <3>2, NobodyHolds DEF Finish, NoLease, TypeOK
      <4>. QED
        BY <2>2, <3>1, <4>1, <4>2 DEF History!Next, History!Forget
    <3>3. CASE ~LeaseLive(held[c].token, call[c].at)
      <4>1. Holders' = Holders \ {c}
        BY <2>2, <3>3, Forgotten DEF Finish
      <4>. QED
        BY <2>2, <3>1, <4>1 DEF History!Next, History!Forget
    <3>. QED
      BY <3>2, <3>3
  <2>3. CASE Vanish(c)
    <3>1. Basis' = [Basis EXCEPT ![c] = None] /\ Holders' = Holders \ {c}
      BY <2>3, Forgotten DEF Vanish
    <3>. QED
      BY <2>3, <3>1 DEF Vanish, History!Next, History!Forget
  <2>4. CASE Acquire(c)
    <3>1. PICK t \in Tokens \ issued : lease'.token = t
      BY <2>4 DEF Acquire
    <3>2. Holders' = {} /\ Basis' = Basis
      BY <2>0, <2>4, <3>1, NobodyHolds DEF Acquire, Basis
    <3>. QED
      BY <2>4, <3>2 DEF Acquire, History!Next, History!Revoke
  <2>5. CASE ReadGrant(c)
    <3>1. lease.version = version /\ call[c].token # None /\ held[c] = NotHeld
      BY <2>5 DEF ReadGrant, Linked, TokensOwned, LeaseRow
    <3>2. held' = [held EXCEPT ![c] = [token |-> call[c].token, pointer |-> pointer,
                                       version |-> version, expires |-> lease.expires]]
      BY <2>5, <3>1 DEF ReadGrant
    <3>3. held'[c] # NotHeld /\ held'[c].token = lease.token
            /\ held'[c].version = version /\ held'[c].pointer = pointer
      BY <2>5, <3>1, <3>2 DEF ReadGrant, TypeOK, NotHeld
    <3>4. \A d \in Callers \ {c} : held'[d] = held[d]
                /\ (held[d] = NotHeld \/ held[d].token # lease.token)
      BY <2>5, <3>1, <3>2 DEF ReadGrant, TypeOK, Linked, TokensOwned, TokenOf
    <3>5. Basis' = [Basis EXCEPT ![c] = [version |-> version, pointer |-> pointer]]
      BY <3>3, <3>4 DEF Basis
    <3>6. Holders' = {c}
      BY <2>5, <3>3, <3>4 DEF ReadGrant, Holders
    <3>. QED
      BY <2>5, <3>5, <3>6 DEF ReadGrant, History!Next, History!Grant, History!Current
  <2>6. CASE Renew(c)
    <3>1. PICK ttl \in LeaseTtls :
             /\ held' = [held EXCEPT ![c].expires = call[c].at + ttl]
             /\ lease' = [lease EXCEPT !.expires = call[c].at + ttl]
      BY <2>6 DEF Renew
    <3>2. held[c] # NotHeld /\ held[c].token # None
      BY <2>6 DEF Renew, Linked, TokensOwned, Idle
    <3>3. held'[c] # NotHeld /\ held'[c].version = held[c].version
            /\ held'[c].pointer = held[c].pointer /\ held'[c].token = held[c].token
      BY <3>1, <3>2 DEF TypeOK, NotHeld
    <3>4. lease'.token = lease.token /\ \A d \in Callers \ {c} : held'[d] = held[d]
      BY <3>1 DEF TypeOK
    <3>5. Basis' = Basis /\ Holders' = Holders
      BY <3>2, <3>3, <3>4 DEF Basis, Holders
    <3>. QED
      BY <2>6, <3>5 DEF Renew
  <2>7. CASE Commit(c)
    <3>1. held[c] # NotHeld /\ lease.token = held[c].token
      BY <2>7 DEF Commit, CanCommit, LeaseLive, Linked, TokensOwned, Idle
    <3>2. Basis[c] = History!Current /\ Holders = {c}
      BY <3>1, HolderIs
    <3>3. PICK p \in Pointers : pointer' = p /\ receipts' = AddReceipt(version + 1, p)
      BY <2>7 DEF Commit
    <3>4. version + 1 \in Versions /\ receipts[version + 1] = None
      BY <2>7, BoundAssumption DEF Commit, Versions, TypeOK, Linked, ReceiptsMatchHistory
    <3>5. Basis' = [Basis EXCEPT ![c] = None] /\ Holders' = {}
      BY <2>0, <2>7, NobodyHolds, Forgotten DEF Commit, NoLease, TypeOK
    <3>6. History!Commit(c, p)
      BY <2>7, <3>2, <3>3, <3>4, <3>5
         DEF Commit, AddReceipt, History!Commit, History!Versions, Versions
    <3>. QED
      BY <3>6 DEF History!Next
  <2>8. ASSUME NEW p \in Pointers, NEW v \in Versions, Adopt(c, p, v)
        PROVE  [History!Next]_(History!vars)
    <3>1. receipts' = [receipts EXCEPT ![v] = p]
      BY <2>8 DEF Adopt, CanAdopt, AddReceipt, TypeOK
    <3>2. Basis' = Basis /\ Holders' = {}
      BY <2>0, <2>8, NobodyHolds DEF Adopt, NoLease, Basis
    <3>3. CASE pointer = None \/ version < v
      <4>1. History!Adopt(p, v)
        BY <2>8, <3>1, <3>2, <3>3 DEF Adopt, CanAdopt, History!Adopt
      <4>. QED
        BY <4>1 DEF History!Next, History!Versions, Versions
    <3>4. CASE version = v /\ pointer = p
      <4>1. receipts[v] = p
        BY <3>4, Constants DEF Linked, ReceiptsMatchHistory
      <4>2. receipts' = receipts
        BY <3>1, <4>1 DEF TypeOK
      <4>. QED
        BY <2>8, <3>2, <3>4, <4>2 DEF Adopt, History!Next, History!Revoke
    <3>. QED
      BY <2>8, <3>3, <3>4 DEF Adopt, CanAdopt
  <2>9. CASE Reset(c)
    <3>1. Basis' = Basis /\ Holders' = {}
      BY <2>0, <2>9, NobodyHolds DEF Reset, NoLease, Basis
    <3>. QED
      BY <2>9, <3>1 DEF Reset, NoReceipts, History!Next, History!Reset, History!Versions, Versions
  <2>. QED
    BY <1>3, <2>1, <2>2, <2>3, <2>4, <2>5, <2>6, <2>7, <2>8, <2>9
       DEF Step, Begin, Finish, AcquireFence, RenewFence, ReleaseFence, AdoptCheck,
           AdoptConflict, Refused, GrantLost, AdoptRefused, Conflict
<1>. QED
  BY <1>1, <1>2, <1>3 DEF Next

\* The D1 coordinator implements the versioned register: every commit replaces exactly the
\* pointer and version its lease was granted on, and receipts are never rewritten.
THEOREM ImplementsHistory == Spec => LinearHistory
<1>1. Init => History!Init
  BY DEF Init, History!Init, Basis, Holders, NotHeld, NoReceipts, Versions, History!Versions
<1>2. IndInv /\ [Next]_vars => [History!Next]_(History!vars)
  BY StepRefines DEF IndInv, Linked
<1>. QED
  BY <1>1, <1>2, Invariance, PTL DEF Spec, LinearHistory, History!Spec

=============================================================================
