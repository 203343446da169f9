-------------------- MODULE StaticArtifactOperationProofs --------------------
(***************************************************************************)
(* Proofs about StaticArtifactOperation, for any number of operations and  *)
(* consumers and every bound: an operation is imported once, and says what *)
(* it committed, however its claims are lost and taken over.               *)
(***************************************************************************)
EXTENDS StaticArtifactOperation, TLAPS

(***************************************************************************)
(* The inductive invariant.                                                *)
(***************************************************************************)

Rows == [state: States, attempts: 0..MaxClaims, token: 0..MaxClaims, lapsed: BOOLEAN,
         prepared: Prepared \cup {None}, receipt: Prepared \cup {None}]
WorkerStates == [pc: Owning \cup {"idle"}, op: Ops \cup {None}, token: 0..MaxClaims,
                 attempts: 0..MaxClaims, prepared: Prepared \cup {None},
                 lease: Leases \cup {None}, next: Pointers \cup {None}, job: BOOLEAN]

\* Where a consumer works under its lease, holds an import, and has prepared its commit.
Leased == {"booting", "import", "imported", "prepare", "committing", "commit"}
Imported == {"imported", "prepare", "committing", "commit"}
Committing == {"committing", "commit"}

Landed(r) == [version |-> r.version, pointer |-> r.pointer] \in landed

\* A claim is held by the last attempt, a prepared commit is the operation's own, and so is
\* a receipt, which ends the operation.
RowAgrees(o, row) ==
    /\ row.state = "running" => row.token = row.attempts
    /\ row.prepared # None => row.prepared.pointer.author = o
    /\ row.receipt # None => /\ row.state \notin Active \cup {"absent"}
                             /\ Landed(row.receipt) /\ row.receipt.pointer.author = o

\* Every receipt of the history is of a commit that was applied, and the importer's records in
\* the current revision name the operations of all of them.
HistoryKept ==
    \A v \in Versions : receipts[v] # None =>
        /\ [version |-> v, pointer |-> receipts[v]] \in landed
        /\ pointer # None
        /\ receipts[v].author \in Ops => receipts[v].author \in pointer.imports

\* The row names the commit of an operation in the history, in whatever state it is.
CommitIsNamed ==
    \A o \in Ops, v \in Versions : CommittedBy(o, v) =>
        /\ op[o].prepared # None
        /\ op[o].prepared.version = v
        /\ op[o].prepared.pointer = receipts[v]

\* What the consumer w in state s may rely on.  Under its lease it has the value it was granted
\* on, and an import made of it that was not there before; while its lease counts, the row says
\* what it is about to commit.
Holds(w, s) ==
    /\ s.pc # "idle" => s.op \in Ops /\ s.token >= 1 /\ s.token <= op[s.op].attempts
    /\ s.pc \in Leased => s.lease # None /\ basis[w] \in {s.lease, None}
    /\ s.pc \in Imported =>
        /\ s.next # None /\ s.next.author = s.op
        /\ s.lease.pointer # None /\ s.op \notin s.lease.pointer.imports
        /\ s.next.imports = s.lease.pointer.imports \cup {s.op}
    /\ s.pc \in Committing /\ w \in holders =>
        op[s.op].prepared = [version |-> s.lease.version + 1, pointer |-> s.next, job |-> s.job]

\* If nobody has claimed the operation since, its commit is still to come when an import is
\* made, and the row and the consumer agree on what was committed.
Latest(s) ==
    s.pc # "idle" /\ s.token = op[s.op].attempts =>
        /\ s.pc \in Imported => \A v \in Versions : ~CommittedBy(s.op, v)
        /\ s.pc \in {"booting", "import"} => \A v \in Versions : CommittedBy(s.op, v) =>
            s.lease.pointer # None /\ s.op \in s.lease.pointer.imports
        /\ s.pc = "check" => s.prepared # None /\ s.prepared = op[s.op].prepared
        /\ s.pc \in {"record", "reread"} => op[s.op].prepared # None /\ Landed(op[s.op].prepared)
        /\ s.pc = "complete" => s.prepared # None /\ Landed(s.prepared) /\ s.prepared.pointer.author = s.op

\* Two consumers of one operation have different claims, and who has prepared a commit holds
\* the lease no more once a later claimant works under one.
Apart(w, s, t) ==
    s.pc # "idle" /\ t.pc # "idle" /\ s.op = t.op =>
        /\ s.token # t.token
        /\ s.token < t.token /\ s.pc \in Committing /\ t.pc \in Leased => w \notin holders

IndInv ==
    /\ TypeOK
    /\ \A o \in Ops : RowAgrees(o, op[o])
    /\ HistoryKept
    /\ CommitIsNamed
    /\ ImportedOnce
    /\ \A w \in Workers : Holds(w, worker[w]) /\ Latest(worker[w])
    /\ \A w, u \in Workers : w # u => Apart(w, worker[w], worker[u])

-----------------------------------------------------------------------------
(***************************************************************************)
(* Types.                                                                  *)
(***************************************************************************)

(* What the assumptions say of the constants. *)
LEMMA Constants ==
    /\ None \notin Ops /\ None \notin Pointers /\ None \notin Prepared /\ None \notin Leases
    /\ Site \notin Ops /\ Site \notin Workers /\ Site # None
    /\ MaxClaims \in Nat /\ MaxRevisions \in Nat /\ MaxVersion \in Nat
    /\ Versions \subseteq Nat /\ Writers = Workers \cup {Site}
BY NoneAssumption, BoundAssumption DEF Versions, Writers

\* The parts of the type invariant.
LEMMA Types ==
    ASSUME TypeOK
    PROVE  /\ op \in [Ops -> Rows] /\ worker \in [Workers -> WorkerStates]
           /\ version \in Nat /\ version <= MaxVersion /\ pointer \in Pointers \cup {None}
           /\ receipts \in [Versions -> Pointers \cup {None}]
           /\ basis \in [Writers -> Leases \cup {None}] /\ holders \in SUBSET Writers
           /\ drawn \in Nat /\ drawn <= MaxRevisions /\ landed \in SUBSET Commits
BY Constants DEF TypeOK, Rows, WorkerStates

\* What a row and a consumer hold, field by field.
LEMMA RowFields ==
    ASSUME NEW r \in Rows
    PROVE  /\ r.state \in States /\ r.attempts \in 0..MaxClaims /\ r.token \in 0..MaxClaims
           /\ r.lapsed \in BOOLEAN /\ r.prepared \in Prepared \cup {None}
           /\ r.receipt \in Prepared \cup {None}
BY DEF Rows

(* The locals of a consumer. *)
LEMMA WorkerFields ==
    ASSUME NEW s \in WorkerStates
    PROVE  /\ s.pc \in Owning \cup {"idle"} /\ s.op \in Ops \cup {None}
           /\ s.token \in 0..MaxClaims /\ s.attempts \in 0..MaxClaims
           /\ s.prepared \in Prepared \cup {None} /\ s.lease \in Leases \cup {None}
           /\ s.next \in Pointers \cup {None} /\ s.job \in BOOLEAN
BY DEF WorkerStates

(* An idle consumer and a missing row. *)
LEMMA IdleTyped ==
    IdleWorker \in WorkerStates /\ IdleWorker.pc = "idle" /\ Absent \in Rows
BY Constants DEF IdleWorker, WorkerStates, Absent, Rows, States

\* The current value is something a lease can be granted on.
LEMMA CurrentTyped ==
    ASSUME TypeOK
    PROVE  /\ History!Current \in Leases /\ History!Current # None
           /\ History!Current.version = version /\ History!Current.pointer = pointer
BY Types, Constants DEF History!Current, Leases

\* A new revision that was drawn.
LEMMA DrawTyped ==
    ASSUME TypeOK, drawn < MaxRevisions, NEW author \in Ops \cup {Site}, NEW imports \in SUBSET Ops
    PROVE  /\ Draw(author, imports) \in Pointers /\ Draw(author, imports).author = author
           /\ Draw(author, imports).imports = imports
BY Types, Constants DEF Draw, Pointers

-----------------------------------------------------------------------------
(***************************************************************************)
(* What a step leaves true.                                                *)
(***************************************************************************)

\* What the invariant says of one consumer.
LEMMA WorkerIs ==
    ASSUME IndInv, NEW w \in Workers
    PROVE  /\ worker[w] \in WorkerStates /\ Holds(w, worker[w]) /\ Latest(worker[w])
           /\ worker[w].token \in Nat /\ TypeOK /\ w \in Writers
           /\ worker[w].pc # "idle" =>
                /\ worker[w].op \in Ops /\ op[worker[w].op] \in Rows
                /\ op[worker[w].op].attempts \in Nat /\ worker[w].token <= op[worker[w].op].attempts
                /\ RowAgrees(worker[w].op, op[worker[w].op])
<1>1. /\ worker[w] \in WorkerStates /\ Holds(w, worker[w]) /\ Latest(worker[w]) /\ TypeOK
      /\ w \in Writers /\ worker[w].token \in Nat
  BY Types, WorkerFields, Constants DEF IndInv
<1>2. ASSUME worker[w].pc # "idle"
      PROVE  /\ worker[w].op \in Ops /\ op[worker[w].op] \in Rows
             /\ op[worker[w].op].attempts \in Nat /\ worker[w].token <= op[worker[w].op].attempts
             /\ RowAgrees(worker[w].op, op[worker[w].op])
  <2>1. worker[w].op \in Ops /\ worker[w].token <= op[worker[w].op].attempts
    BY <1>1, <1>2 DEF Holds
  <2>2. op[worker[w].op] \in Rows
    BY <1>1, <2>1, Types
  <2>3. op[worker[w].op].attempts \in Nat
    BY <2>2, RowFields, Constants
  <2> QED BY <2>1, <2>2, <2>3 DEF IndInv
<1> QED BY <1>1, <1>2

\* No commit of an operation is added to the history.
NoneAdded(o) ==
    \A v \in Versions : receipts'[v] # None /\ receipts'[v].author = o => CommittedBy(o, v)

\* A step that neither takes nor gives a lease of u, and leaves alone what u may have prepared,
\* and what it imports if nobody has claimed its operation since.
Undisturbed(u) ==
    /\ basis'[u] = basis[u]
    /\ u \in holders' => u \in holders
    /\ landed \subseteq landed'
    /\ worker[u].pc # "idle" =>
        LET o == worker[u].op IN
        /\ op'[o].attempts >= op[o].attempts
        /\ op'[o].attempts \in Nat
        /\ worker[u].pc \in Committing /\ u \in holders' => op'[o].prepared = op[o].prepared
        /\ worker[u].token = op'[o].attempts =>
            op'[o].prepared = op[o].prepared /\ (worker[u].pc \in Leased => NoneAdded(o))

\* It may rely on the same as before.
LEMMA UndisturbedHolds ==
    ASSUME IndInv, NEW u \in Workers, Undisturbed(u), worker'[u] = worker[u]
    PROVE  Holds(u, worker[u])' /\ Latest(worker[u])'
<1>1. PICK s : s = worker[u]
  OBVIOUS
<1>2. /\ s \in WorkerStates /\ Holds(u, s) /\ Latest(s) /\ s.token \in Nat
      /\ s.pc # "idle" => s.op \in Ops /\ op[s.op].attempts \in Nat /\ s.token <= op[s.op].attempts
  BY <1>1, WorkerIs DEF Holds, Latest
<1>3. /\ basis'[u] = basis[u] /\ (u \in holders' => u \in holders) /\ landed \subseteq landed'
      /\ s.pc # "idle" =>
            /\ op'[s.op].attempts >= op[s.op].attempts /\ op'[s.op].attempts \in Nat
            /\ s.pc \in Committing /\ u \in holders' => op'[s.op].prepared = op[s.op].prepared
            /\ s.token = op'[s.op].attempts =>
                  op'[s.op].prepared = op[s.op].prepared /\ (s.pc \in Leased => NoneAdded(s.op))
  BY <1>1 DEF Undisturbed
<1>4. Holds(u, s)'
  <2>1. s.pc # "idle" => s.op \in Ops /\ s.token >= 1 /\ s.token <= op'[s.op].attempts
    BY <1>2, <1>3 DEF Holds
  <2>2. s.pc \in Leased => s.lease # None /\ basis'[u] \in {s.lease, None}
    BY <1>2, <1>3 DEF Holds
  <2>3. s.pc \in Committing /\ u \in holders' =>
          op'[s.op].prepared = [version |-> s.lease.version + 1, pointer |-> s.next, job |-> s.job]
    BY <1>2, <1>3 DEF Holds, Committing
  <2> QED BY <1>2, <2>1, <2>2, <2>3 DEF Holds
<1>5. Latest(s)'
  <2> SUFFICES ASSUME s.pc # "idle", s.token = op'[s.op].attempts
               PROVE  /\ s.pc \in Imported => \A v \in Versions : ~CommittedBy(s.op, v)'
                      /\ s.pc \in {"booting", "import"} => \A v \in Versions : CommittedBy(s.op, v)' =>
                            s.lease.pointer # None /\ s.op \in s.lease.pointer.imports
                      /\ s.pc = "check" => s.prepared # None /\ s.prepared = op'[s.op].prepared
                      /\ s.pc \in {"record", "reread"} => op'[s.op].prepared # None /\ Landed(op[s.op].prepared)'
                      /\ s.pc = "complete" => s.prepared # None /\ Landed(s.prepared)' /\ s.prepared.pointer.author = s.op
    BY DEF Latest
  <2>1. s.token = op[s.op].attempts
    BY <1>2, <1>3
  <2>2. op'[s.op].prepared = op[s.op].prepared /\ (s.pc \in Leased => NoneAdded(s.op))
    BY <1>3
  <2>3. \A r : Landed(r) => Landed(r)'
    BY <1>3 DEF Landed
  <2>4. /\ s.pc \in Imported => \A v \in Versions : ~CommittedBy(s.op, v)'
        /\ s.pc \in {"booting", "import"} => \A v \in Versions : CommittedBy(s.op, v)' =>
              s.lease.pointer # None /\ s.op \in s.lease.pointer.imports
    BY <1>2, <2>1, <2>2 DEF Latest, NoneAdded, Leased, Imported, CommittedBy
  <2>5. /\ s.pc = "check" => s.prepared # None /\ s.prepared = op'[s.op].prepared
        /\ s.pc \in {"record", "reread"} => op'[s.op].prepared # None /\ Landed(op[s.op].prepared)'
        /\ s.pc = "complete" => s.prepared # None /\ Landed(s.prepared)' /\ s.prepared.pointer.author = s.op
    <3>1. Landed(op[s.op].prepared) => Landed(op[s.op].prepared)'
      BY <2>2, <1>3 DEF Landed
    <3> QED BY <1>2, <2>1, <2>2, <2>3, <3>1 DEF Latest
  <2> QED BY <2>4, <2>5
<1> QED BY <1>1, <1>4, <1>5 DEF Holds, Latest, Landed

\* A consumer goes on with its claim, without a new lease or a newly prepared commit, or is done.
Follows(t, s) ==
    t.pc # "idle" =>
        /\ s.pc # "idle" /\ t.op = s.op /\ t.token = s.token
        /\ t.pc \in Leased => s.pc \in Leased
        /\ t.pc \in Committing => s.pc \in Committing

\* Then its claim remains apart from the others'.
LEMMA ApartStays ==
    ASSUME IndInv, \A u \in Workers : Follows(worker'[u], worker[u]),
           \A u \in Workers : u \in holders' => u \in holders \/ worker'[u].pc \notin Committing
    PROVE  \A w, u \in Workers : w # u => Apart(w, worker[w], worker[u])'
<1> SUFFICES ASSUME NEW w \in Workers, NEW u \in Workers, w # u
             PROVE  Apart(w, worker[w], worker[u])'
  OBVIOUS
<1>1. Apart(w, worker[w], worker[u]) /\ Follows(worker'[w], worker[w]) /\ Follows(worker'[u], worker[u])
  BY DEF IndInv
<1>2. w \in holders' => w \in holders \/ worker'[w].pc \notin Committing
  OBVIOUS
<1> QED BY <1>1, <1>2 DEF Apart, Follows

\* The operations' rows still name what they prepared, and the history is what it was.
LEMMA HistoryStays ==
    ASSUME IndInv, UNCHANGED <<pointer, receipts>>, landed \subseteq landed',
           \A o \in Ops : op'[o].prepared = op[o].prepared \/ \A v \in Versions : ~CommittedBy(o, v)
    PROVE  HistoryKept' /\ CommitIsNamed' /\ ImportedOnce'
<1>1. \A o \in Ops, v \in Versions : CommittedBy(o, v)' <=> CommittedBy(o, v)
  BY DEF CommittedBy
<1>2. HistoryKept'
  BY DEF IndInv, HistoryKept
<1>3. CommitIsNamed'
  BY <1>1 DEF IndInv, CommitIsNamed
<1>4. ImportedOnce'
  BY <1>1 DEF IndInv, ImportedOnce
<1> QED BY <1>2, <1>3, <1>4

\* A row of an operation that a step changes: the claim stays within its count, and a receipt
\* is written once.
LEMMA RowsStay ==
    ASSUME IndInv, NEW o \in Ops, NEW r \in Rows, op' = [op EXCEPT ![o] = r],
           RowAgrees(o, r)', landed \subseteq landed'
    PROVE  op' \in [Ops -> Rows] /\ \A p \in Ops : RowAgrees(p, op[p])'
<1>1. op \in [Ops -> Rows]
  BY Types DEF IndInv
<1>2. op' \in [Ops -> Rows] /\ op'[o] = r /\ \A p \in Ops \ {o} : op'[p] = op[p]
  BY <1>1
<1>3. ASSUME NEW p \in Ops \ {o} PROVE RowAgrees(p, op[p])'
  BY <1>2, <1>3 DEF IndInv, RowAgrees, Landed
<1>4. RowAgrees(o, op[o])'
  BY <1>2 DEF RowAgrees, Landed
<1> QED BY <1>2, <1>3, <1>4

\* No operation's row changes.
LEMMA SameRows ==
    ASSUME IndInv, op' = op, landed \subseteq landed'
    PROVE  op' \in [Ops -> Rows] /\ \A p \in Ops : RowAgrees(p, op[p])'
BY Types DEF IndInv, RowAgrees, Landed

-----------------------------------------------------------------------------
(***************************************************************************)
(* A consumer goes on: it moves, and no one else does.                     *)
(***************************************************************************)

\* w goes on to the state s.  It may give its lease back.
GoesOn(w, s) ==
    /\ worker' = [worker EXCEPT ![w] = s]
    /\ Follows(s, worker[w])
    /\ Holds(w, s)' /\ Latest(s)'
    /\ History!Forget(w) \/ UNCHANGED coordinator
    /\ \A o \in Ops : op'[o].attempts = op[o].attempts /\ op'[o].prepared = op[o].prepared
    /\ drawn' \in Nat /\ drawn' <= MaxRevisions /\ landed' = landed

(* A consumer that goes on with what it knows keeps the invariant. *)
LEMMA GoesOnStep ==
    ASSUME IndInv, NEW w \in Workers, NEW s \in WorkerStates, GoesOn(w, s),
           op' \in [Ops -> Rows], \A o \in Ops : RowAgrees(o, op[o])'
    PROVE  IndInv'
<1>1. TypeOK /\ worker \in [Workers -> WorkerStates] /\ op \in [Ops -> Rows] /\ w \in Writers
  BY Types, Constants DEF IndInv
<1>2. worker' \in [Workers -> WorkerStates] /\ worker'[w] = s /\ \A u \in Workers \ {w} : worker'[u] = worker[u]
  BY <1>1 DEF GoesOn
<1>3. /\ UNCHANGED <<version, pointer, receipts>> /\ holders' \in SUBSET holders
      /\ basis' \in [Writers -> Leases \cup {None}]
      /\ \A u \in Workers \ {w} : basis'[u] = basis[u]
  BY <1>1, Types, Constants DEF GoesOn, History!Forget, coordinator
<1>4. TypeOK'
  <2>1. drawn' \in 0..MaxRevisions /\ landed' = landed
    BY Constants DEF GoesOn
  <2>2. holders' \in SUBSET Writers
    BY <1>1, <1>3, Types
  <2> QED BY <1>1, <1>2, <1>3, <2>1, <2>2 DEF TypeOK, Rows, WorkerStates
<1>5. ASSUME NEW u \in Workers PROVE Holds(u, worker[u])' /\ Latest(worker[u])'
  <2>1. CASE u = w
    BY <1>2, <2>1 DEF GoesOn, Holds, Latest, Landed
  <2>2. CASE u # w
    <3>1. worker'[u] = worker[u] /\ basis'[u] = basis[u] /\ (u \in holders' => u \in holders)
      BY <1>2, <1>3, <2>2
    <3>2. worker[u].pc # "idle" => /\ worker[u].op \in Ops
                                   /\ op[worker[u].op].attempts \in Nat
      BY WorkerIs
    <3>3. NoneAdded(worker[u].op)
      BY <1>3 DEF NoneAdded, CommittedBy
    <3>4. Undisturbed(u)
      BY <3>1, <3>2, <3>3 DEF Undisturbed, GoesOn
    <3> QED BY <3>1, <3>4, UndisturbedHolds
  <2> QED BY <2>1, <2>2
<1>6. \A u \in Workers : Follows(worker'[u], worker[u])
  BY <1>2 DEF GoesOn, Follows
<1>7. \A x, u \in Workers : x # u => Apart(x, worker[x], worker[u])'
  BY <1>3, <1>6, ApartStays
<1>8. HistoryKept' /\ CommitIsNamed' /\ ImportedOnce'
  BY <1>3, HistoryStays DEF GoesOn
<1> QED BY <1>4, <1>5, <1>7, <1>8 DEF IndInv

\* A consumer moves, and keeps what it has.
Keeps(t, s) ==
    /\ t.op = s.op /\ t.token = s.token /\ t.prepared = s.prepared /\ t.lease = s.lease
    /\ t.next = s.next /\ t.job = s.job

(* A consumer that only moves on keeps what it knows. *)
LEMMA PcTyped ==
    ASSUME NEW s \in WorkerStates, NEW pc \in Owning \cup {"idle"}
    PROVE  LET t == [s EXCEPT !.pc = pc] IN t \in WorkerStates /\ t.pc = pc /\ Keeps(t, s)
BY DEF WorkerStates, Keeps

\* Where nothing is expected of a consumer but its claim.
Bare == {"idle", "claimed", "start", "acquire", "retrying", "failing"}

(* A consumer that relies on nothing holds what it must. *)
LEMMA BareHolds ==
    ASSUME IndInv, NEW w \in Workers, NEW s, s.pc \in Bare, Follows(s, worker[w]),
           \A o \in Ops : op'[o].attempts = op[o].attempts
    PROVE  Holds(w, s)' /\ Latest(s)'
<1>1. s.pc # "idle" => s.op \in Ops /\ s.token >= 1 /\ s.token <= op'[s.op].attempts
  <2>1. Holds(w, worker[w])
    BY WorkerIs
  <2>2. s.pc # "idle" => worker[w].pc # "idle" /\ s.op = worker[w].op /\ s.token = worker[w].token
    BY DEF Follows
  <2>3. s.pc # "idle" => s.op \in Ops /\ s.token >= 1 /\ s.token <= op[s.op].attempts
    BY <2>1, <2>2 DEF Holds
  <2> QED BY <2>3
<1>2. /\ s.pc \notin Leased /\ s.pc \notin Imported /\ s.pc \notin Committing
      /\ s.pc \notin {"booting", "import"} /\ s.pc # "check" /\ s.pc \notin {"record", "reread"}
      /\ s.pc # "complete"
  BY DEF Bare, Leased, Imported, Committing
<1>3. Holds(w, s)'
  BY <1>1, <1>2 DEF Holds
<1>4. Latest(s)'
  BY <1>2 DEF Latest
<1> QED BY <1>3, <1>4

\* A consumer that is done, whatever became of the operation's row.
LEMMA LeaveStep ==
    ASSUME IndInv, NEW w \in Workers, Leave(w), op' \in [Ops -> Rows],
           \A o \in Ops : RowAgrees(o, op[o])',
           \A o \in Ops : op'[o].attempts = op[o].attempts /\ op'[o].prepared = op[o].prepared,
           History!Forget(w) \/ UNCHANGED coordinator, UNCHANGED <<drawn, landed>>
    PROVE  IndInv'
<1>1. IdleWorker \in WorkerStates /\ Follows(IdleWorker, worker[w]) /\ IdleWorker.pc \in Bare
  BY IdleTyped DEF Follows, Bare
<1>2. Holds(w, IdleWorker)' /\ Latest(IdleWorker)'
  BY <1>1, BareHolds
<1>3. GoesOn(w, IdleWorker)
  BY <1>1, <1>2, Types DEF GoesOn, Leave, IndInv
<1> QED BY <1>1, <1>3, GoesOnStep

(* A consumer that is evicted leaves its row as it is. *)
LEMMA VanishStep ==
    ASSUME IndInv, NEW w \in Workers, Vanish(w)
    PROVE  IndInv'
<1>1. Leave(w) /\ op' = op /\ History!Forget(w) /\ UNCHANGED <<drawn, landed>>
  BY DEF Vanish
<1>2. op' \in [Ops -> Rows] /\ \A o \in Ops : RowAgrees(o, op[o])'
  BY <1>1, SameRows
<1> QED BY <1>1, <1>2, LeaveStep

\* A consumer moves on, and the row stays.
LEMMA MoveStep ==
    ASSUME IndInv, NEW w \in Workers, NEW s \in WorkerStates, GoesOn(w, s), op' = op
    PROVE  IndInv'
<1>1. op' \in [Ops -> Rows] /\ \A o \in Ops : RowAgrees(o, op[o])'
  BY SameRows DEF GoesOn
<1> QED BY <1>1, GoesOnStep

\* An error leads a consumer to where nothing is expected of it but its claim.
LEMMA ErrorStep ==
    ASSUME IndInv, NEW w \in Workers, NEW pc \in {"retrying", "failing"}, worker[w].pc # "idle",
           worker' = [worker EXCEPT ![w].pc = pc], History!Forget(w) \/ UNCHANGED coordinator,
           UNCHANGED <<op, drawn, landed>>
    PROVE  IndInv'
<1>1. worker[w] \in WorkerStates /\ pc \in Owning
  BY WorkerIs DEF Owning
<1>2. PICK s \in WorkerStates : s = [worker[w] EXCEPT !.pc = pc] /\ s.pc = pc /\ Keeps(s, worker[w])
  BY <1>1, PcTyped
<1>3. worker' = [worker EXCEPT ![w] = s]
  BY <1>2
<1>4. Follows(s, worker[w]) /\ s.pc \in Bare
  BY <1>2 DEF Follows, Keeps, Bare, Leased, Committing
<1>5. Holds(w, s)' /\ Latest(s)'
  BY <1>4, BareHolds
<1>6. GoesOn(w, s)
  BY <1>3, <1>4, <1>5, Types DEF GoesOn, IndInv
<1> QED BY <1>6, MoveStep

(* An error or a refused input takes a consumer to its catch block. *)
LEMMA TroubleStep ==
    ASSUME IndInv, NEW w \in Workers, NotImported(w) \/ Trouble(w) \/ BadInput(w)
    PROVE  IndInv'
<1>1. AfterError(w) \in {"retrying", "failing"}
  BY DEF AfterError
<1>2. \E pc \in {"retrying", "failing"} : worker' = [worker EXCEPT ![w].pc = pc]
  BY <1>1 DEF NotImported, Trouble, BadInput
<1>3. worker[w].pc # "idle" /\ (History!Forget(w) \/ UNCHANGED coordinator) /\ UNCHANGED <<op, drawn, landed>>
  BY DEF NotImported, Trouble, BadInput, Owning, Beats
<1> QED BY <1>2, <1>3, ErrorStep

\* The row is read after it was claimed: unless it is claimed again, it stays as it was read.
LEMMA ReadClaimStep ==
    ASSUME IndInv, NEW w \in Workers, ReadClaim(w)
    PROVE  IndInv'
<1> DEFINE row == op[worker[w].op]
           pc == IF row.prepared = None THEN "start" ELSE "check"
<1>1. /\ worker[w].pc = "claimed" /\ UNCHANGED <<op, coordinator, drawn, landed>>
      /\ worker' = [worker EXCEPT ![w] = [@ EXCEPT !.attempts = row.attempts, !.prepared = row.prepared,
                                                    !.pc = pc]]
  BY DEF ReadClaim
<1>2. /\ worker[w] \in WorkerStates /\ Holds(w, worker[w]) /\ row.attempts \in 0..MaxClaims
      /\ row.prepared \in Prepared \cup {None} /\ pc \in Owning
  BY <1>1, WorkerIs, RowFields DEF Owning, Beats
<1>3. PICK s : s = [worker[w] EXCEPT !.attempts = row.attempts, !.prepared = row.prepared, !.pc = pc]
  OBVIOUS
<1>4. /\ s \in WorkerStates /\ s.op = worker[w].op /\ s.token = worker[w].token
      /\ s.prepared = row.prepared /\ s.pc = pc
  <2> HIDE DEF row, pc
  <2> QED BY <1>2, <1>3 DEF WorkerStates
<1>5. worker' = [worker EXCEPT ![w] = s]
  BY <1>1, <1>3
<1>6. Follows(s, worker[w])
  BY <1>1, <1>4 DEF Follows, Leased, Committing
<1>7. Holds(w, s)' /\ Latest(s)'
  <2>1. CASE s.pc = "start"
    BY <1>1, <1>6, <2>1, BareHolds DEF Bare
  <2>2. CASE s.pc = "check"
    <3>1. s.prepared # None /\ s.prepared = op'[s.op].prepared
      BY <1>1, <1>4, <2>2
    <3>2. s.op \in Ops /\ s.token >= 1 /\ s.token <= op'[s.op].attempts
      BY <1>1, <1>2, <1>4 DEF Holds
    <3> QED BY <2>2, <3>1, <3>2 DEF Holds, Latest, Leased, Imported, Committing
  <2> QED BY <1>4, <2>1, <2>2
<1>8. GoesOn(w, s)
  BY <1>1, <1>5, <1>6, <1>7, Types DEF GoesOn, IndInv
<1> QED BY <1>1, <1>4, <1>8, MoveStep

\* The recovery of a prepared commit: its receipt is in the history, so it was applied.
LEMMA CheckReceiptStep ==
    ASSUME IndInv, NEW w \in Workers, CheckReceipt(w)
    PROVE  IndInv'
<1> DEFINE pc == IF shouldRecoverPreparedCommit(worker[w].prepared) THEN "reread" ELSE "start"
<1>1. /\ worker[w].pc = "check" /\ UNCHANGED <<op, coordinator, drawn, landed>>
      /\ worker' = [worker EXCEPT ![w].pc = pc]
  BY DEF CheckReceipt
<1>2. worker[w] \in WorkerStates /\ Holds(w, worker[w]) /\ Latest(worker[w]) /\ pc \in Owning
  BY WorkerIs DEF Owning, Beats
<1>3. PICK s \in WorkerStates : s = [worker[w] EXCEPT !.pc = pc] /\ s.pc = pc /\ Keeps(s, worker[w])
  <2> HIDE DEF pc
  <2> QED BY <1>2, PcTyped
<1>4. worker' = [worker EXCEPT ![w] = s]
  BY <1>1, <1>3
<1>5. Follows(s, worker[w])
  BY <1>1, <1>3 DEF Follows, Keeps, Leased, Committing
<1>6. Holds(w, s)' /\ Latest(s)'
  <2>1. CASE s.pc = "start"
    BY <1>1, <1>5, <2>1, BareHolds DEF Bare
  <2>2. CASE s.pc = "reread"
    <3>1. s.op \in Ops /\ s.token >= 1 /\ s.token <= op[s.op].attempts
      BY <1>1, <1>2, <1>3 DEF Holds, Keeps
    <3>2. receipts[s.prepared.version] = s.prepared.pointer
      BY <1>3, <2>2 DEF Keeps, shouldRecoverPreparedCommit
    <3>3. ASSUME s.token = op[s.op].attempts
          PROVE  op[s.op].prepared # None /\ Landed(op[s.op].prepared)
      <4>1. s.prepared # None /\ s.prepared = op[s.op].prepared
        BY <1>1, <1>2, <1>3, <3>3 DEF Latest, Keeps
      <4>2. s.prepared \in Prepared
        BY <1>3, <4>1, WorkerFields
      <4>3. s.prepared.version \in Versions /\ s.prepared.pointer # None
        BY <4>2, Constants DEF Prepared
      <4>4. Landed(s.prepared)
        BY <3>2, <4>3 DEF IndInv, HistoryKept, Landed
      <4> QED BY <4>1, <4>4
    <3> QED BY <1>1, <2>2, <3>1, <3>3 DEF Holds, Latest, Leased, Imported, Committing, Landed
  <2> QED BY <1>3, <2>1, <2>2
<1>7. GoesOn(w, s)
  BY <1>1, <1>4, <1>5, <1>6, Types DEF GoesOn, IndInv
<1> QED BY <1>7, <1>1, MoveStep

\* The row a step of the claim's owner writes.
LEMMA SameClaims ==
    ASSUME IndInv, NEW o \in Ops, NEW r \in Rows, op' = [op EXCEPT ![o] = r],
           r.attempts = op[o].attempts, r.prepared = op[o].prepared
    PROVE  \A p \in Ops : op'[p].attempts = op[p].attempts /\ op'[p].prepared = op[p].prepared
BY Types DEF IndInv

(* A row whose claim lapses is otherwise the same. *)
LEMMA LapsedTyped ==
    ASSUME NEW r \in Rows, NEW lapsed \in BOOLEAN
    PROVE  LET t == [r EXCEPT !.lapsed = lapsed] IN
           /\ t \in Rows /\ t.state = r.state /\ t.attempts = r.attempts /\ t.token = r.token
           /\ t.prepared = r.prepared /\ t.receipt = r.receipt
BY DEF Rows

\* A consumer that moves within a phase relies on what it relied on.
LEMMA SamePhase ==
    ASSUME IndInv, NEW w \in Workers, NEW s, Keeps(s, worker[w]), UNCHANGED <<coordinator, landed>>,
           \A o \in Ops : op'[o].attempts = op[o].attempts /\ op'[o].prepared = op[o].prepared,
           worker[w].pc # "idle",
           s.pc \in {"booting", "import"} => worker[w].pc \in {"booting", "import"},
           s.pc \in Imported => worker[w].pc \in Imported,
           s.pc \in Committing => worker[w].pc \in Committing,
           s.pc \notin {"check", "record", "reread", "complete"}
    PROVE  Holds(w, s)' /\ Latest(s)'
<1>1. /\ Holds(w, worker[w]) /\ Latest(worker[w]) /\ s.op = worker[w].op /\ s.op \in Ops
      /\ s.token = worker[w].token
  BY WorkerIs DEF Keeps
<1>2. op'[s.op].attempts = op[s.op].attempts /\ op'[s.op].prepared = op[s.op].prepared
  BY <1>1
<1>3. s.pc \in Leased => worker[w].pc \in Leased
  BY DEF Leased, Imported
<1>4. Holds(w, s)'
  BY <1>1, <1>2, <1>3 DEF Holds, Keeps, coordinator
<1>5. Latest(s)'
  BY <1>1, <1>2 DEF Latest, Keeps, coordinator, CommittedBy
<1> QED BY <1>4, <1>5

(* A heartbeat extends the claim of its own token. *)
LEMMA HeartbeatStep ==
    ASSUME IndInv, NEW w \in Workers, Heartbeat(w)
    PROVE  IndInv'
<1> DEFINE o == worker[w].op
           pc == CASE worker[w].pc = "start" -> "acquire" [] worker[w].pc = "booting" -> "import"
                   [] worker[w].pc = "imported" -> "prepare" [] worker[w].pc = "committing" -> "commit"
<1>1. /\ worker[w].pc \in Beats /\ op' = [op EXCEPT ![o] = [op[o] EXCEPT !.lapsed = FALSE]]
      /\ worker' = [worker EXCEPT ![w].pc = pc] /\ UNCHANGED <<coordinator, drawn, landed>>
  BY DEF Heartbeat, Update
<1>2. worker[w].pc # "idle" /\ pc \in Owning
  BY <1>1 DEF Beats, Owning
<1>3. /\ worker[w] \in WorkerStates /\ o \in Ops /\ op[o] \in Rows /\ RowAgrees(o, op[o])
  BY <1>2, WorkerIs
<1>4. PICK s \in WorkerStates : s = [worker[w] EXCEPT !.pc = pc] /\ s.pc = pc /\ Keeps(s, worker[w])
  <2>1. worker[w] \in WorkerStates /\ pc \in Owning
    BY <1>2, <1>3
  <2> HIDE DEF pc, o
  <2> QED BY <2>1, PcTyped
<1>5. PICK r \in Rows : /\ r = [op[o] EXCEPT !.lapsed = FALSE] /\ r.state = op[o].state
                        /\ r.attempts = op[o].attempts /\ r.token = op[o].token
                        /\ r.prepared = op[o].prepared /\ r.receipt = op[o].receipt
  BY <1>3, LapsedTyped
<1>6. PICK q \in Ops : q = o
  BY <1>3
<1>7. op' = [op EXCEPT ![q] = r] /\ worker' = [worker EXCEPT ![w] = s]
  BY <1>1, <1>4, <1>5, <1>6
<1>8. RowAgrees(q, r)'
  BY <1>1, <1>3, <1>5, <1>6 DEF RowAgrees, Landed
<1>9. \A p \in Ops : op'[p].attempts = op[p].attempts /\ op'[p].prepared = op[p].prepared
  <2> HIDE DEF o
  <2> QED BY <1>5, <1>6, <1>7, SameClaims
<1>10. Follows(s, worker[w])
  BY <1>1, <1>2, <1>4 DEF Follows, Keeps, Leased, Committing, Beats
<1>11. Holds(w, s)' /\ Latest(s)'
  <2>1. /\ s.pc \in {"booting", "import"} => worker[w].pc \in {"booting", "import"}
        /\ s.pc \in Imported => worker[w].pc \in Imported
        /\ s.pc \in Committing => worker[w].pc \in Committing
        /\ s.pc \notin {"check", "record", "reread", "complete"}
    BY <1>1, <1>4 DEF Beats, Imported, Committing
  <2> HIDE DEF pc, o
  <2> QED BY <1>1, <1>2, <1>4, <1>9, <2>1, SamePhase
<1>12. GoesOn(w, s)
  BY <1>1, <1>7, <1>9, <1>10, <1>11, Types DEF GoesOn, IndInv
<1>13. op' \in [Ops -> Rows] /\ \A p \in Ops : RowAgrees(p, op[p])'
  BY <1>1, <1>7, <1>8, RowsStay
<1> QED BY <1>12, <1>13, GoesOnStep

\* What the importer did not find in the revision it booted is not in the history.
LEMMA ImportStep ==
    ASSUME IndInv, NEW w \in Workers, Import(w)
    PROVE  IndInv'
<1> DEFINE key == worker[w].op
           imports == worker[w].lease.pointer.imports
           next == Draw(key, imports \cup {key})
<1>1. PICK job \in BOOLEAN : worker' = [worker EXCEPT ![w].pc = "imported", ![w].job = job, ![w].next = next]
  BY DEF Import
<1>2. /\ worker[w].pc = "import" /\ worker[w].lease.pointer # None /\ key \notin imports
      /\ drawn < MaxRevisions /\ drawn' = drawn + 1 /\ UNCHANGED <<op, coordinator, landed>>
  BY DEF Import, Duplicate
<1>3. /\ worker[w] \in WorkerStates /\ Holds(w, worker[w]) /\ Latest(worker[w]) /\ key \in Ops /\ TypeOK
  BY <1>2, WorkerIs
<1>4. imports \subseteq Ops
  <2>1. worker[w].lease \in Leases
    BY <1>2, <1>3, WorkerFields DEF Holds, Leased
  <2> QED BY <1>2, <2>1 DEF Leases, Pointers
<1>5. next \in Pointers /\ next.author = key /\ next.imports = imports \cup {key} /\ next # None
  <2> HIDE DEF key, imports
  <2> QED BY <1>2, <1>3, <1>4, DrawTyped, Constants
<1>6. PICK s : s = [worker[w] EXCEPT !.pc = "imported", !.job = job, !.next = next]
  OBVIOUS
<1>7. /\ s \in WorkerStates /\ s.op = key /\ s.token = worker[w].token /\ s.lease = worker[w].lease
      /\ s.next = next /\ s.pc = "imported"
  <2> HIDE DEF next
  <2>1. "imported" \in Owning
    BY DEF Owning, Beats
  <2> QED BY <1>3, <1>5, <1>6, <2>1 DEF WorkerStates
<1>8. worker' = [worker EXCEPT ![w] = s]
  <2> HIDE DEF next
  <2> QED BY <1>1, <1>6
<1>9. Follows(s, worker[w])
  BY <1>2, <1>7 DEF Follows, Leased, Committing
<1>10. Holds(w, s)'
  <2>1. s.op \in Ops /\ s.token >= 1 /\ s.token <= op[s.op].attempts
    BY <1>2, <1>3, <1>7 DEF Holds
  <2>2. s.lease # None /\ basis[w] \in {s.lease, None}
    BY <1>2, <1>3, <1>7 DEF Holds, Leased
  <2>3. /\ s.next # None /\ s.next.author = s.op
        /\ s.lease.pointer # None /\ s.op \notin s.lease.pointer.imports
        /\ s.next.imports = s.lease.pointer.imports \cup {s.op}
    <3> HIDE DEF next
    <3> QED BY <1>2, <1>5, <1>7
  <2> QED BY <1>2, <1>7, <2>1, <2>2, <2>3 DEF Holds, Committing, coordinator
<1>11. Latest(s)'
  <2>1. s.token = op[s.op].attempts => \A v \in Versions : ~CommittedBy(s.op, v)
    BY <1>2, <1>3, <1>7 DEF Latest
  <2> QED BY <1>2, <1>7, <2>1 DEF Latest, CommittedBy, coordinator
<1>12. GoesOn(w, s)
  BY <1>2, <1>3, <1>8, <1>9, <1>10, <1>11, Types, Constants DEF GoesOn
<1> QED BY <1>2, <1>7, <1>12, MoveStep

(* The record of a commit changes the stage only. *)
LEMMA RecordCommitStep ==
    ASSUME IndInv, NEW w \in Workers, RecordCommit(w)
    PROVE  IndInv'
<1>1. /\ worker[w].pc = "record" /\ op' = [op EXCEPT ![worker[w].op] = op[worker[w].op]]
      /\ worker' = [worker EXCEPT ![w].pc = "reread"] /\ UNCHANGED <<coordinator, drawn, landed>>
  BY DEF RecordCommit, Update
<1>2. /\ worker[w] \in WorkerStates /\ Holds(w, worker[w]) /\ Latest(worker[w]) /\ worker[w].op \in Ops
      /\ op \in [Ops -> Rows]
  BY <1>1, WorkerIs, Types
<1>3. op' = op
  BY <1>1, <1>2
<1>4. PICK s \in WorkerStates : s = [worker[w] EXCEPT !.pc = "reread"] /\ s.pc = "reread" /\ Keeps(s, worker[w])
  <2>1. "reread" \in Owning
    BY DEF Owning
  <2> QED BY <1>2, <2>1, PcTyped
<1>5. worker' = [worker EXCEPT ![w] = s]
  BY <1>1, <1>4
<1>6. Follows(s, worker[w])
  BY <1>1, <1>4 DEF Follows, Keeps, Leased, Committing
<1>7. Holds(w, s)'
  BY <1>1, <1>2, <1>3, <1>4 DEF Holds, Keeps, Leased, Imported, Committing
<1>8. Latest(s)'
  BY <1>1, <1>2, <1>3, <1>4 DEF Latest, Keeps, Imported, Landed
<1>9. GoesOn(w, s)
  BY <1>1, <1>3, <1>5, <1>6, <1>7, <1>8, Types DEF GoesOn, IndInv
<1> QED BY <1>3, <1>9, MoveStep

(* A consumer that takes over reads what an earlier attempt prepared. *)
LEMMA ReadPreparedStep ==
    ASSUME IndInv, NEW w \in Workers, ReadPrepared(w)
    PROVE  IndInv'
<1> DEFINE prepared == op[worker[w].op].prepared
<1>1. /\ worker[w].pc = "reread" /\ prepared # None
      /\ worker' = [worker EXCEPT ![w].pc = "complete", ![w].prepared = prepared]
      /\ UNCHANGED <<op, coordinator, drawn, landed>>
  BY DEF ReadPrepared
<1>2. /\ worker[w] \in WorkerStates /\ Holds(w, worker[w]) /\ Latest(worker[w]) /\ worker[w].op \in Ops
      /\ prepared \in Prepared /\ prepared.pointer.author = worker[w].op
  BY <1>1, WorkerIs, RowFields DEF RowAgrees
<1>3. PICK s : s = [worker[w] EXCEPT !.pc = "complete", !.prepared = prepared]
  OBVIOUS
<1>4. /\ s \in WorkerStates /\ s.op = worker[w].op /\ s.token = worker[w].token
      /\ s.prepared = prepared /\ s.pc = "complete"
  <2> HIDE DEF prepared
  <2>1. "complete" \in Owning
    BY DEF Owning
  <2> QED BY <1>2, <1>3, <2>1 DEF WorkerStates
<1>5. worker' = [worker EXCEPT ![w] = s]
  <2> HIDE DEF prepared
  <2> QED BY <1>1, <1>3
<1>6. Follows(s, worker[w])
  BY <1>1, <1>4 DEF Follows, Leased, Committing
<1>7. Holds(w, s)'
  BY <1>1, <1>2, <1>4 DEF Holds, Leased, Imported, Committing
<1>8. Latest(s)'
  <2>1. s.token = op[s.op].attempts => Landed(s.prepared)
    BY <1>1, <1>2, <1>4 DEF Latest
  <2> QED BY <1>1, <1>2, <1>4, <2>1 DEF Latest, Imported, Landed
<1>9. GoesOn(w, s)
  BY <1>1, <1>5, <1>6, <1>7, <1>8, Types DEF GoesOn, IndInv
<1> QED BY <1>1, <1>4, <1>9, MoveStep

-----------------------------------------------------------------------------
(***************************************************************************)
(* A claim ends, and the steps of the row alone.                           *)
(***************************************************************************)

\* The owner of a claim made the last attempt.
LEMMA OwnerIsLatest ==
    ASSUME IndInv, NEW w \in Workers, Owns(w), worker[w].pc # "idle"
    PROVE  worker[w].token = op[worker[w].op].attempts /\ op[worker[w].op].receipt = None
<1>1. RowAgrees(worker[w].op, op[worker[w].op])
  BY WorkerIs
<1> QED BY <1>1 DEF Owns, RowAgrees, Active

(* The row succeeds with the receipt of a commit that was made. *)
LEMMA CompleteStep ==
    ASSUME IndInv, NEW w \in Workers, Complete(w)
    PROVE  IndInv'
<1> DEFINE o == worker[w].op
           job == worker[w].job \/ worker[w].prepared.job
           state == IF job THEN "publication-pending" ELSE "succeeded"
           receipt == [worker[w].prepared EXCEPT !.job = job]
<1>1. /\ worker[w].pc = "complete" /\ Owns(w) /\ Leave(w) /\ UNCHANGED <<coordinator, drawn, landed>>
      /\ op' = [op EXCEPT ![o] = [@ EXCEPT !.state = state, !.token = 0, !.lapsed = FALSE, !.receipt = receipt]]
  BY DEF Complete
<1>2. /\ worker[w] \in WorkerStates /\ Latest(worker[w]) /\ o \in Ops /\ op[o] \in Rows
      /\ RowAgrees(o, op[o]) /\ worker[w].token = op[o].attempts
  BY <1>1, WorkerIs, OwnerIsLatest
<1>3. worker[w].prepared # None /\ Landed(worker[w].prepared) /\ worker[w].prepared.pointer.author = o
  BY <1>1, <1>2 DEF Latest
<1>4. worker[w].prepared \in Prepared /\ worker[w].job \in BOOLEAN
  BY <1>2, <1>3, WorkerFields
<1>5. job \in BOOLEAN
  OBVIOUS
<1>6. /\ receipt \in Prepared /\ receipt.version = worker[w].prepared.version
      /\ receipt.pointer = worker[w].prepared.pointer
  <2> HIDE DEF job
  <2> QED BY <1>4, <1>5 DEF Prepared
<1>7. state \in States \ (Active \cup {"absent", "running"})
  BY DEF States, Active, Terminal
<1>8. PICK r \in Rows : /\ r = [op[o] EXCEPT !.state = state, !.token = 0, !.lapsed = FALSE, !.receipt = receipt]
                        /\ r.state = state /\ r.attempts = op[o].attempts
                        /\ r.prepared = op[o].prepared /\ r.receipt = receipt
  <2>1. op[o] \in Rows /\ state \in States /\ receipt \in Prepared \cup {None}
    BY <1>2, <1>6, <1>7
  <2>2. 0 \in 0..MaxClaims /\ FALSE \in BOOLEAN
    BY Constants
  <2> HIDE DEF o, state, receipt
  <2>3. LET t == [op[o] EXCEPT !.state = state, !.token = 0, !.lapsed = FALSE, !.receipt = receipt] IN
        /\ t \in Rows /\ t.state = state /\ t.attempts = op[o].attempts
        /\ t.prepared = op[o].prepared /\ t.receipt = receipt
    BY <2>1, <2>2 DEF Rows
  <2> QED BY <2>3, Zenon
<1>9. PICK q \in Ops : q = o
  BY <1>2
<1>10. op' = [op EXCEPT ![q] = r]
  <2> HIDE DEF state, receipt
  <2> QED BY <1>1, <1>8, <1>9
<1>11. RowAgrees(q, r)'
  <2>1. r.state \notin Active \cup {"absent", "running"} /\ Landed(r.receipt) /\ r.receipt.pointer.author = o
    <3> HIDE DEF state, receipt
    <3> QED BY <1>3, <1>6, <1>7, <1>8 DEF Landed
  <2> HIDE DEF state, receipt
  <2> QED BY <1>1, <1>2, <1>8, <1>9, <2>1 DEF RowAgrees, Landed
<1>12. \A p \in Ops : op'[p].attempts = op[p].attempts /\ op'[p].prepared = op[p].prepared
  <2> HIDE DEF o, state, receipt
  <2> QED BY <1>8, <1>9, <1>10, SameClaims
<1>13. op' \in [Ops -> Rows] /\ \A p \in Ops : RowAgrees(p, op[p])'
  BY <1>1, <1>10, <1>11, RowsStay
<1> QED BY <1>1, <1>12, <1>13, LeaveStep

(* retry and fail give the claim back and keep the prepared commit. *)
LEMMA FinishStep ==
    ASSUME IndInv, NEW w \in Workers, Finish(w)
    PROVE  IndInv'
<1> DEFINE o == worker[w].op
           state == IF worker[w].pc = "failing" THEN "failed" ELSE "retryable"
<1>1. /\ worker[w].pc \in {"retrying", "failing"} /\ Owns(w) /\ Leave(w) /\ UNCHANGED <<coordinator, drawn, landed>>
      /\ op' = [op EXCEPT ![o] = [@ EXCEPT !.state = state, !.token = 0, !.lapsed = FALSE]]
  BY DEF Finish
<1>2. /\ o \in Ops /\ op[o] \in Rows /\ RowAgrees(o, op[o]) /\ op[o].receipt = None
  BY <1>1, WorkerIs, OwnerIsLatest
<1>3. state \in States \ {"running"}
  BY DEF States, Active, Terminal
<1>4. PICK r \in Rows : /\ r = [op[o] EXCEPT !.state = state, !.token = 0, !.lapsed = FALSE]
                        /\ r.state = state /\ r.attempts = op[o].attempts
                        /\ r.prepared = op[o].prepared /\ r.receipt = op[o].receipt
  <2>1. op[o] \in Rows /\ state \in States
    BY <1>2, <1>3
  <2>2. 0 \in 0..MaxClaims /\ FALSE \in BOOLEAN
    BY Constants
  <2> HIDE DEF o, state
  <2>3. LET t == [op[o] EXCEPT !.state = state, !.token = 0, !.lapsed = FALSE] IN
        /\ t \in Rows /\ t.state = state /\ t.attempts = op[o].attempts
        /\ t.prepared = op[o].prepared /\ t.receipt = op[o].receipt
    BY <2>1, <2>2 DEF Rows
  <2> QED BY <2>3, Zenon
<1>5. PICK q \in Ops : q = o
  BY <1>2
<1>6. op' = [op EXCEPT ![q] = r]
  <2> HIDE DEF state
  <2> QED BY <1>1, <1>4, <1>5
<1>7. RowAgrees(q, r)'
  <2> HIDE DEF state
  <2> QED BY <1>2, <1>3, <1>4, <1>5 DEF RowAgrees
<1>8. \A p \in Ops : op'[p].attempts = op[p].attempts /\ op'[p].prepared = op[p].prepared
  <2> HIDE DEF o, state
  <2> QED BY <1>4, <1>5, <1>6, SameClaims
<1>9. op' \in [Ops -> Rows] /\ \A p \in Ops : RowAgrees(p, op[p])'
  BY <1>1, <1>6, <1>7, RowsStay
<1> QED BY <1>1, <1>8, <1>9, LeaveStep

\* No consumer moves, and none is disturbed.
LEMMA StandsStep ==
    ASSUME IndInv, TypeOK', \A o \in Ops : RowAgrees(o, op[o])', HistoryKept', CommitIsNamed',
           ImportedOnce', worker' = worker, \A u \in Workers : Undisturbed(u)
    PROVE  IndInv'
<1>1. \A u \in Workers : Holds(u, worker[u])' /\ Latest(worker[u])'
  BY UndisturbedHolds
<1>2. \A u \in Workers : Follows(worker'[u], worker[u])
  BY DEF Follows
<1>3. \A u \in Workers : u \in holders' => u \in holders
  BY DEF Undisturbed
<1>4. \A w, u \in Workers : w # u => Apart(w, worker[w], worker[u])'
  BY <1>2, <1>3, ApartStays
<1> QED BY <1>1, <1>4 DEF IndInv

\* Only a row changes, and neither its claims nor what it prepared.
LEMMA RowStep ==
    ASSUME IndInv, NEW o \in Ops, NEW r \in Rows, op' = [op EXCEPT ![o] = r],
           r.attempts = op[o].attempts, r.prepared = op[o].prepared, RowAgrees(o, r)',
           UNCHANGED <<worker, coordinator, drawn, landed>>
    PROVE  IndInv'
<1>1. op' \in [Ops -> Rows] /\ \A p \in Ops : RowAgrees(p, op[p])'
  BY RowsStay
<1>2. \A p \in Ops : op'[p].attempts = op[p].attempts /\ op'[p].prepared = op[p].prepared
  BY SameClaims
<1>3. TypeOK'
  BY <1>1 DEF IndInv, TypeOK, Rows, coordinator
<1>4. HistoryKept' /\ CommitIsNamed' /\ ImportedOnce'
  BY <1>2, HistoryStays DEF coordinator
<1>5. ASSUME NEW u \in Workers PROVE Undisturbed(u)
  <2>1. worker[u].pc # "idle" => worker[u].op \in Ops /\ op[worker[u].op].attempts \in Nat
    BY WorkerIs
  <2>2. \A p : NoneAdded(p)
    BY DEF NoneAdded, CommittedBy, coordinator
  <2> QED BY <1>2, <2>1, <2>2 DEF Undisturbed, coordinator
<1> QED BY <1>1, <1>3, <1>4, <1>5, StandsStep

(* A row that is given another state is otherwise the same. *)
LEMMA StateTyped ==
    ASSUME NEW r \in Rows, NEW state \in States
    PROVE  LET t == [r EXCEPT !.state = state] IN
           /\ t \in Rows /\ t.state = state /\ t.attempts = r.attempts /\ t.token = r.token
           /\ t.prepared = r.prepared /\ t.receipt = r.receipt
BY DEF Rows

(* Creation, lapse and reconciliation of a row. *)
LEMMA RowSteps ==
    ASSUME IndInv, NEW o \in Ops, Create(o) \/ Lapse(o) \/ Reconcile(o)
    PROVE  IndInv'
<1>1. op[o] \in Rows /\ RowAgrees(o, op[o])
  BY Types DEF IndInv
<1>2. UNCHANGED <<worker, coordinator, drawn, landed>>
  BY DEF Create, Lapse, Reconcile
<1>3. \A row : RowAgrees(o, row) => RowAgrees(o, row)'
  BY <1>2 DEF RowAgrees, Landed
<1>4. CASE Lapse(o)
  <2>1. PICK r \in Rows : /\ r = [op[o] EXCEPT !.lapsed = TRUE] /\ r.state = op[o].state
                          /\ r.attempts = op[o].attempts /\ r.token = op[o].token
                          /\ r.prepared = op[o].prepared /\ r.receipt = op[o].receipt
    BY <1>1, LapsedTyped
  <2>2. op' = [op EXCEPT ![o] = r]
    BY <1>4, <2>1 DEF Lapse
  <2>3. RowAgrees(o, r)
    BY <1>1, <2>1 DEF RowAgrees
  <2> QED BY <1>2, <1>3, <2>1, <2>2, <2>3, RowStep
<1>5. CASE Create(o) \/ Reconcile(o)
  <2>1. PICK state \in States : /\ op' = [op EXCEPT ![o].state = state]
                                /\ \/ op[o].state = "absent" /\ state = "queued"
                                   \/ op[o].state = "publication-pending" /\ state \in Terminal
    <3>1. CASE Create(o)
      BY <3>1 DEF Create, States, Active
    <3>2. CASE Reconcile(o)
      BY <3>2 DEF Reconcile, States, Terminal
    <3> QED BY <1>5, <3>1, <3>2
  <2>2. PICK r \in Rows : /\ r = [op[o] EXCEPT !.state = state] /\ r.state = state
                          /\ r.attempts = op[o].attempts /\ r.token = op[o].token
                          /\ r.prepared = op[o].prepared /\ r.receipt = op[o].receipt
    BY <1>1, StateTyped
  <2>3. op' = [op EXCEPT ![o] = r]
    BY <2>1, <2>2
  <2>4. RowAgrees(o, r)
    BY <1>1, <2>1, <2>2 DEF RowAgrees, Active, Terminal
  <2> QED BY <1>2, <1>3, <2>2, <2>3, <2>4, RowStep
<1> QED BY <1>4, <1>5

\* A consumer enters the state s, and disturbs no other.
LEMMA EntersStep ==
    ASSUME IndInv, NEW w \in Workers, NEW s \in WorkerStates, worker' = [worker EXCEPT ![w] = s],
           Holds(w, s)', Latest(s)', \A u \in Workers \ {w} : Undisturbed(u),
           TypeOK', \A o \in Ops : RowAgrees(o, op[o])', HistoryKept', CommitIsNamed', ImportedOnce',
           \A u \in Workers \ {w} : Apart(u, worker[u], s)' /\ Apart(w, s, worker[u])'
    PROVE  IndInv'
<1>1. worker'[w] = s /\ \A u \in Workers \ {w} : worker'[u] = worker[u]
  BY Types DEF IndInv
<1>2. ASSUME NEW u \in Workers PROVE Holds(u, worker[u])' /\ Latest(worker[u])'
  <2>1. CASE u = w
    BY <1>1, <2>1 DEF Holds, Latest, Landed
  <2>2. CASE u # w
    BY <1>1, <2>2, UndisturbedHolds
  <2> QED BY <2>1, <2>2
<1>3. ASSUME NEW x \in Workers, NEW u \in Workers, x # u PROVE Apart(x, worker[x], worker[u])'
  <2>1. CASE x = w
    BY <1>1, <1>3, <2>1 DEF Apart
  <2>2. CASE u = w
    BY <1>1, <1>3, <2>2 DEF Apart
  <2>3. CASE x # w /\ u # w
    <3>1. Apart(x, worker[x], worker[u]) /\ (x \in holders' => x \in holders)
      BY <1>3, <2>3 DEF IndInv, Undisturbed
    <3>2. worker'[x] = worker[x] /\ worker'[u] = worker[u]
      BY <1>1, <2>3
    <3> QED BY <3>1, <3>2 DEF Apart
  <2> QED BY <2>1, <2>2, <2>3
<1> QED BY <1>2, <1>3 DEF IndInv

-----------------------------------------------------------------------------
(***************************************************************************)
(* A claim is taken, a lease is granted, a commit is prepared.             *)
(***************************************************************************)

\* A new claim is numbered beyond all earlier ones.
LEMMA ClaimStep ==
    ASSUME IndInv, NEW w \in Workers, NEW o \in Ops, Claim(w, o)
    PROVE  IndInv'
<1> DEFINE n == op[o].attempts + 1
<1>1. /\ op[o].attempts < MaxClaims /\ UNCHANGED <<coordinator, drawn, landed>>
      /\ op' = [op EXCEPT ![o] = [@ EXCEPT !.state = "running", !.attempts = n, !.token = n, !.lapsed = FALSE]]
      /\ worker' = [worker EXCEPT ![w] = [IdleWorker EXCEPT !.pc = "claimed", !.op = o, !.token = n]]
  BY DEF Claim
<1>2. /\ op[o] \in Rows /\ RowAgrees(o, op[o]) /\ op[o].attempts \in Nat /\ n \in 1..MaxClaims /\ TypeOK
      /\ op[o].receipt # None => op[o].state \notin Active
  BY <1>1, Types, RowFields, Constants DEF IndInv, RowAgrees
<1>3. PICK r \in Rows : /\ r = [op[o] EXCEPT !.state = "running", !.attempts = n, !.token = n, !.lapsed = FALSE]
                        /\ r.state = "running" /\ r.attempts = n /\ r.token = n
                        /\ r.prepared = op[o].prepared /\ r.receipt = op[o].receipt
  <2>1. "running" \in States /\ n \in 0..MaxClaims
    BY <1>2, Constants DEF States, Active
  <2>2. LET t == [op[o] EXCEPT !.state = "running", !.attempts = n, !.token = n, !.lapsed = FALSE] IN
        /\ t \in Rows /\ t.state = "running" /\ t.attempts = n /\ t.token = n
        /\ t.prepared = op[o].prepared /\ t.receipt = op[o].receipt
    <3> HIDE DEF n
    <3> QED BY <1>2, <2>1 DEF Rows
  <2> QED BY <2>2, Zenon
<1>4. PICK s \in WorkerStates : /\ s = [IdleWorker EXCEPT !.pc = "claimed", !.op = o, !.token = n]
                                /\ s.pc = "claimed" /\ s.op = o /\ s.token = n
  <2>1. "claimed" \in Owning /\ n \in 0..MaxClaims
    BY <1>2, Constants DEF Owning
  <2>2. LET t == [IdleWorker EXCEPT !.pc = "claimed", !.op = o, !.token = n] IN
        t \in WorkerStates /\ t.pc = "claimed" /\ t.op = o /\ t.token = n
    <3> HIDE DEF n
    <3> QED BY IdleTyped, <2>1 DEF WorkerStates
  <2> QED BY <2>2, Zenon
<1>5. op' = [op EXCEPT ![o] = r] /\ worker' = [worker EXCEPT ![w] = s]
  BY <1>1, <1>3, <1>4
<1>6. RowAgrees(o, r)'
  <2>1. op[o].receipt = None
    BY <1>2 DEF Claim, Claimable, Active
  <2> QED BY <1>2, <1>3, <2>1 DEF RowAgrees
<1>7. op' \in [Ops -> Rows] /\ \A p \in Ops : RowAgrees(p, op[p])'
  BY <1>1, <1>5, <1>6, RowsStay
<1>8. op'[o] = r /\ \A p \in Ops \ {o} : op'[p] = op[p]
  BY <1>2, <1>5, Types
<1>9. \A p \in Ops : op'[p].prepared = op[p].prepared
  BY <1>3, <1>8
<1>10. HistoryKept' /\ CommitIsNamed' /\ ImportedOnce'
  BY <1>1, <1>9, HistoryStays DEF coordinator
<1>11. TypeOK'
  <2>1. worker' \in [Workers -> WorkerStates]
    BY <1>2, <1>5, Types
  <2> QED BY <1>1, <1>2, <1>7, <2>1 DEF TypeOK, Rows, WorkerStates, coordinator
<1>12. ASSUME NEW u \in Workers PROVE Undisturbed(u)
  <2>1. ASSUME worker[u].pc # "idle"
        PROVE  LET p == worker[u].op IN
               /\ op'[p].attempts >= op[p].attempts /\ op'[p].attempts \in Nat
               /\ op'[p].prepared = op[p].prepared
    <3>1. worker[u].op \in Ops /\ op[worker[u].op].attempts \in Nat
      BY <2>1, WorkerIs
    <3>2. r.attempts \in Nat /\ r.attempts >= op[o].attempts
      BY <1>2, <1>3
    <3> QED BY <1>8, <1>9, <3>1, <3>2
  <2>2. \A p : NoneAdded(p)
    BY <1>1 DEF NoneAdded, CommittedBy, coordinator
  <2> QED BY <1>1, <2>1, <2>2 DEF Undisturbed, coordinator
<1>13. Holds(w, s)' /\ Latest(s)'
  <2>1. s.op \in Ops /\ s.token >= 1 /\ s.token <= op'[s.op].attempts
    <3>1. op'[s.op].attempts = n /\ s.op \in Ops /\ s.token = n
      <4> HIDE DEF n
      <4> QED BY <1>3, <1>4, <1>8
    <3>2. n \in Nat /\ n >= 1
      BY <1>2, Constants
    <3> HIDE DEF n
    <3> QED BY <3>1, <3>2
  <2> QED BY <1>4, <2>1 DEF Holds, Latest, Leased, Imported, Committing
<1>14. ASSUME NEW u \in Workers \ {w} PROVE Apart(u, worker[u], s)' /\ Apart(w, s, worker[u])'
  <2>1. worker'[u] = worker[u]
    BY <1>2, <1>5, Types
  <2>2. worker[u].pc # "idle" /\ worker[u].op = o => worker[u].token # s.token
    <3>1. worker[u].pc # "idle" /\ worker[u].op = o => worker[u].token <= op[o].attempts /\ worker[u].token \in Nat
      BY WorkerIs
    <3> QED BY <1>2, <1>4, <3>1
  <2> QED BY <1>4, <2>1, <2>2 DEF Apart, Leased, Committing
<1> QED BY <1>5, <1>7, <1>10, <1>11, <1>12, <1>13, <1>14, EntersStep

\* A lease tells its holder what the operation committed, and ends what others prepared.
LEMMA AcquireStep ==
    ASSUME IndInv, NEW w \in Workers, Acquire(w)
    PROVE  IndInv'
<1> DEFINE lease == History!Current
<1>1. /\ worker[w].pc = "acquire" /\ UNCHANGED <<op, drawn, landed, version, pointer, receipts>>
      /\ basis' = [basis EXCEPT ![w] = lease] /\ holders' = {w}
      /\ worker' = [worker EXCEPT ![w].pc = "booting", ![w].lease = lease]
  BY DEF Acquire, History!Grant
<1>2. /\ worker[w] \in WorkerStates /\ Holds(w, worker[w]) /\ worker[w].op \in Ops /\ w \in Writers /\ TypeOK
  BY <1>1, WorkerIs
<1>3. lease \in Leases /\ lease # None /\ lease.pointer = pointer
  BY <1>2, CurrentTyped
<1>4. PICK s \in WorkerStates : /\ s = [worker[w] EXCEPT !.pc = "booting", !.lease = lease]
                                /\ s.pc = "booting" /\ s.lease = lease /\ s.op = worker[w].op
                                /\ s.token = worker[w].token
  <2>1. "booting" \in Owning
    BY DEF Owning, Beats
  <2>2. LET t == [worker[w] EXCEPT !.pc = "booting", !.lease = lease] IN
        /\ t \in WorkerStates /\ t.pc = "booting" /\ t.lease = lease /\ t.op = worker[w].op
        /\ t.token = worker[w].token
    <3> HIDE DEF lease
    <3> QED BY <1>2, <1>3, <2>1 DEF WorkerStates
  <2> HIDE DEF lease
  <2> QED BY <2>2, Zenon
<1>5. worker' = [worker EXCEPT ![w] = s]
  <2> HIDE DEF lease
  <2> QED BY <1>1, <1>4
<1>6. basis'[w] = lease /\ (\A u \in Workers \ {w} : basis'[u] = basis[u]) /\ basis' \in [Writers -> Leases \cup {None}]
  <2> HIDE DEF lease
  <2> QED BY <1>1, <1>2, <1>3, Types, Constants
<1>7. TypeOK'
  <2>1. worker' \in [Workers -> WorkerStates]
    BY <1>2, <1>5, Types
  <2>2. holders' \in SUBSET Writers
    BY <1>1, <1>2
  <2> QED BY <1>1, <1>2, <1>6, <2>1, <2>2 DEF TypeOK, WorkerStates
<1>8. \A o \in Ops : RowAgrees(o, op[o])'
  BY <1>1, SameRows
<1>9. HistoryKept' /\ CommitIsNamed' /\ ImportedOnce'
  BY <1>1, HistoryStays
<1>10. ASSUME NEW u \in Workers \ {w} PROVE Undisturbed(u)
  <2>1. worker[u].pc # "idle" => worker[u].op \in Ops /\ op[worker[u].op].attempts \in Nat
    BY WorkerIs
  <2>2. \A p : NoneAdded(p)
    BY <1>1 DEF NoneAdded, CommittedBy
  <2> QED BY <1>1, <1>6, <2>1, <2>2 DEF Undisturbed
<1>11. Holds(w, s)'
  <2>1. s.op \in Ops /\ s.token >= 1 /\ s.token <= op'[s.op].attempts
    BY <1>1, <1>2, <1>4 DEF Holds
  <2> HIDE DEF lease
  <2> QED BY <1>3, <1>4, <1>6, <2>1 DEF Holds, Imported, Committing
<1>12. Latest(s)'
  <2>1. ASSUME NEW v \in Versions, CommittedBy(s.op, v)'
        PROVE  s.lease.pointer # None /\ s.op \in s.lease.pointer.imports
    <3>1. receipts[v] # None /\ receipts[v].author = s.op /\ s.op \in Ops
      BY <1>1, <1>2, <1>4, <2>1 DEF CommittedBy
    <3>2. pointer # None /\ s.op \in pointer.imports
      BY <3>1 DEF IndInv, HistoryKept
    <3> HIDE DEF lease
    <3> QED BY <1>3, <1>4, <3>2
  <2> QED BY <1>4, <2>1 DEF Latest, Imported
<1>13. ASSUME NEW u \in Workers \ {w} PROVE Apart(u, worker[u], s)' /\ Apart(w, s, worker[u])'
  <2>1. worker'[u] = worker[u]
    BY <1>2, <1>5, Types
  <2>2. Apart(w, worker[w], worker[u]) /\ Apart(u, worker[u], worker[w])
    BY DEF IndInv
  <2>3. u \notin holders'
    BY <1>1
  <2> QED BY <1>1, <1>4, <2>1, <2>2, <2>3 DEF Apart, Committing
<1> QED BY <1>5, <1>7, <1>8, <1>9, <1>10, <1>11, <1>12, <1>13, EntersStep

\* The owner of the last claim names in the row the commit it is about to make; there is none yet.
LEMMA PrepareStep ==
    ASSUME IndInv, NEW w \in Workers, Prepare(w)
    PROVE  IndInv'
<1> DEFINE o == worker[w].op
           prepared == [version |-> worker[w].lease.version + 1, pointer |-> worker[w].next,
                        job |-> worker[w].job]
<1>1. /\ worker[w].pc = "prepare" /\ Owns(w) /\ worker[w].lease.version < MaxVersion
      /\ op' = [op EXCEPT ![o] = [op[o] EXCEPT !.prepared = prepared]]
      /\ worker' = [worker EXCEPT ![w].pc = "committing"] /\ UNCHANGED <<coordinator, drawn, landed>>
  BY DEF Prepare, Update
<1>2. /\ worker[w] \in WorkerStates /\ Holds(w, worker[w]) /\ Latest(worker[w]) /\ o \in Ops
      /\ op[o] \in Rows /\ RowAgrees(o, op[o]) /\ worker[w].token = op[o].attempts /\ w \in Writers /\ TypeOK
      /\ op[o].attempts \in Nat
  BY <1>1, WorkerIs, OwnerIsLatest
<1>3. /\ worker[w].lease # None /\ basis[w] \in {worker[w].lease, None} /\ worker[w].next # None
      /\ worker[w].next.author = o /\ \A v \in Versions : ~CommittedBy(o, v)
  BY <1>1, <1>2 DEF Holds, Latest, Leased, Imported
<1>4. prepared \in Prepared /\ prepared # None /\ prepared.pointer.author = o
  <2>1. worker[w].lease \in Leases /\ worker[w].next \in Pointers /\ worker[w].job \in BOOLEAN
    BY <1>2, <1>3, WorkerFields
  <2>2. worker[w].lease.version + 1 \in Versions
    BY <1>1, <2>1, Constants DEF Leases, Versions
  <2>3. prepared \in Prepared
    BY <2>1, <2>2 DEF Prepared
  <2> QED BY <1>3, <2>3, Constants
<1>5. PICK r \in Rows : /\ r = [op[o] EXCEPT !.prepared = prepared] /\ r.state = op[o].state
                        /\ r.attempts = op[o].attempts /\ r.token = op[o].token
                        /\ r.prepared = prepared /\ r.receipt = op[o].receipt
  <2>1. LET t == [op[o] EXCEPT !.prepared = prepared] IN
        /\ t \in Rows /\ t.state = op[o].state /\ t.attempts = op[o].attempts
        /\ t.token = op[o].token /\ t.prepared = prepared /\ t.receipt = op[o].receipt
    <3> HIDE DEF prepared
    <3> QED BY <1>2, <1>4 DEF Rows
  <2> HIDE DEF prepared
  <2> QED BY <2>1, Zenon
<1>6. PICK s \in WorkerStates : s = [worker[w] EXCEPT !.pc = "committing"] /\ s.pc = "committing" /\ Keeps(s, worker[w])
  <2>1. "committing" \in Owning
    BY DEF Owning, Beats
  <2> QED BY <1>2, <2>1, PcTyped
<1>7. PICK q \in Ops : q = o
  BY <1>2
<1>8. op' = [op EXCEPT ![q] = r] /\ worker' = [worker EXCEPT ![w] = s]
  <2> HIDE DEF prepared
  <2> QED BY <1>1, <1>5, <1>6, <1>7
<1>9. RowAgrees(q, r)'
  <2> HIDE DEF prepared
  <2> QED BY <1>1, <1>2, <1>4, <1>5, <1>7 DEF RowAgrees, Landed
<1>10. op' \in [Ops -> Rows] /\ \A p \in Ops : RowAgrees(p, op[p])'
  BY <1>1, <1>8, <1>9, RowsStay
<1>11. op'[q] = r /\ \A p \in Ops \ {q} : op'[p] = op[p]
  BY <1>2, <1>8, Types
<1>12. HistoryKept' /\ CommitIsNamed' /\ ImportedOnce'
  <2>1. \A p \in Ops : op'[p].prepared = op[p].prepared \/ \A v \in Versions : ~CommittedBy(p, v)
    BY <1>3, <1>7, <1>11
  <2> QED BY <1>1, <2>1, HistoryStays DEF coordinator
<1>13. TypeOK'
  <2>1. worker' \in [Workers -> WorkerStates]
    BY <1>2, <1>8, Types
  <2> QED BY <1>1, <1>2, <1>10, <2>1 DEF TypeOK, Rows, WorkerStates, coordinator
<1>14. \A u \in Workers \ {w} : worker[u].pc # "idle" /\ worker[u].op = q =>
            /\ worker[u].token < worker[w].token
            /\ worker[u].pc \in Committing => u \notin holders
  <2> SUFFICES ASSUME NEW u \in Workers \ {w}, worker[u].pc # "idle", worker[u].op = q
               PROVE  /\ worker[u].token < worker[w].token
                      /\ worker[u].pc \in Committing => u \notin holders
    OBVIOUS
  <2>1. worker[u].token \in Nat /\ worker[u].token <= op[q].attempts
    BY WorkerIs
  <2>2. Apart(u, worker[u], worker[w])
    BY DEF IndInv
  <2>3. worker[u].token # worker[w].token /\ (worker[u].token < worker[w].token /\ worker[u].pc \in Committing => u \notin holders)
    BY <1>1, <1>7, <2>2 DEF Apart, Leased
  <2> QED BY <1>2, <1>7, <2>1, <2>3
<1>15. ASSUME NEW u \in Workers \ {w} PROVE Undisturbed(u)
  <2>1. ASSUME worker[u].pc # "idle"
        PROVE  LET p == worker[u].op IN
               /\ op'[p].attempts >= op[p].attempts /\ op'[p].attempts \in Nat
               /\ worker[u].pc \in Committing /\ u \in holders' => op'[p].prepared = op[p].prepared
               /\ worker[u].token = op'[p].attempts => op'[p].prepared = op[p].prepared
    <3>1. worker[u].op \in Ops /\ op[worker[u].op].attempts \in Nat
      BY <2>1, WorkerIs
    <3>2. op'[worker[u].op].attempts = op[worker[u].op].attempts
      BY <1>5, <1>7, <1>11, <3>1
    <3>3. CASE worker[u].op # q
      BY <1>11, <3>1, <3>3
    <3>4. CASE worker[u].op = q
      <4>1. worker[u].token \in Nat /\ worker[u].token # op[q].attempts
        BY <1>2, <1>7, <1>14, <2>1, <3>4, WorkerIs
      <4>2. worker[u].pc \in Committing => u \notin holders'
        BY <1>1, <1>14, <2>1, <3>4 DEF coordinator
      <4> QED BY <3>1, <3>2, <3>4, <4>1, <4>2
    <3> QED BY <3>3, <3>4
  <2>2. \A p : NoneAdded(p)
    BY <1>1 DEF NoneAdded, CommittedBy, coordinator
  <2> QED BY <1>1, <2>1, <2>2 DEF Undisturbed, coordinator
<1>16. /\ s.op = q /\ s.token = op'[q].attempts /\ s.lease = worker[w].lease /\ s.next = worker[w].next
       /\ s.job = worker[w].job /\ op'[q].prepared = [version |-> s.lease.version + 1, pointer |-> s.next, job |-> s.job]
  BY <1>2, <1>5, <1>6, <1>7, <1>11 DEF Keeps
<1>17. Holds(w, s)'
  <2>1. s.op \in Ops /\ s.token >= 1 /\ s.token <= op'[s.op].attempts
    BY <1>1, <1>2, <1>7, <1>16 DEF Holds
  <2>2. s.lease # None /\ basis'[w] \in {s.lease, None}
    BY <1>1, <1>3, <1>16 DEF coordinator
  <2>3. /\ s.next # None /\ s.next.author = s.op
        /\ s.lease.pointer # None /\ s.op \notin s.lease.pointer.imports
        /\ s.next.imports = s.lease.pointer.imports \cup {s.op}
    BY <1>1, <1>2, <1>7, <1>16 DEF Holds, Imported
  <2> QED BY <1>16, <2>1, <2>2, <2>3 DEF Holds
<1>18. Latest(s)'
  <2>1. \A v \in Versions : ~CommittedBy(s.op, v)'
    BY <1>1, <1>3, <1>7, <1>16 DEF CommittedBy, coordinator
  <2> QED BY <1>6, <2>1 DEF Latest
<1>19. ASSUME NEW u \in Workers \ {w} PROVE Apart(u, worker[u], s)' /\ Apart(w, s, worker[u])'
  <2>1. worker'[u] = worker[u]
    BY <1>2, <1>8, Types
  <2>2. worker[u].token \in Nat /\ worker[w].token \in Nat /\ holders' = holders /\ s.token = worker[w].token
    BY <1>1, <1>6, WorkerIs DEF Keeps, coordinator
  <2>3. worker[u].pc # "idle" /\ worker[u].op = q =>
            /\ worker[u].token < s.token
            /\ worker[u].pc \in Committing => u \notin holders'
    BY <1>14, <2>2
  <2> QED BY <1>16, <2>1, <2>2, <2>3 DEF Apart
<1> QED BY <1>8, <1>10, <1>12, <1>13, <1>15, <1>17, <1>18, <1>19, EntersStep

-----------------------------------------------------------------------------
(***************************************************************************)
(* The history: commits, and what the rest of the site does.               *)
(***************************************************************************)

\* A commit adds one receipt, to operations that have none.
LEMMA CommitLands ==
    ASSUME IndInv, NEW w \in Writers, NEW p \in Pointers, History!Commit(w, p), Land(p), op' = op,
           pointer # None => pointer.imports \subseteq p.imports,
           p.author \in Ops => /\ p.author \in p.imports /\ op[p.author].prepared # None
                               /\ \A v \in Versions : ~CommittedBy(p.author, v)
                               /\ op[p.author].prepared.version = version + 1
                               /\ op[p.author].prepared.pointer = p
    PROVE  /\ HistoryKept' /\ CommitIsNamed' /\ ImportedOnce' /\ landed \subseteq landed'
           /\ version' \in 0..MaxVersion /\ pointer' \in Pointers \cup {None} /\ landed' \in SUBSET Commits
           /\ receipts' \in [Versions -> Pointers \cup {None}]
           /\ basis' \in [Writers -> Leases \cup {None}] /\ holders' = {}
           /\ \A u \in Writers \ {w} : basis'[u] = basis[u]
           /\ \A o \in Ops, v \in Versions :
                CommittedBy(o, v)' <=> CommittedBy(o, v) \/ (v = version + 1 /\ o = p.author)
<1>1. /\ version + 1 \in Versions /\ receipts[version + 1] = None /\ version' = version + 1 /\ pointer' = p
      /\ receipts' = [receipts EXCEPT ![version + 1] = p] /\ basis' = [basis EXCEPT ![w] = None]
      /\ holders' = {}
  BY DEF History!Commit, History!Versions, Versions
<1>2. /\ receipts \in [Versions -> Pointers \cup {None}] /\ basis \in [Writers -> Leases \cup {None}]
      /\ landed \in SUBSET Commits /\ p # None
  BY Types, Constants DEF IndInv
<1>3. receipts'[version + 1] = p /\ \A v \in Versions : v # version + 1 => receipts'[v] = receipts[v]
  BY <1>1, <1>2
<1>4. landed' = landed \cup {[version |-> version + 1, pointer |-> p]}
  BY DEF Land
<1>5. \A o \in Ops, v \in Versions :
        CommittedBy(o, v)' <=> CommittedBy(o, v) \/ (v = version + 1 /\ o = p.author)
  <2> SUFFICES ASSUME NEW o \in Ops, NEW v \in Versions
               PROVE  CommittedBy(o, v)' <=> CommittedBy(o, v) \/ (v = version + 1 /\ o = p.author)
    OBVIOUS
  <2>1. CASE v = version + 1
    <3>1. receipts[v] = None /\ receipts'[v] = p
      BY <1>1, <1>3, <2>1
    <3> QED BY <1>2, <2>1, <3>1 DEF CommittedBy
  <2>2. CASE v # version + 1
    <3>1. receipts'[v] = receipts[v]
      BY <1>3, <2>2
    <3> QED BY <2>2, <3>1 DEF CommittedBy
  <2> QED BY <2>1, <2>2
<1>6. HistoryKept'
  <2> SUFFICES ASSUME NEW v \in Versions, receipts'[v] # None
               PROVE  /\ [version |-> v, pointer |-> receipts'[v]] \in landed'
                      /\ p # None
                      /\ receipts'[v].author \in Ops => receipts'[v].author \in p.imports
    BY <1>1 DEF HistoryKept
  <2>1. CASE v = version + 1
    BY <1>2, <1>3, <1>4, <2>1
  <2>2. CASE v # version + 1
    <3>1. receipts'[v] = receipts[v] /\ receipts[v] # None
      BY <1>3, <2>2
    <3>2. /\ [version |-> v, pointer |-> receipts[v]] \in landed /\ pointer # None
          /\ receipts[v].author \in Ops => receipts[v].author \in pointer.imports
      BY <3>1 DEF IndInv, HistoryKept
    <3> QED BY <1>2, <1>4, <3>1, <3>2
  <2> QED BY <2>1, <2>2
<1>7. CommitIsNamed'
  <2> SUFFICES ASSUME NEW o \in Ops, NEW v \in Versions, CommittedBy(o, v)'
               PROVE  op[o].prepared # None /\ op[o].prepared.version = v /\ op[o].prepared.pointer = receipts'[v]
    BY DEF CommitIsNamed
  <2>1. CASE v = version + 1
    <3>1. o = p.author
      BY <1>3, <2>1 DEF CommittedBy
    <3> QED BY <1>3, <2>1, <3>1
  <2>2. CASE v # version + 1
    BY <1>3, <1>5, <2>2 DEF IndInv, CommitIsNamed
  <2> QED BY <2>1, <2>2
<1>8. ImportedOnce'
  <2> SUFFICES ASSUME NEW o \in Ops, NEW v \in Versions, NEW u \in Versions, CommittedBy(o, v)', CommittedBy(o, u)'
               PROVE  v = u
    BY DEF ImportedOnce
  <2>1. CommittedBy(o, v) /\ CommittedBy(o, u) => v = u
    BY DEF IndInv, ImportedOnce
  <2> QED BY <1>5, <2>1
<1>9. version' \in 0..MaxVersion /\ landed' \in SUBSET Commits
  BY <1>1, <1>2, <1>4, Constants DEF Versions, Commits
<1> QED BY <1>1, <1>2, <1>4, <1>5, <1>6, <1>7, <1>8, <1>9

\* A commit of another author disturbs no consumer.
LEMMA OtherCommit ==
    ASSUME IndInv, NEW u \in Workers, op' = op, basis'[u] = basis[u], holders' = {}, landed \subseteq landed',
           NEW author \in Ops \cup {Site}, NEW at \in Versions,
           \A o \in Ops, v \in Versions : CommittedBy(o, v)' <=> CommittedBy(o, v) \/ (v = at /\ o = author),
           worker[u].pc \in Leased /\ worker[u].token = op[worker[u].op].attempts => worker[u].op # author
    PROVE  Undisturbed(u)
<1>1. worker[u].pc # "idle" => worker[u].op \in Ops /\ op[worker[u].op].attempts \in Nat
  BY WorkerIs
<1>2. ASSUME worker[u].pc # "idle", worker[u].token = op[worker[u].op].attempts, worker[u].pc \in Leased
      PROVE  NoneAdded(worker[u].op)
  BY <1>1, <1>2 DEF NoneAdded, CommittedBy
<1> QED BY <1>1, <1>2 DEF Undisturbed

\* The holder of the lease commits what the row names.  Its import was made of the current
\* revision, whose records do not have it; and nobody works under a lease with a later claim.
LEMMA CommitStep ==
    ASSUME IndInv, NEW w \in Workers, Commit(w)
    PROVE  IndInv'
<1> DEFINE p == worker[w].next
           o == worker[w].op
<1>1. PICK pc \in {"record", AfterError(w)} : worker' = [worker EXCEPT ![w].pc = pc]
  BY DEF Commit
<1>2. worker[w].pc = "commit" /\ History!Commit(w, p) /\ Land(p) /\ op' = op /\ drawn' = drawn
  BY DEF Commit
<1>3. /\ worker[w] \in WorkerStates /\ Holds(w, worker[w]) /\ o \in Ops /\ w \in Writers /\ TypeOK
      /\ pc \in {"record", "retrying", "failing"}
  BY <1>2, WorkerIs DEF AfterError
<1>4. w \in holders /\ basis[w] = History!Current /\ version + 1 \in Versions
  BY <1>2 DEF History!Commit, History!Versions, Versions
<1>5. /\ worker[w].lease # None /\ worker[w].lease = History!Current
      /\ p # None /\ p.author = o /\ worker[w].lease.pointer # None
      /\ o \notin worker[w].lease.pointer.imports /\ p.imports = worker[w].lease.pointer.imports \cup {o}
      /\ op[o].prepared = [version |-> worker[w].lease.version + 1, pointer |-> p, job |-> worker[w].job]
  <2>1. History!Current # None
    BY <1>3, CurrentTyped
  <2> QED BY <1>2, <1>3, <1>4, <2>1 DEF Holds, Leased, Imported, Committing
<1>6. worker[w].lease.version = version /\ worker[w].lease.pointer = pointer
  BY <1>3, <1>5, CurrentTyped
<1>7. /\ p \in Pointers /\ op[o].prepared # None /\ op[o].prepared.version = version + 1
      /\ op[o].prepared.pointer = p /\ op[o] \in Rows
  <2>1. p \in Pointers
    BY <1>3, <1>5, WorkerFields
  <2>2. worker[w].job \in BOOLEAN
    BY <1>3, WorkerFields
  <2>3. op[o].prepared \in Prepared
    BY <1>4, <1>5, <1>6, <2>1, <2>2 DEF Prepared
  <2> QED BY <1>3, <1>5, <1>6, <2>1, <2>3, Types, Constants
<1>8. \A v \in Versions : ~CommittedBy(o, v)
  BY <1>3, <1>5, <1>6 DEF CommittedBy, IndInv, HistoryKept
<1>9. pointer # None => pointer.imports \subseteq p.imports
  BY <1>5, <1>6
<1>10. /\ HistoryKept' /\ CommitIsNamed' /\ ImportedOnce' /\ landed \subseteq landed'
       /\ version' \in 0..MaxVersion /\ pointer' \in Pointers \cup {None} /\ landed' \in SUBSET Commits
       /\ receipts' \in [Versions -> Pointers \cup {None}]
       /\ basis' \in [Writers -> Leases \cup {None}] /\ holders' = {}
       /\ \A u \in Writers \ {w} : basis'[u] = basis[u]
       /\ \A x \in Ops, v \in Versions :
            CommittedBy(x, v)' <=> CommittedBy(x, v) \/ (v = version + 1 /\ x = p.author)
  <2>1. /\ p.author \in p.imports /\ op[p.author].prepared # None
        /\ \A v \in Versions : ~CommittedBy(p.author, v)
        /\ op[p.author].prepared.version = version + 1 /\ op[p.author].prepared.pointer = p
    BY <1>5, <1>7, <1>8
  <2>2. p \in Pointers
    BY <1>7
  <2> HIDE DEF p, o
  <2> QED BY <1>2, <1>3, <1>9, <2>1, <2>2, CommitLands
<1>11. PICK s \in WorkerStates : s = [worker[w] EXCEPT !.pc = pc] /\ s.pc = pc /\ Keeps(s, worker[w])
  <2>1. pc \in Owning
    BY <1>3 DEF Owning
  <2> QED BY <1>3, <2>1, PcTyped
<1>12. worker' = [worker EXCEPT ![w] = s]
  BY <1>1, <1>11
<1>13. TypeOK'
  <2>1. worker' \in [Workers -> WorkerStates]
    BY <1>3, <1>12, Types
  <2> QED BY <1>2, <1>3, <1>10, <2>1 DEF TypeOK, WorkerStates
<1>14. \A x \in Ops : RowAgrees(x, op[x])'
  BY <1>2, <1>10, SameRows
<1>15. ASSUME NEW u \in Workers \ {w} PROVE Undisturbed(u)
  <2>1. worker[u].pc \in Leased /\ worker[u].token = op[worker[u].op].attempts => worker[u].op # o
    <3> SUFFICES ASSUME worker[u].pc \in Leased, worker[u].token = op[o].attempts, worker[u].op = o
                 PROVE  FALSE
      OBVIOUS
    <3>1. worker[w].token \in Nat /\ worker[u].token \in Nat /\ worker[w].token <= op[o].attempts
      BY <1>2, WorkerIs
    <3>2. Apart(w, worker[w], worker[u])
      BY DEF IndInv
    <3>3. worker[u].pc # "idle" /\ worker[w].pc \in Committing /\ worker[w].pc # "idle"
      BY <1>2 DEF Leased, Committing
    <3>4. worker[w].token # worker[u].token /\ ~(worker[w].token < worker[u].token)
      BY <1>4, <3>2, <3>3 DEF Apart
    <3> QED BY <3>1, <3>4
  <2>2. basis'[u] = basis[u]
    BY <1>10, Constants
  <2> QED BY <1>2, <1>3, <1>4, <1>5, <1>10, <2>1, <2>2, OtherCommit
<1>16. Holds(w, s)'
  <2>1. s.op \in Ops /\ s.token >= 1 /\ s.token <= op[s.op].attempts
    BY <1>2, <1>3, <1>11 DEF Holds, Keeps
  <2> QED BY <1>2, <1>3, <1>11, <2>1 DEF Holds, Leased, Imported, Committing
<1>17. Latest(s)'
  <2>1. op'[s.op].prepared # None /\ Landed(op[s.op].prepared)'
    <3>1. op'[s.op].prepared = op[o].prepared
      BY <1>2, <1>11 DEF Keeps
    <3>2. [version |-> op[o].prepared.version, pointer |-> op[o].prepared.pointer] \in landed'
      BY <1>2, <1>7 DEF Land
    <3> QED BY <1>7, <3>1, <3>2 DEF Landed
  <2> QED BY <1>3, <1>11, <2>1 DEF Latest, Imported
<1>18. ASSUME NEW u \in Workers \ {w} PROVE Apart(u, worker[u], s)' /\ Apart(w, s, worker[u])'
  <2>1. worker'[u] = worker[u]
    BY <1>3, <1>12, Types
  <2>2. Apart(w, worker[w], worker[u]) /\ Apart(u, worker[u], worker[w])
    BY DEF IndInv
  <2> QED BY <1>2, <1>3, <1>10, <1>11, <2>1, <2>2 DEF Apart, Keeps
<1> QED BY <1>10, <1>12, <1>13, <1>14, <1>15, <1>16, <1>17, <1>18, EntersStep

\* A commit of the site itself is no operation's, and keeps the importer's records.
LEMMA SiteCommits ==
    ASSUME IndInv, drawn < MaxRevisions, NEW imports \in SUBSET Ops
    PROVE  LET p == Draw(Site, imports) IN
           p \in Pointers /\ p.author = Site /\ p.author \notin Ops /\ p.imports = imports
BY DrawTyped, Constants DEF IndInv

(* The commit that seeds an empty site belongs to no operation. *)
LEMMA BootstrapStep ==
    ASSUME IndInv, NEW w \in Workers, Bootstrap(w)
    PROVE  IndInv'
<1> DEFINE p == Draw(Site, {})
<1>1. /\ worker[w].pc = "booting" /\ worker[w].lease.pointer = None /\ drawn < MaxRevisions /\ drawn' = drawn + 1
      /\ History!Commit(w, p) /\ Land(p) /\ op' = op
      /\ worker' = [worker EXCEPT ![w].pc = "acquire", ![w].lease = None]
  BY DEF Bootstrap
<1>2. worker[w] \in WorkerStates /\ Holds(w, worker[w]) /\ w \in Writers /\ TypeOK
  BY WorkerIs
<1>3. p \in Pointers /\ p.author = Site /\ p.author \notin Ops
  BY <1>1, SiteCommits
<1>4. pointer = None
  <2>1. worker[w].lease = History!Current
    BY <1>1, <1>2, CurrentTyped DEF Holds, Leased, History!Commit
  <2> QED BY <1>1, <1>2, <2>1, CurrentTyped
<1>5. /\ HistoryKept' /\ CommitIsNamed' /\ ImportedOnce' /\ landed \subseteq landed'
      /\ version' \in 0..MaxVersion /\ pointer' \in Pointers \cup {None} /\ landed' \in SUBSET Commits
      /\ receipts' \in [Versions -> Pointers \cup {None}]
      /\ basis' \in [Writers -> Leases \cup {None}] /\ holders' = {}
      /\ \A u \in Writers \ {w} : basis'[u] = basis[u]
      /\ \A o \in Ops, v \in Versions :
            CommittedBy(o, v)' <=> CommittedBy(o, v) \/ (v = version + 1 /\ o = p.author)
  <2> HIDE DEF p
  <2> QED BY <1>1, <1>2, <1>3, <1>4, CommitLands
<1>6. PICK s \in WorkerStates : /\ s = [worker[w] EXCEPT !.pc = "acquire", !.lease = None]
                                /\ s.pc = "acquire" /\ s.op = worker[w].op /\ s.token = worker[w].token
  <2>1. "acquire" \in Owning
    BY DEF Owning
  <2>2. LET t == [worker[w] EXCEPT !.pc = "acquire", !.lease = None] IN
        t \in WorkerStates /\ t.pc = "acquire" /\ t.op = worker[w].op /\ t.token = worker[w].token
    BY <1>2, <2>1 DEF WorkerStates
  <2> QED BY <2>2, Zenon
<1>7. worker' = [worker EXCEPT ![w] = s]
  BY <1>1, <1>6
<1>8. TypeOK'
  <2>1. worker' \in [Workers -> WorkerStates]
    BY <1>2, <1>7, Types
  <2>2. drawn' \in 0..MaxRevisions
    BY <1>1, <1>2, Types, Constants
  <2> QED BY <1>1, <1>2, <1>5, <2>1, <2>2 DEF TypeOK, WorkerStates
<1>9. \A o \in Ops : RowAgrees(o, op[o])'
  BY <1>1, <1>5, SameRows
<1>10. ASSUME NEW u \in Workers \ {w} PROVE Undisturbed(u)
  <2>1. version + 1 \in Versions
    BY <1>1 DEF History!Commit, History!Versions, Versions
  <2>2. worker[u].pc \in Leased => worker[u].op # p.author
    BY <1>3, WorkerIs DEF Leased
  <2>3. basis'[u] = basis[u] /\ Site \in Ops \cup {Site}
    BY <1>5, Constants
  <2> HIDE DEF p
  <2> QED BY <1>1, <1>3, <1>5, <2>1, <2>2, <2>3, OtherCommit
<1>11. Follows(s, worker[w])
  BY <1>1, <1>6 DEF Follows, Leased, Committing
<1>12. Holds(w, s)' /\ Latest(s)'
  <2>1. s.pc \in Bare /\ \A o \in Ops : op'[o].attempts = op[o].attempts
    BY <1>1, <1>6 DEF Bare
  <2> QED BY <1>11, <2>1, BareHolds
<1>13. ASSUME NEW u \in Workers \ {w} PROVE Apart(u, worker[u], s)' /\ Apart(w, s, worker[u])'
  <2>1. worker'[u] = worker[u]
    BY <1>2, <1>7, Types
  <2>2. Apart(w, worker[w], worker[u]) /\ Apart(u, worker[u], worker[w])
    BY DEF IndInv
  <2> QED BY <1>1, <1>5, <1>6, <2>1, <2>2 DEF Apart
<1> QED BY <1>5, <1>7, <1>8, <1>9, <1>10, <1>12, <1>13, EntersStep

\* The rest of the site takes a lease, commits or loses its lease, and the operator resets.
LEMMA SiteSteps ==
    ASSUME IndInv, SiteAcquire \/ SiteCommit \/ SiteReset \/ LeaseOverdue
    PROVE  IndInv'
<1>1. op' = op /\ worker' = worker
  BY DEF SiteAcquire, SiteCommit, SiteReset, LeaseOverdue
<1>2. TypeOK /\ (\A u \in Workers : u # Site /\ u \in Writers) /\ Site \in Writers
  BY Constants DEF IndInv
<1>3. /\ HistoryKept' /\ CommitIsNamed' /\ ImportedOnce' /\ TypeOK' /\ landed \subseteq landed'
      /\ \A u \in Workers : Undisturbed(u)
  <2>1. CASE SiteCommit
    <3> DEFINE imports == IF pointer = None THEN {} ELSE pointer.imports
               p == Draw(Site, imports)
    <3>1. drawn < MaxRevisions /\ drawn' = drawn + 1 /\ History!Commit(Site, p) /\ Land(p)
      BY <2>1 DEF SiteCommit
    <3>2. imports \in SUBSET Ops
      BY <1>2, Types DEF Pointers
    <3>3. p \in Pointers /\ p.author = Site /\ p.author \notin Ops /\ p.imports = imports
      <4> HIDE DEF imports
      <4> QED BY <3>1, <3>2, SiteCommits
    <3>4. /\ HistoryKept' /\ CommitIsNamed' /\ ImportedOnce' /\ landed \subseteq landed'
          /\ version' \in 0..MaxVersion /\ pointer' \in Pointers \cup {None} /\ landed' \in SUBSET Commits
          /\ receipts' \in [Versions -> Pointers \cup {None}]
          /\ basis' \in [Writers -> Leases \cup {None}] /\ holders' = {}
          /\ \A u \in Writers \ {Site} : basis'[u] = basis[u]
          /\ \A o \in Ops, v \in Versions :
                CommittedBy(o, v)' <=> CommittedBy(o, v) \/ (v = version + 1 /\ o = p.author)
      <4>1. pointer # None => pointer.imports \subseteq p.imports
        BY <3>3
      <4> HIDE DEF p
      <4> QED BY <1>1, <1>2, <3>1, <3>3, <4>1, CommitLands
    <3>5. drawn' \in 0..MaxRevisions
      BY <1>2, <3>1, Types, Constants
    <3>6. TypeOK'
      BY <1>1, <1>2, <3>4, <3>5 DEF TypeOK
    <3>7. ASSUME NEW u \in Workers PROVE Undisturbed(u)
      <4>1. version + 1 \in Versions
        BY <3>1 DEF History!Commit, History!Versions, Versions
      <4>2. worker[u].pc \in Leased => worker[u].op # p.author
        BY <3>3, WorkerIs DEF Leased
      <4>3. basis'[u] = basis[u] /\ Site \in Ops \cup {Site}
        BY <1>2, <3>4
      <4> HIDE DEF p
      <4> QED BY <1>1, <3>3, <3>4, <4>1, <4>2, <4>3, OtherCommit
    <3> QED BY <3>4, <3>6, <3>7
  <2>2. ASSUME UNCHANGED <<drawn, landed>>, \A u \in Workers : basis'[u] = basis[u],
               basis' \in [Writers -> Leases \cup {None}], version' \in 0..MaxVersion,
               holders' \in SUBSET {Site},
               \/ UNCHANGED <<pointer, receipts>>
               \/ pointer' = None /\ receipts' = [v \in Versions |-> None]
        PROVE  /\ HistoryKept' /\ CommitIsNamed' /\ ImportedOnce' /\ TypeOK' /\ landed \subseteq landed'
               /\ \A u \in Workers : Undisturbed(u)
    <3>1. HistoryKept' /\ CommitIsNamed' /\ ImportedOnce'
      <4>1. CASE UNCHANGED <<pointer, receipts>>
        BY <1>1, <2>2, <4>1, HistoryStays
      <4>2. CASE pointer' = None /\ receipts' = [v \in Versions |-> None]
        BY <4>2 DEF HistoryKept, CommitIsNamed, ImportedOnce, CommittedBy
      <4> QED BY <2>2, <4>1, <4>2
    <3>2. pointer' \in Pointers \cup {None} /\ receipts' \in [Versions -> Pointers \cup {None}]
      BY <1>2, <2>2, Types
    <3>3. holders' \in SUBSET Writers
      BY <1>2, <2>2
    <3>4. TypeOK'
      BY <1>1, <1>2, <2>2, <3>2, <3>3 DEF TypeOK
    <3>5. ASSUME NEW u \in Workers PROVE Undisturbed(u)
      <4>1. \A o : NoneAdded(o)
        BY <2>2 DEF NoneAdded, CommittedBy
      <4>2. worker[u].pc # "idle" => worker[u].op \in Ops /\ op[worker[u].op].attempts \in Nat
        BY WorkerIs
      <4> QED BY <1>1, <1>2, <2>2, <4>1, <4>2 DEF Undisturbed
    <3> QED BY <2>2, <3>1, <3>4, <3>5
  <2>3. CASE SiteAcquire
    <3>1. History!Current \in Leases
      BY <1>2, CurrentTyped
    <3>2. /\ UNCHANGED <<drawn, landed, version, pointer, receipts>> /\ holders' = {Site}
          /\ basis' = [basis EXCEPT ![Site] = History!Current]
      BY <2>3 DEF SiteAcquire, History!Grant
    <3>3. version' \in 0..MaxVersion
      BY <1>2, <3>2 DEF TypeOK
    <3>4. (\A u \in Workers : basis'[u] = basis[u]) /\ basis' \in [Writers -> Leases \cup {None}]
      BY <1>2, <3>1, <3>2, Types
    <3> QED BY <2>2, <3>2, <3>3, <3>4
  <2>4. CASE LeaseOverdue
    <3>1. UNCHANGED <<drawn, landed, version, pointer, receipts, basis>> /\ holders' = {}
      BY <2>4 DEF LeaseOverdue, History!Revoke
    <3> QED BY <1>2, <2>2, <3>1 DEF TypeOK
  <2>5. CASE SiteReset
    <3>1. /\ UNCHANGED <<drawn, landed, basis>> /\ holders' = {} /\ version < MaxVersion /\ version' = version + 1
          /\ pointer' = None /\ receipts' = [v \in Versions |-> None]
      BY <2>5 DEF SiteReset, History!Reset, History!Versions, Versions
    <3>2. version' \in 0..MaxVersion
      BY <1>2, <3>1, Constants DEF TypeOK
    <3> QED BY <1>2, <2>2, <3>1, <3>2 DEF TypeOK
  <2> QED BY <2>1, <2>3, <2>4, <2>5
<1>4. \A o \in Ops : RowAgrees(o, op[o])'
  BY <1>1, <1>3, SameRows
<1> QED BY <1>1, <1>3, <1>4, StandsStep

-----------------------------------------------------------------------------
(***************************************************************************)
(* The specification keeps the invariant.                                  *)
(***************************************************************************)

(* At first there is no row, no consumer at work and an empty site. *)
LEMMA InitInv == Init => IndInv
<1> SUFFICES ASSUME Init PROVE IndInv
  OBVIOUS
<1>1. /\ op = [o \in Ops |-> Absent] /\ worker = [w \in Workers |-> IdleWorker] /\ version = 0 /\ pointer = None
      /\ receipts = [v \in Versions |-> None] /\ basis = [w \in Writers |-> None] /\ holders = {}
      /\ drawn = 0 /\ landed = {}
  BY DEF Init, History!Init, History!Versions, Versions
<1>2. Absent \in Rows /\ IdleWorker \in WorkerStates /\ IdleWorker.pc = "idle"
  BY IdleTyped
<1>3. Absent.state = "absent" /\ Absent.prepared = None /\ Absent.receipt = None
  BY DEF Absent
<1>4. op \in [Ops -> Rows] /\ worker \in [Workers -> WorkerStates]
  BY <1>1, <1>2
<1>5. TypeOK
  BY <1>1, <1>4, Constants DEF TypeOK, Rows, WorkerStates
<1>6. \A o \in Ops : RowAgrees(o, op[o])
  BY <1>1, <1>3 DEF RowAgrees
<1>7. HistoryKept /\ CommitIsNamed /\ ImportedOnce
  BY <1>1 DEF HistoryKept, CommitIsNamed, ImportedOnce, CommittedBy
<1>8. \A w \in Workers : Holds(w, worker[w]) /\ Latest(worker[w])
  BY <1>1, <1>2 DEF Holds, Latest, Leased, Imported, Committing
<1>9. \A w, u \in Workers : w # u => Apart(w, worker[w], worker[u])
  BY <1>1, <1>2 DEF Apart
<1> QED BY <1>5, <1>6, <1>7, <1>8, <1>9 DEF IndInv

(* Every statement, other writer and eviction keeps the invariant. *)
LEMMA NextInv == IndInv /\ [Next]_vars => IndInv'
<1> SUFFICES ASSUME IndInv, [Next]_vars PROVE IndInv'
  OBVIOUS
<1>1. CASE UNCHANGED vars
  BY <1>1 DEF vars, IndInv, TypeOK, RowAgrees, Landed, HistoryKept, CommitIsNamed, ImportedOnce, CommittedBy,
              Holds, Latest, Apart
<1>2. ASSUME NEW o \in Ops, Create(o) \/ Lapse(o) \/ Reconcile(o)
      PROVE  IndInv'
  BY <1>2, RowSteps
<1>3. ASSUME NEW w \in Workers, Work(w)
      PROVE  IndInv'
  <2>1. CASE \E o \in Ops : Claim(w, o)
    BY <2>1, ClaimStep
  <2>2. CASE ReadClaim(w) \/ CheckReceipt(w) \/ Heartbeat(w)
    BY <2>2, ReadClaimStep, CheckReceiptStep, HeartbeatStep
  <2>3. CASE Acquire(w) \/ Bootstrap(w) \/ Import(w)
    BY <2>3, AcquireStep, BootstrapStep, ImportStep
  <2>4. CASE Prepare(w) \/ Commit(w) \/ RecordCommit(w)
    BY <2>4, PrepareStep, CommitStep, RecordCommitStep
  <2>5. CASE ReadPrepared(w) \/ Complete(w) \/ Finish(w)
    BY <2>5, ReadPreparedStep, CompleteStep, FinishStep
  <2>6. CASE NotImported(w) \/ Trouble(w) \/ BadInput(w) \/ Vanish(w)
    BY <2>6, TroubleStep, VanishStep
  <2> QED BY <1>3, <2>1, <2>2, <2>3, <2>4, <2>5, <2>6 DEF Work
<1>4. CASE SiteAcquire \/ SiteCommit \/ SiteReset \/ LeaseOverdue
  BY <1>4, SiteSteps
<1> QED BY <1>1, <1>2, <1>3, <1>4 DEF Next

\* What a step may do to a row: none but a row that waits, runs or was never made changes, except
\* that a publication's receipt settles its state.
LEMMA RowChanges ==
    ASSUME IndInv, Next, NEW o \in Ops
    PROVE  \/ op'[o] = op[o]
           \/ op[o].state \in Active \cup {"absent"}
           \/ op[o].state = "publication-pending" /\ op'[o].receipt = op[o].receipt
<1>1. op \in [Ops -> Rows] /\ op[o] \in Rows
  BY Types DEF IndInv
<1>2. ASSUME NEW p \in Ops, Create(p) \/ Lapse(p) \/ Reconcile(p)
      PROVE  \/ op'[o] = op[o]
             \/ op[o].state \in Active \cup {"absent"}
             \/ op[o].state = "publication-pending" /\ op'[o].receipt = op[o].receipt
  <2>1. CASE Create(p) \/ Lapse(p)
    BY <1>1, <2>1 DEF Create, Lapse, Active
  <2>2. CASE Reconcile(p)
    <3>1. PICK outcome \in Terminal : op' = [op EXCEPT ![p].state = outcome]
      BY <2>2 DEF Reconcile, Terminal
    <3>2. CASE p = o
      <4>1. op'[o] = [op[o] EXCEPT !.state = outcome]
        BY <1>1, <3>1, <3>2
      <4>2. op'[o].receipt = op[o].receipt
        BY <1>1, <4>1 DEF Rows
      <4> QED BY <2>2, <3>2, <4>2 DEF Reconcile
    <3>3. CASE p # o
      BY <1>1, <3>1, <3>3
    <3> QED BY <3>2, <3>3
  <2> QED BY <1>2, <2>1, <2>2
<1>3. ASSUME NEW w \in Workers, Work(w)
      PROVE  op'[o] = op[o] \/ op[o].state \in Active
  <2>1. CASE \E p \in Ops : Claim(w, p)
    BY <1>1, <2>1 DEF Claim, Claimable, Active
  <2>2. CASE Heartbeat(w) \/ Prepare(w) \/ RecordCommit(w) \/ Complete(w) \/ Finish(w)
    <3>1. op[worker[w].op].state = "running" /\ \A p \in Ops : p # worker[w].op => op'[p] = op[p]
      BY <1>1, <2>2 DEF Heartbeat, Prepare, RecordCommit, Complete, Finish, Update, Owns
    <3> QED BY <3>1 DEF Active
  <2>3. CASE \/ ReadClaim(w) \/ CheckReceipt(w) \/ BadInput(w) \/ Acquire(w) \/ Bootstrap(w) \/ Import(w)
             \/ NotImported(w) \/ Commit(w) \/ ReadPrepared(w) \/ Trouble(w) \/ Vanish(w)
    BY <2>3 DEF ReadClaim, CheckReceipt, BadInput, Acquire, Bootstrap, Import, NotImported, Commit,
                ReadPrepared, Trouble, Vanish
  <2> QED BY <1>3, <2>1, <2>2, <2>3 DEF Work
<1>4. CASE SiteAcquire \/ SiteCommit \/ SiteReset \/ LeaseOverdue
  BY <1>4 DEF SiteAcquire, SiteCommit, SiteReset, LeaseOverdue
<1> QED BY <1>2, <1>3, <1>4 DEF Next

-----------------------------------------------------------------------------
(***************************************************************************)
(* Theorems.                                                               *)
(***************************************************************************)

\* The inductive invariant holds in every behaviour of the operations and their consumers.
\* (d1-operation-repository.ts, runStaticArtifactOperation)
THEOREM Invariance == Spec => []IndInv
BY InitInv, NextInv, PTL DEF Spec

\* Every row, consumer and lease keeps its shape, and every counter its bound.
\* (d1-operation-repository.ts, worker.ts)
THEOREM TypeCorrect == Spec => []TypeOK
<1>1. IndInv => TypeOK
  BY DEF IndInv
<1> QED BY <1>1, Invariance, PTL

\* The site's history holds at most one commit of an operation, however often it is claimed,
\* retried or taken over.
\* (runStaticArtifactOperation, shouldRecoverPreparedCommit, the importer's records)
THEOREM ImportsOnce == Spec => []ImportedOnce
<1>1. IndInv => ImportedOnce
  BY DEF IndInv
<1> QED BY <1>1, Invariance, PTL

\* A completed operation's receipt names a commit that was applied and that it made itself.
\* (complete, shouldRecoverPreparedCommit)
THEOREM ReceiptsAreOwn == Spec => []ReceiptIsOwnCommit
<1>1. IndInv => ReceiptIsOwnCommit
  BY DEF IndInv, ReceiptIsOwnCommit, RowAgrees, Landed
<1> QED BY <1>1, Invariance, PTL

\* The row of an operation that can be claimed names the commit it made, if it made one.
\* (prepareCommit before commitLease)
THEOREM CommitsArePrepared == Spec => []CommitIsPrepared
<1>1. IndInv => CommitIsPrepared
  BY DEF IndInv, CommitIsPrepared, CommitIsNamed
<1> QED BY <1>1, Invariance, PTL

\* An outcome is final, and a receipt is written once.
\* (terminalBatch, reconcilePublication)
THEOREM OutcomesStand == Spec => OutcomeStands
<1> DEFINE Stands == \A o \in Ops :
             /\ op[o].state \in Terminal => op'[o] = op[o]
             /\ op[o].receipt # None => op'[o].receipt = op[o].receipt
<1>1. IndInv /\ [Next]_vars => [Stands]_vars
  <2> SUFFICES ASSUME IndInv, Next PROVE Stands
    BY DEF vars
  <2> SUFFICES ASSUME NEW o \in Ops
               PROVE  /\ op[o].state \in Terminal => op'[o] = op[o]
                      /\ op[o].receipt # None => op'[o].receipt = op[o].receipt
    OBVIOUS
  <2>1. op[o].receipt # None => op[o].state \notin Active \cup {"absent"}
    BY DEF IndInv, RowAgrees
  <2> QED BY <2>1, RowChanges DEF Active, Terminal
<1> QED BY <1>1, Invariance, PTL DEF Spec, OutcomeStands

=============================================================================
