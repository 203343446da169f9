-------------------------- MODULE PublicationProofs --------------------------
(***************************************************************************)
(* Proofs about Publication, for any number of consumers, routes, revisions*)
(* and faults: what is published has its pages and moves forward, and an   *)
(* operation is told what its job's one receipt says, whichever consumers  *)
(* drained the job and wherever they stopped.                              *)
(***************************************************************************)
EXTENDS Publication, WellFoundedInduction, TLAPS

(***************************************************************************)
(* The inductive invariant.                                                *)
(***************************************************************************)

DrainerStates == [pc: Working \cup Leaving \cup {"idle"}, job: Revisions \cup {None},
                  seen: Claims \cup {None}, claimed: BOOLEAN, work: Progress \cup {None},
                  current: Publications \cup {None}, outcome: Outcomes \cup {None}]

SiteStates == [pc: {"idle", "leased", "quiet", "mutation", "import", "wake", "complete", "again"},
               revision: Revisions]

\* Every route that a publication shows has its page.
Rendered(publication) ==
    \A rt \in Routes : publication.routes[rt] # 0 => <<publication.routes[rt], rt>> \in pages

\* The pages of the routes that a job notes as rendered.
Noted(r, work) == \A rt \in work.rendered : <<r, rt>> \in pages

\* What is written about a revision by those who drain its job, one object after another.
JobAgrees(r) ==
    /\ op[r] \in Outcomes => op[r] = receipt[r]
    /\ receipt[r] = "promoted" => r \in wentLive
    /\ r \in deleted => receipt[r] # None
    /\ receipt[r] = "orphaned" => receipts[jobs[r].version] # r
    /\ progress[r] # None => Noted(r, progress[r])
    /\ op[r] # "none" \/ dispatch[r] # "none" \/ receipt[r] # None =>
        jobs[r] # None /\ jobs[r].version <= version
    /\ jobs[r] # None => r <= site.revision /\ jobs[r].version <= version + 1

\* A mutation's job is for the version its commit makes, and is woken after it.
SiteAgrees ==
    /\ site.pc \in {"mutation", "import", "wake", "complete", "again"} => jobs[site.revision] # None
    /\ site.pc \in {"quiet", "mutation", "import"} =>
        dispatch[site.revision] = "none" /\ op[site.revision] = "none"
    /\ site.pc \in {"mutation", "import"} /\ basis[Site] # None =>
        jobs[site.revision].version = basis[Site].version + 1
    /\ site.pc \in {"wake", "complete", "again"} => jobs[site.revision].version <= version
    /\ site.pc = "leased" =>
        /\ site.revision < MaxRevisions
        /\ basis[Site] # None /\ basis[Site].version < MaxVersion
        /\ \A r \in Revisions : jobs[r] # None => jobs[r].version <= basis[Site].version + 1

\* A job for a later version than v is of a later revision than p.
Later(v, p) == \A r \in Revisions : jobs[r] # None /\ jobs[r].version > v => r > p

\* Versions and revisions are drawn in one order.
Ordered ==
    /\ \A r, q \in Revisions : jobs[r] # None /\ jobs[q] # None /\ r < q => jobs[r].version <= jobs[q].version
    /\ pointer # None => pointer <= site.revision /\ Later(version, pointer)
    /\ \A w \in Writers : basis[w] # None =>
        /\ basis[w].version <= version
        /\ basis[w].pointer # None =>
            basis[w].pointer <= site.revision /\ Later(basis[w].version, basis[w].pointer)
    /\ operator # None => /\ basis[Operator] # None /\ basis[Operator].pointer # None
                          /\ \A rt \in operator : <<basis[Operator].pointer, rt>> \in pages

PublishedAgrees ==
    /\ Rendered(published)
    /\ published.revision <= site.revision
    /\ Later(published.version, published.revision)
    /\ \A rt \in Routes : published.routes[rt] <= published.revision
    /\ published.source # None => published.source \in wentLive

\* What a consumer in the state s relies on.  It has seen what it is about to replace, and
\* the pages of what it has noted.
Promoting == {"plan", "page", "note", "promote"}
Concluding == {"mark", "receipt", "settle", "delete"}

Knows(s) ==
    /\ s.pc # "idle" => s.job \in Revisions /\ dispatch[s.job] # "none"
    /\ s.pc \in Promoting \cup {"mark"} => s.work # None /\ Noted(s.job, s.work)
    /\ s.pc \in Promoting =>
        /\ s.current # None /\ Rendered(s.current)
        /\ s.current.edition <= published.edition
        /\ s.current.edition = published.edition => s.current = published
        /\ s.current.version < jobs[s.job].version
    /\ s.pc \in {"page", "note"} => Todo(s.work) # {}
    /\ s.pc = "note" => <<s.job, Min(Todo(s.work))>> \in pages
    /\ s.pc = "promote" => Todo(s.work) = {}
    /\ s.pc \in Concluding => s.outcome # None /\ (s.outcome = "promoted" => s.job \in wentLive)
    /\ s.pc \in Concluding /\ s.outcome = "orphaned" => receipts[jobs[s.job].version] # s.job
    /\ s.pc \in {"settle", "delete"} => receipt[s.job] = s.outcome

IndInv ==
    /\ TypeOK
    /\ \A r \in Revisions : JobAgrees(r)
    /\ SiteAgrees
    /\ Ordered
    /\ PublishedAgrees
    /\ \A d \in Drainers : Knows(drainer[d])

-----------------------------------------------------------------------------
(***************************************************************************)
(* Types.                                                                  *)
(***************************************************************************)

(* What the assumptions say of the constants. *)
LEMMA Constants ==
    /\ None \notin Revisions /\ None \notin Jobs /\ None \notin Leases /\ None \notin Claims
    /\ None \notin Progress /\ None \notin Publications /\ None \notin Outcomes /\ None \notin Drainers
    /\ Site \in Writers /\ Operator \in Writers /\ Drainers \subseteq Writers
    /\ Site # Operator /\ Site \notin Drainers /\ Operator \notin Drainers
    /\ MaxRevisions \in Nat /\ MaxVersion \in Nat /\ MaxEditions \in Nat /\ MaxFaults \in Nat
    /\ 1 \in Revisions /\ 1 \in Versions /\ 1 \in 1..MaxEditions
    /\ Revisions \subseteq Nat \ {0} /\ Versions \subseteq Nat \ {0} /\ Routes \subseteq Nat
BY NoneAssumption, WriterAssumption, RouteAssumption, BoundAssumption DEF Revisions, Versions, Writers

(* The parts of the type invariant. *)
LEMMA Types ==
    ASSUME TypeOK
    PROVE  /\ version \in Versions /\ version \in Nat /\ pointer \in Revisions \cup {None}
           /\ receipts \in [Versions -> Revisions \cup {None}]
           /\ basis \in [Writers -> Leases \cup {None}] /\ holders \in SUBSET Writers
           /\ content \in [Revisions -> [Routes -> 0..MaxRevisions]]
           /\ jobs \in [Revisions -> Jobs \cup {None}] /\ deleted \in SUBSET Revisions
           /\ dispatch \in [Revisions -> {"none", "open", "done", "dead"}]
           /\ op \in [Revisions -> {"none", "running", "pending"} \cup Outcomes]
           /\ receipt \in [Revisions -> Outcomes \cup {None}]
           /\ claim \in [Revisions -> Claims \cup {None}]
           /\ progress \in [Revisions -> Progress \cup {None}]
           /\ pages \in SUBSET (Revisions \X Routes) /\ published \in Publications
           /\ drainer \in [Drainers -> DrainerStates]
           /\ site \in SiteStates /\ site.revision \in Revisions /\ site.revision \in Nat
           /\ operator \in {None} \cup SUBSET Routes /\ wentLive \in SUBSET Revisions
           /\ faults \in 0..MaxFaults
BY Constants DEF TypeOK, DrainerStates, SiteStates

(* The locals of a consumer. *)
LEMMA DrainerFields ==
    ASSUME NEW s \in DrainerStates
    PROVE  /\ s.pc \in Working \cup Leaving \cup {"idle"} /\ s.job \in Revisions \cup {None}
           /\ s.seen \in Claims \cup {None} /\ s.claimed \in BOOLEAN /\ s.work \in Progress \cup {None}
           /\ s.current \in Publications \cup {None} /\ s.outcome \in Outcomes \cup {None}
BY DEF DrainerStates

(* An idle consumer. *)
LEMMA IdleTyped == Idle \in DrainerStates /\ Idle.pc = "idle"
BY Constants DEF Idle, DrainerStates

(* The fields of published/current.json. *)
LEMMA PublicationFields ==
    ASSUME NEW p \in Publications
    PROVE  /\ p.version \in Versions /\ p.version \in Nat /\ p.revision \in Revisions /\ p.revision \in Nat
           /\ p.source \in Revisions \cup {None} /\ p.routes \in [Routes -> 0..MaxRevisions]
           /\ p.edition \in 1..MaxEditions /\ p.edition \in Nat
           /\ \A rt \in Routes : p.routes[rt] \in Nat
<1>1. /\ p.version \in Versions /\ p.revision \in Revisions /\ p.source \in Revisions \cup {None}
      /\ p.routes \in [Routes -> 0..MaxRevisions] /\ p.edition \in 1..MaxEditions
  BY DEF Publications
<1>2. \A rt \in Routes : p.routes[rt] \in Nat
  BY <1>1, Constants
<1>3. p.version \in Nat /\ p.revision \in Nat
  BY <1>1, Constants
<1>4. p.edition \in Nat
  <2>1. \A n \in 1..MaxEditions : n \in Nat
    BY Constants
  <2> QED BY <1>1, <2>1
<1> QED BY <1>1, <1>2, <1>3, <1>4

(* The fields of the progress object. *)
LEMMA WorkFields ==
    ASSUME NEW work \in Progress
    PROVE  /\ work.plan.upsert \in SUBSET Routes /\ work.plan.remove \in SUBSET Routes
           /\ work.rendered \in SUBSET Routes /\ Todo(work) \in SUBSET Routes
           /\ work.plan \in Plans
BY DEF Progress, Plans, Todo

(* The fields of a job. *)
LEMMA JobFields ==
    ASSUME NEW j \in Jobs
    PROVE  j.version \in Versions /\ j.version \in Nat /\ j.changes \in Mutations
BY Constants DEF Jobs

(* The fields of a lease. *)
LEMMA LeaseFields ==
    ASSUME NEW l \in Leases
    PROVE  l.version \in Versions /\ l.version \in Nat /\ l.pointer \in Revisions \cup {None}
BY Constants DEF Leases

\* What can be granted.
LEMMA CurrentTyped ==
    ASSUME TypeOK
    PROVE  /\ History!Current \in Leases /\ History!Current # None
           /\ History!Current.version = version /\ History!Current.pointer = pointer
BY Types, Constants DEF History!Current, Leases

\* A set of numbers that is not empty has a least element.
LEMMA LeastElement ==
    ASSUME NEW S \in SUBSET Nat, S # {}
    PROVE  Min(S) \in S /\ \A n \in S : Min(S) <= n
<1>1. PICK m \in S : \A n \in S : <<n, m>> \notin OpToRel(<, Nat)
  BY NatLessThanWellFounded, WFMin
<1>2. \A n \in S : ~(n < m)
  BY <1>1 DEF OpToRel
<1>3. \A n \in S : m <= n
  BY <1>2
<1> QED BY <1>3 DEF Min

\* The next route of a plan.
LEMMA NextRoute ==
    ASSUME NEW work \in Progress, Todo(work) # {}
    PROVE  Min(Todo(work)) \in Todo(work) /\ Min(Todo(work)) \in Routes
BY WorkFields, Constants, LeastElement

-----------------------------------------------------------------------------
(***************************************************************************)
(* What a step leaves true.                                                *)
(***************************************************************************)

\* The history goes on: what was not committed as a version is never committed as it later.
HistoryOnward ==
    /\ version' \in {version, version + 1}
    /\ \A v \in Versions : v <= version => receipts'[v] \in {receipts[v], None}

\* What a job's objects and rows never take back.
Onward ==
    /\ HistoryOnward
    /\ pages \subseteq pages' /\ wentLive \subseteq wentLive'
    /\ published' = published \/ published'.edition > published.edition
    /\ published'.edition \in Nat
    /\ \A r \in Revisions :
        /\ jobs[r] # None => jobs'[r] = jobs[r]
        /\ dispatch[r] # "none" => dispatch'[r] # "none"
        /\ receipt[r] # None => receipt'[r] = receipt[r]

(* A step that leaves the history as it is. *)
LEMMA HistoryStays ==
    ASSUME UNCHANGED <<version, receipts>>
    PROVE  HistoryOnward
BY DEF HistoryOnward

\* A job that was due and is not in the history does not enter it again.
LEMMA NotAgain ==
    ASSUME IndInv, Onward, NEW r \in Revisions, jobs[r] # None, jobs[r].version <= version,
           receipts[jobs[r].version] # r
    PROVE  receipts'[jobs'[r].version] # r
<1>1. jobs'[r] = jobs[r] /\ jobs[r].version \in Versions /\ r # None
  BY Types, JobFields, Constants DEF IndInv, Onward
<1> QED BY <1>1 DEF Onward, HistoryOnward

\* A consumer may rely on the same as before.
LEMMA KnowsStays ==
    ASSUME IndInv, Onward, NEW s \in DrainerStates, Knows(s)
    PROVE  Knows(s)'
<1>1. s.pc # "idle" => s.job \in Revisions /\ dispatch'[s.job] # "none"
  BY DEF Knows, Onward
<1>2. s.pc \in Promoting \cup {"mark"} => s.work # None /\ Noted(s.job, s.work)'
  BY DEF Knows, Onward, Noted
<1>3. ASSUME s.pc \in Promoting
      PROVE  /\ s.current # None /\ Rendered(s.current)'
             /\ s.current.edition <= published'.edition
             /\ s.current.edition = published'.edition => s.current = published'
             /\ s.current.version < jobs'[s.job].version
  <2>1. /\ s.current # None /\ Rendered(s.current) /\ s.current.edition <= published.edition
        /\ s.current.edition = published.edition => s.current = published
        /\ s.current.version < jobs[s.job].version
    BY <1>3 DEF Knows
  <2>2. s.current \in Publications /\ published \in Publications
    BY <2>1, DrainerFields, Types DEF IndInv
  <2>3. s.current.edition \in Nat /\ published.edition \in Nat
    BY <2>2, PublicationFields
  <2>4. jobs'[s.job] = jobs[s.job]
    <3>1. s.job \in Revisions /\ dispatch[s.job] # "none"
      BY <1>3 DEF Knows, Promoting
    <3> QED BY <3>1 DEF IndInv, JobAgrees, Onward
  <2>5. Rendered(s.current)'
    BY <2>1 DEF Rendered, Onward
  <2>6. CASE published' = published
    BY <2>1, <2>4, <2>5, <2>6
  <2>7. CASE published'.edition > published.edition
    BY <2>1, <2>3, <2>4, <2>5, <2>7 DEF Onward
  <2> QED BY <2>6, <2>7 DEF Onward
<1>4. s.pc = "note" => <<s.job, Min(Todo(s.work))>> \in pages'
  BY DEF Knows, Onward
<1>5. s.pc \in Concluding => s.outcome # None /\ (s.outcome = "promoted" => s.job \in wentLive')
  BY DEF Knows, Onward
<1>6. ASSUME s.pc \in {"settle", "delete"}
      PROVE  receipt'[s.job] = s.outcome
  BY <1>6 DEF Knows, Onward, Concluding
<1>7. ASSUME s.pc \in Concluding, s.outcome = "orphaned"
      PROVE  receipts'[jobs'[s.job].version] # s.job
  <2>1. /\ receipts[jobs[s.job].version] # s.job /\ s.job \in Revisions /\ dispatch[s.job] # "none"
    BY <1>7 DEF Knows, Concluding
  <2> QED BY <2>1, NotAgain DEF IndInv, JobAgrees
<1>8. (s.pc \in {"page", "note"} => Todo(s.work) # {}) /\ (s.pc = "promote" => Todo(s.work) = {})
  BY DEF Knows
<1> QED BY <1>1, <1>2, <1>3, <1>4, <1>5, <1>6, <1>7, <1>8 DEF Knows

\* The job of a consumer at work.
LEMMA AtWorkOn ==
    ASSUME IndInv, NEW d \in Drainers, drainer[d].pc # "idle"
    PROVE  /\ drainer[d] \in DrainerStates /\ Knows(drainer[d])
           /\ drainer[d].job \in Revisions /\ dispatch[drainer[d].job] # "none"
           /\ jobs[drainer[d].job] # None /\ jobs[drainer[d].job] \in Jobs
           /\ JobAgrees(drainer[d].job)
<1>1. drainer[d] \in DrainerStates /\ Knows(drainer[d])
  BY Types DEF IndInv
<1>2. drainer[d].job \in Revisions /\ dispatch[drainer[d].job] # "none"
  BY <1>1 DEF Knows
<1>3. JobAgrees(drainer[d].job)
  BY <1>2 DEF IndInv
<1>4. jobs[drainer[d].job] # None
  BY <1>2, <1>3 DEF JobAgrees
<1> QED BY <1>1, <1>2, <1>3, <1>4, Types DEF IndInv

\* Order rests on jobs, leases and what the operator holds.
LEMMA OrderKept ==
    ASSUME IndInv, UNCHANGED <<version, pointer, jobs>>, site'.revision = site.revision,
           \A w \in Writers : basis'[w] \in {basis[w], None, History!Current},
           operator' # None => /\ basis'[Operator] # None /\ basis'[Operator].pointer # None
                               /\ \A rt \in operator' : <<basis'[Operator].pointer, rt>> \in pages'
    PROVE  Ordered'
<1>1. ASSUME NEW w \in Writers, basis'[w] # None
      PROVE  /\ basis'[w].version <= version
             /\ basis'[w].pointer # None =>
                    basis'[w].pointer <= site.revision /\ Later(basis'[w].version, basis'[w].pointer)
  <2>1. CASE basis'[w] = basis[w]
    BY <1>1, <2>1 DEF IndInv, Ordered
  <2>2. CASE basis'[w] = History!Current
    <3>1. History!Current.version = version /\ History!Current.pointer = pointer /\ version \in Nat
      BY CurrentTyped, Types DEF IndInv
    <3> QED BY <2>2, <3>1 DEF IndInv, Ordered
  <2> QED BY <1>1, <2>1, <2>2
<1>2. \A w \in Writers : basis'[w] # None =>
        /\ basis'[w].version <= version'
        /\ basis'[w].pointer # None =>
            /\ basis'[w].pointer <= site'.revision
            /\ \A r \in Revisions : jobs'[r] # None /\ jobs'[r].version > basis'[w].version => r > basis'[w].pointer
  BY <1>1 DEF Later
<1>3. Ordered'
  <2>1. \A r, q \in Revisions : jobs'[r] # None /\ jobs'[q] # None /\ r < q => jobs'[r].version <= jobs'[q].version
    BY DEF IndInv, Ordered
  <2>2. pointer' # None =>
            /\ pointer' <= site'.revision
            /\ \A r \in Revisions : jobs'[r] # None /\ jobs'[r].version > version' => r > pointer'
    BY DEF IndInv, Ordered, Later
  <2> QED BY <1>2, <2>1, <2>2 DEF Ordered, Later
<1> QED BY <1>3

\* The site's own state and the operator's are no business of a consumer's.
LEMMA OrderStays ==
    ASSUME IndInv, UNCHANGED <<version, pointer, jobs, site, operator>>, pages \subseteq pages',
           \A w \in {Site, Operator} : basis'[w] = basis[w],
           \A w \in Writers : basis'[w] \in {basis[w], None, History!Current},
           \A r \in Revisions : /\ dispatch[r] = "none" => dispatch'[r] = "none"
                                /\ op[r] = "none" => op'[r] = "none"
    PROVE  Ordered' /\ SiteAgrees'
<1>1. operator' # None => /\ basis'[Operator] # None /\ basis'[Operator].pointer # None
                          /\ \A rt \in operator' : <<basis'[Operator].pointer, rt>> \in pages'
  BY DEF IndInv, Ordered
<1>2. Ordered'
  BY <1>1, OrderKept
<1>3. SiteAgrees'
  <2>1. SiteAgrees /\ site.revision \in Revisions /\ basis'[Site] = basis[Site]
    BY Types DEF IndInv
  <2>2. site.pc \in {"quiet", "mutation", "import"} =>
            dispatch'[site.revision] = "none" /\ op'[site.revision] = "none"
    BY <2>1 DEF SiteAgrees
  <2> QED BY <2>1, <2>2 DEF SiteAgrees
<1> QED BY <1>2, <1>3

\* What a revision's job has is as it was.
LEMMA JobStays ==
    ASSUME IndInv, Onward, NEW r \in Revisions, jobs'[r] = jobs[r],
           site'.revision \in {site.revision, site.revision + 1},
           op'[r] = op[r], receipt'[r] = receipt[r], r \in deleted' => r \in deleted,
           progress'[r] \in {progress[r], None}, dispatch'[r] = "none" <=> dispatch[r] = "none"
    PROVE  JobAgrees(r)'
<1>1. JobAgrees(r)
  BY DEF IndInv
<1>2. progress'[r] # None => \A rt \in progress'[r].rendered : <<r, rt>> \in pages'
  BY <1>1 DEF JobAgrees, Noted, Onward
<1>3. /\ jobs'[r] # None => r <= site'.revision /\ jobs'[r].version <= version' + 1
      /\ jobs'[r] # None /\ jobs[r].version <= version => jobs'[r].version <= version'
  <2>1. version \in Nat /\ site.revision \in Nat /\ r \in Nat /\ (jobs[r] # None => jobs[r].version \in Nat)
    BY Types, JobFields, Constants DEF IndInv
  <2>2. version' \in {version, version + 1}
    BY DEF Onward, HistoryOnward
  <2> QED BY <1>1, <2>1, <2>2 DEF JobAgrees
<1>4. receipt'[r] = "orphaned" => receipts'[jobs'[r].version] # r
  <2>1. ASSUME receipt[r] = "orphaned"
        PROVE  receipts[jobs[r].version] # r /\ jobs[r] # None /\ jobs[r].version <= version
    BY <1>1, <2>1, Constants DEF JobAgrees, Outcomes
  <2> QED BY <2>1, NotAgain
<1>5. op'[r] # "none" \/ dispatch'[r] # "none" \/ receipt'[r] # None =>
        jobs'[r] # None /\ jobs'[r].version <= version'
  BY <1>1, <1>3 DEF JobAgrees
<1> QED BY <1>1, <1>2, <1>3, <1>4, <1>5 DEF JobAgrees, Onward, Noted

(* What is published stays sound while pages and live jobs only get more. *)
LEMMA PublishedStays ==
    ASSUME IndInv, UNCHANGED published, pages \subseteq pages', wentLive \subseteq wentLive',
           site'.revision \in {site.revision, site.revision + 1},
           \A r \in Revisions : jobs'[r] = jobs[r] \/ r > site.revision
    PROVE  PublishedAgrees'
<1>1. site.revision \in Nat /\ published.revision \in Nat
  BY Types, PublicationFields DEF IndInv
<1>2. published'.revision <= site'.revision
  BY <1>1 DEF IndInv, PublishedAgrees
<1>3. ASSUME NEW r \in Revisions, jobs'[r] # None, jobs'[r].version > published'.version
      PROVE  r > published'.revision
  <2>1. CASE jobs'[r] = jobs[r]
    BY <1>3, <2>1 DEF IndInv, PublishedAgrees, Later
  <2>2. CASE r > site.revision
    <3>1. r \in Nat /\ published.revision <= site.revision
      BY Constants DEF IndInv, PublishedAgrees
    <3> QED BY <1>1, <2>2, <3>1
  <2> QED BY <2>1, <2>2
<1> QED BY <1>2, <1>3 DEF IndInv, PublishedAgrees, Rendered, Later

\* Nothing is published, noted or told.
LEMMA NothingOnward ==
    ASSUME IndInv, HistoryOnward, UNCHANGED <<jobs, published, receipt>>, pages \subseteq pages', wentLive \subseteq wentLive',
           \A r \in Revisions : dispatch[r] # "none" => dispatch'[r] # "none"
    PROVE  Onward
<1>1. published.edition \in Nat
  BY Types, PublicationFields DEF IndInv
<1> QED BY <1>1 DEF Onward

\* The types of what a drain writes.
ObjectsTyped ==
    /\ deleted \in SUBSET Revisions
    /\ dispatch \in [Revisions -> {"none", "open", "done", "dead"}]
    /\ op \in [Revisions -> {"none", "running", "pending"} \cup Outcomes]
    /\ receipt \in [Revisions -> Outcomes \cup {None}]
    /\ claim \in [Revisions -> Claims \cup {None}]
    /\ progress \in [Revisions -> Progress \cup {None}]
    /\ pages \in SUBSET (Revisions \X Routes)
    /\ published \in Publications
    /\ wentLive \in SUBSET Revisions
    /\ faults \in 0..MaxFaults

\* A lease of w is granted, forgotten or left behind.
LeaseMoves(w) ==
    /\ basis' \in {basis, [basis EXCEPT ![w] = History!Current], [basis EXCEPT ![w] = None]}
    /\ holders' \in SUBSET (holders \cup {w})
    /\ UNCHANGED <<version, pointer, receipts>>

(* A step of the coordinator's leases gives nobody else one. *)
LEMMA LeaseTyped ==
    ASSUME IndInv, NEW w \in Writers, LeaseMoves(w)
    PROVE  /\ basis' \in [Writers -> Leases \cup {None}] /\ holders' \in SUBSET Writers
           /\ \A u \in Writers : basis'[u] \in {basis[u], None, History!Current}
           /\ \A u \in Writers \ {w} : basis'[u] = basis[u]
<1>1. basis \in [Writers -> Leases \cup {None}] /\ holders \in SUBSET Writers /\ History!Current \in Leases
  BY Types, CurrentTyped DEF IndInv
<1> QED BY <1>1 DEF LeaseMoves

\* A consumer goes on to the state s, and writes what the drain may write.
LEMMA DrainStep ==
    ASSUME IndInv, NEW d \in Drainers, NEW s \in DrainerStates, drainer' = [drainer EXCEPT ![d] = s],
           Knows(s)', Onward, LeaseMoves(d), UNCHANGED <<content, jobs, site, operator>>, ObjectsTyped',
           \A r \in Revisions : JobAgrees(r)', PublishedAgrees',
           \A r \in Revisions : /\ dispatch[r] = "none" => dispatch'[r] = "none"
                                /\ op[r] = "none" => op'[r] = "none"
    PROVE  IndInv'
<1>1. d \in Writers /\ d # Site /\ d # Operator /\ Site \in Writers /\ Operator \in Writers
  BY Constants
<1>2. drainer \in [Drainers -> DrainerStates]
  BY Types DEF IndInv
<1>3. drainer' \in [Drainers -> DrainerStates] /\ drainer'[d] = s /\ \A e \in Drainers \ {d} : drainer'[e] = drainer[e]
  BY <1>2
<1>4. /\ basis' \in [Writers -> Leases \cup {None}] /\ holders' \in SUBSET Writers
      /\ \A u \in Writers : basis'[u] \in {basis[u], None, History!Current}
      /\ \A u \in Writers \ {d} : basis'[u] = basis[u]
  BY <1>1, LeaseTyped
<1>5. TypeOK'
  BY <1>3, <1>4 DEF IndInv, TypeOK, ObjectsTyped, LeaseMoves, DrainerStates
<1>6. ASSUME NEW e \in Drainers PROVE Knows(drainer[e])'
  <2>1. CASE e = d
    BY <1>3, <2>1 DEF Knows, Noted, Rendered
  <2>2. CASE e # d
    <3>1. PICK t \in DrainerStates : t = drainer[e] /\ t = drainer'[e]
      BY <1>2, <1>3, <2>2
    <3>2. Knows(drainer[e])
      BY DEF IndInv
    <3>3. Knows(t)
      BY <3>1, <3>2
    <3>4. Knows(t)'
      BY <3>3, KnowsStays
    <3> QED BY <3>1, <3>4 DEF Knows, Noted, Rendered
  <2> QED BY <2>1, <2>2
<1>7. \A w \in {Site, Operator} : basis'[w] = basis[w]
  BY <1>1, <1>4
<1>8. Ordered' /\ SiteAgrees'
  BY <1>4, <1>7, OrderStays DEF LeaseMoves, Onward
<1> QED BY <1>5, <1>6, <1>8 DEF IndInv

-----------------------------------------------------------------------------
(***************************************************************************)
(* The drain of a job, step by step.                                       *)
(***************************************************************************)

\* A consumer moves, and keeps what it has.
Keeps(t, s) ==
    /\ t.job = s.job /\ t.seen = s.seen /\ t.claimed = s.claimed /\ t.work = s.work
    /\ t.current = s.current /\ t.outcome = s.outcome

(* A consumer that only moves on keeps what it read. *)
LEMMA PcTyped ==
    ASSUME NEW s \in DrainerStates, NEW pc \in Working \cup Leaving \cup {"idle"}
    PROVE  LET t == [s EXCEPT !.pc = pc] IN t \in DrainerStates /\ t.pc = pc /\ Keeps(t, s)
BY DEF DrainerStates, Keeps

\* Where nothing is expected of a consumer but its job.
Bare == {"idle", "read", "claim", "look"} \cup Leaving

(* A consumer that relies on nothing knows what it must. *)
LEMMA BareKnows ==
    ASSUME NEW s, s.pc \in Bare, s.pc # "idle" => s.job \in Revisions /\ dispatch[s.job] # "none"
    PROVE  Knows(s)
<1>1. /\ s.pc \notin Promoting /\ s.pc \notin Concluding /\ s.pc # "mark" /\ s.pc \notin {"page", "note"}
      /\ s.pc # "note" /\ s.pc # "promote" /\ s.pc \notin {"settle", "delete"} /\ s.pc # "delete"
      /\ s.pc \notin Promoting \cup {"mark"}
  BY DEF Bare, Leaving, Promoting, Concluding
<1> QED BY <1>1 DEF Knows

\* A consumer goes on, and nothing but its own state and its lease changes.
LEMMA MoveStep ==
    ASSUME IndInv, NEW d \in Drainers, NEW s \in DrainerStates, drainer' = [drainer EXCEPT ![d] = s],
           Knows(s), LeaseMoves(d),
           UNCHANGED <<content, bucket, rows, site, operator, wentLive>>, faults' \in 0..MaxFaults
    PROVE  IndInv'
<1>1. Onward
  BY HistoryStays, NothingOnward DEF bucket, rows, LeaseMoves
<1>2. Knows(s)'
  BY <1>1, KnowsStays
<1>3. ObjectsTyped'
  BY Types DEF IndInv, ObjectsTyped, bucket, rows
<1>4. \A r \in Revisions : JobAgrees(r)'
  BY <1>1, JobStays DEF bucket, rows, LeaseMoves
<1>5. PublishedAgrees'
  BY PublishedStays DEF bucket
<1> QED BY <1>1, <1>2, <1>3, <1>4, <1>5, DrainStep DEF bucket, rows

\* The claim of a job is nobody's business but the claimants'.
LEMMA ClaimStep ==
    ASSUME IndInv, NEW d \in Drainers, NEW s \in DrainerStates, drainer' = [drainer EXCEPT ![d] = s],
           Knows(s), LeaseMoves(d), claim' \in [Revisions -> Claims \cup {None}],
           dispatch' \in [Revisions -> {"none", "open", "done", "dead"}],
           \A r \in Revisions : dispatch'[r] = "none" <=> dispatch[r] = "none",
           UNCHANGED <<content, jobs, deleted, receipt, progress, pages, published, op, site, operator,
                       wentLive, faults>>
    PROVE  IndInv'
<1>1. Onward
  BY HistoryStays, NothingOnward DEF LeaseMoves
<1>2. Knows(s)'
  BY <1>1, KnowsStays
<1>3. ObjectsTyped'
  BY Types DEF IndInv, ObjectsTyped
<1>4. \A r \in Revisions : JobAgrees(r)'
  BY <1>1, JobStays DEF LeaseMoves
<1>5. PublishedAgrees'
  BY PublishedStays
<1> QED BY <1>1, <1>2, <1>3, <1>4, <1>5, DrainStep

\* A lease stays, is forgotten or is granted.
LEMMA LeaseKinds ==
    ASSUME IndInv, NEW w \in Writers,
           History!Grant(w) \/ History!Forget(w) \/ UNCHANGED coordinator
               \/ (basis' = [basis EXCEPT ![w] = None] /\ UNCHANGED <<version, pointer, receipts, holders>>)
    PROVE  LeaseMoves(w)
BY Types DEF IndInv, LeaseMoves, History!Grant, History!Forget, coordinator

(* A delivery begins: its consumer has a dispatched job and perhaps a lease. *)
LEMMA TakeStep ==
    ASSUME IndInv, NEW d \in Drainers, NEW r \in Revisions, Take(d, r)
    PROVE  IndInv'
<1>1. /\ drainer[d].pc = "idle" /\ dispatch[r] = "open"
      /\ op' = [j \in Revisions |-> IF op[j] = "pending" /\ receipt[j] # None THEN receipt[j] ELSE op[j]]
      /\ UNCHANGED <<content, bucket, dispatch, site, operator, wentLive, faults>>
  BY DEF Take
<1>2. \/ History!Grant(d) /\ drainer' = [drainer EXCEPT ![d] = [Idle EXCEPT !.pc = "read", !.job = r]]
      \/ UNCHANGED coordinator /\ drainer' = drainer
  BY DEF Take
<1>3. drainer \in [Drainers -> DrainerStates] /\ d \in Writers
  BY Types, Constants DEF IndInv
<1>4. LeaseMoves(d)
  BY <1>2, <1>3, LeaseKinds
<1>5. PICK s \in DrainerStates : drainer' = [drainer EXCEPT ![d] = s] /\ Knows(s)
  <2>1. CASE History!Grant(d) /\ drainer' = [drainer EXCEPT ![d] = [Idle EXCEPT !.pc = "read", !.job = r]]
    <3>1. PICK s : s = [Idle EXCEPT !.pc = "read", !.job = r]
      OBVIOUS
    <3>2. s \in DrainerStates /\ s.pc = "read" /\ s.job = r
      BY <3>1, IdleTyped DEF DrainerStates, Working
    <3>3. Knows(s)
      BY <1>1, <3>2, BareKnows DEF Bare
    <3> QED BY <2>1, <3>1, <3>2, <3>3
  <2>2. CASE drainer' = drainer
    <3>1. drainer[d] \in DrainerStates /\ Knows(drainer[d]) /\ drainer' = [drainer EXCEPT ![d] = drainer[d]]
      BY <1>3, <2>2 DEF IndInv
    <3>2. PICK s \in DrainerStates : s = drainer[d]
      BY <3>1
    <3>3. Knows(s) /\ drainer' = [drainer EXCEPT ![d] = s]
      BY <3>1, <3>2
    <3> QED BY <3>3
  <2> QED BY <1>2, <2>1, <2>2
<1>6. /\ op \in [Revisions -> {"none", "running", "pending"} \cup Outcomes] /\ receipt \in [Revisions -> Outcomes \cup {None}]
      /\ published.edition \in Nat
  BY Types, PublicationFields DEF IndInv
<1>7. \A j \in Revisions : op'[j] = IF op[j] = "pending" /\ receipt[j] # None THEN receipt[j] ELSE op[j]
  BY <1>1
<1>8. \A j \in Revisions : op'[j] = op[j] \/ (op[j] = "pending" /\ op'[j] = receipt[j] /\ op'[j] \in Outcomes)
  BY <1>6, <1>7
<1>9. Onward
  BY <1>1, <1>4, <1>6, HistoryStays DEF Onward, bucket, LeaseMoves
<1>10. op' \in [Revisions -> {"none", "running", "pending"} \cup Outcomes]
  BY <1>1, <1>6
<1>11. ObjectsTyped'
  BY <1>1, <1>10, Types DEF IndInv, ObjectsTyped, bucket
<1>12. ASSUME NEW j \in Revisions PROVE JobAgrees(j)'
  <2>1. CASE op'[j] = op[j]
    BY <1>1, <1>4, <1>9, <2>1, JobStays DEF bucket, LeaseMoves
  <2>2. CASE op[j] = "pending" /\ op'[j] = receipt[j] /\ op'[j] \in Outcomes
    <3>1. JobAgrees(j) /\ op[j] # "none"
      BY <2>2 DEF IndInv
    <3> QED BY <1>1, <1>4, <2>2, <3>1 DEF JobAgrees, Noted, bucket, LeaseMoves
  <2> QED BY <1>8, <2>1, <2>2
<1>13. PublishedAgrees'
  BY <1>1, PublishedStays DEF bucket
<1>14. Knows(s)'
  BY <1>5, <1>9, KnowsStays
<1> QED BY <1>1, <1>4, <1>5, <1>9, <1>11, <1>12, <1>13, <1>14, DrainStep DEF bucket

(* The job and its claim are read. *)
LEMMA ReadJobStep ==
    ASSUME IndInv, NEW d \in Drainers, ReadJob(d)
    PROVE  IndInv'
<1>1. PICK next \in {"done", "receipt", "failed", "pending", "claim"}, outcome \in {"orphaned", None} :
        /\ drainer' = [drainer EXCEPT ![d] = [@ EXCEPT !.pc = next, !.seen = claim[drainer[d].job], !.outcome = outcome]]
        /\ next = "receipt" => /\ outcome = "orphaned"
                               /\ receipts[jobs[drainer[d].job].version] # drainer[d].job
  BY DEF ReadJob, Renewed
<1>2. drainer[d].pc = "read" /\ UNCHANGED <<coordinator, content, bucket, rows, site, operator, wentLive, faults>>
  BY DEF ReadJob
<1>3. /\ drainer[d] \in DrainerStates /\ drainer[d].job \in Revisions /\ dispatch[drainer[d].job] # "none"
      /\ d \in Writers
  BY <1>2, AtWorkOn, Constants
<1>4. PICK seen \in Claims \cup {None} : seen = claim[drainer[d].job]
  BY <1>3, Types DEF IndInv
<1>5. PICK s : s = [drainer[d] EXCEPT !.pc = next, !.seen = seen, !.outcome = outcome]
  OBVIOUS
<1>6. s \in DrainerStates /\ s.pc = next /\ s.job = drainer[d].job /\ s.outcome = outcome
  <2>1. next \in Working \cup Leaving \cup {"idle"} /\ outcome \in Outcomes \cup {None}
    BY DEF Working, Leaving, Outcomes
  <2> QED BY <1>3, <1>5, <2>1 DEF DrainerStates
<1>7. drainer' = [drainer EXCEPT ![d] = s]
  BY <1>1, <1>4, <1>5
<1>8. Knows(s)
  <2>1. CASE next = "receipt"
    <3>1. /\ s.outcome # None /\ s.outcome # "promoted"
          /\ receipts[jobs[s.job].version] # s.job
      BY <1>1, <1>6, <2>1, Constants DEF Outcomes
    <3> QED BY <1>3, <1>6, <2>1, <3>1 DEF Knows, Promoting
  <2>2. CASE next # "receipt"
    <3>1. s.pc \in Bare
      BY <1>6, <2>2 DEF Bare, Leaving
    <3> QED BY <1>3, <1>6, <3>1, BareKnows
  <2> QED BY <2>1, <2>2
<1>9. LeaseMoves(d)
  BY <1>2, <1>3, LeaseKinds
<1>10. faults' \in 0..MaxFaults
  BY <1>2, Types DEF IndInv
<1> QED BY <1>2, <1>6, <1>7, <1>8, <1>9, <1>10, MoveStep

\* A consumer at work goes on with what it has.
LEMMA Goes ==
    ASSUME IndInv, NEW d \in Drainers, drainer[d].pc # "idle",
           NEW next \in Working \cup Leaving \cup {"idle"}, Go(d, next)
    PROVE  \E s \in DrainerStates :
                s.pc = next /\ Keeps(s, drainer[d]) /\ drainer' = [drainer EXCEPT ![d] = s]
<1>1. drainer[d] \in DrainerStates
  BY AtWorkOn
<1>2. PICK s : s = [drainer[d] EXCEPT !.pc = next]
  OBVIOUS
<1>3. s \in DrainerStates /\ s.pc = next /\ Keeps(s, drainer[d])
  BY <1>1, <1>2, PcTyped
<1>4. drainer' = [drainer EXCEPT ![d] = s]
  BY <1>2 DEF Go
<1> QED BY <1>3, <1>4

(* The claim is put under the etag that was read. *)
LEMMA ClaimPutStep ==
    ASSUME IndInv, NEW d \in Drainers, ClaimPut(d)
    PROVE  IndInv'
<1>1. /\ drainer[d].pc = "claim"
      /\ UNCHANGED <<coordinator, content, jobs, deleted, receipt, progress, pages, published, rows, site,
                     operator, wentLive, faults>>
  BY DEF ClaimPut
<1>2. /\ drainer[d] \in DrainerStates /\ drainer[d].job \in Revisions /\ dispatch[drainer[d].job] # "none"
      /\ d \in Writers /\ claim \in [Revisions -> Claims \cup {None}]
  BY <1>1, AtWorkOn, Constants, Types DEF IndInv
<1>3. PICK s \in DrainerStates :
        s.pc \in {"look", "pending"} /\ s.job = drainer[d].job /\ drainer' = [drainer EXCEPT ![d] = s]
  <2>1. CASE Go(d, "pending")
    <3>1. \E s \in DrainerStates :
            s.pc = "pending" /\ Keeps(s, drainer[d]) /\ drainer' = [drainer EXCEPT ![d] = s]
      BY <1>1, <2>1, Goes DEF Leaving
    <3> QED BY <3>1 DEF Keeps
  <2>2. CASE drainer' = [drainer EXCEPT ![d] = [@ EXCEPT !.pc = "look", !.seen = None, !.claimed = TRUE]]
    <3>1. PICK s : s = [drainer[d] EXCEPT !.pc = "look", !.seen = None, !.claimed = TRUE]
      OBVIOUS
    <3>2. s \in DrainerStates /\ s.pc = "look" /\ s.job = drainer[d].job
      BY <1>2, <3>1 DEF DrainerStates, Working
    <3> QED BY <2>2, <3>1, <3>2
  <2> QED BY <2>1, <2>2 DEF ClaimPut
<1>4. Knows(s)
  BY <1>2, <1>3, BareKnows DEF Bare, Leaving
<1>5. claim' \in [Revisions -> Claims \cup {None}]
  <2>1. [by |-> d, expired |-> FALSE] \in Claims
    BY DEF Claims
  <2> QED BY <1>2, <2>1 DEF ClaimPut
<1>6. LeaseMoves(d)
  BY <1>1, <1>2, LeaseKinds
<1>7. UNCHANGED <<dispatch, op>> /\ dispatch' \in [Revisions -> {"none", "open", "done", "dead"}]
  BY <1>1, Types DEF IndInv, rows
<1> QED BY <1>1, <1>3, <1>4, <1>5, <1>6, <1>7, ClaimStep

\* A plan is made of routes.
LEMMA PlanTyped ==
    ASSUME NEW publication \in Publications, NEW changes \in Mutations
    PROVE  publicationPlan(publication, changes) \in Plans
<1>1. changes.upsert \in SUBSET Routes /\ changes.remove \in SUBSET Routes
  BY RouteAssumption
<1>2. Existing(publication) \in SUBSET Routes
  BY DEF Existing
<1> QED BY <1>1, <1>2 DEF publicationPlan, Plans

\* What is known where a job with a plan goes on.
LEMMA PlanGoesOn ==
    ASSUME NEW d \in Drainers, NEW r \in Revisions, NEW work \in Progress, NEW next, next = AfterPlan(d, r, work)
    PROVE  /\ next \in {"promote", "note", "page", "failed"}
           /\ next = "promote" => Todo(work) = {}
           /\ next \in {"page", "note"} => Todo(work) # {}
           /\ next = "note" => <<r, Min(Todo(work))>> \in pages
BY DEF AfterPlan, Renewed

\* The look at what is published is what a plan relies on from then on.
LEMMA LookStep ==
    ASSUME IndInv, NEW d \in Drainers, Look(d)
    PROVE  IndInv'
<1>1. drainer[d].pc = "look" /\ UNCHANGED <<coordinator, content, bucket, rows, site, operator, wentLive, faults>>
  BY DEF Look
<1>2. PICK r \in Revisions : r = drainer[d].job
  BY <1>1, AtWorkOn
<1>3. /\ drainer[d] \in DrainerStates /\ dispatch[r] # "none" /\ d \in Writers
      /\ jobs[r] # None /\ jobs[r] \in Jobs /\ JobAgrees(r)
      /\ published \in Publications /\ progress[r] \in Progress \cup {None}
  BY <1>1, <1>2, AtWorkOn, Constants, Types DEF IndInv
<1>4. PICK work \in Progress :
        /\ work = IF progress[r] # None THEN progress[r]
                  ELSE [plan |-> publicationPlan(published, jobs[r].changes), rendered |-> {}]
        /\ Noted(r, work)
  <2>1. CASE progress[r] # None
    BY <1>3, <2>1 DEF JobAgrees
  <2>2. CASE progress[r] = None
    <3>1. PICK work : work = [plan |-> publicationPlan(published, jobs[r].changes), rendered |-> {}]
      OBVIOUS
    <3>2. publicationPlan(published, jobs[r].changes) \in Plans
      BY <1>3, JobFields, PlanTyped
    <3>3. work \in Progress /\ Noted(r, work)
      BY <3>1, <3>2 DEF Progress, Noted
    <3> QED BY <2>2, <3>1, <3>3
  <2> QED BY <2>1, <2>2
<1>5. PICK outcome \in Outcomes \cup {None} :
        outcome = IF Recovered(r) THEN "promoted" ELSE IF Superseded(r) THEN "superseded" ELSE None
  BY DEF Outcomes
<1>6. PICK next : next = IF outcome # None THEN Renewed(d, "receipt")
                         ELSE IF progress[r] # None THEN AfterPlan(d, r, work) ELSE Renewed(d, "plan")
  OBVIOUS
<1>7. drainer' = [drainer EXCEPT ![d] = [@ EXCEPT !.pc = next, !.outcome = outcome, !.work = work, !.current = published]]
  BY <1>2, <1>4, <1>5, <1>6 DEF Look
<1>8. /\ next \in {"receipt", "plan", "promote", "note", "page", "failed"}
      /\ next = "receipt" => outcome # None
      /\ next \in Promoting => outcome = None
      /\ next = "promote" => Todo(work) = {}
      /\ next \in {"page", "note"} => Todo(work) # {}
      /\ next = "note" => <<r, Min(Todo(work))>> \in pages
  <2>1. CASE outcome # None
    BY <1>6, <2>1 DEF Renewed, Promoting
  <2>2. CASE outcome = None /\ progress[r] # None
    BY <1>6, <2>2, PlanGoesOn
  <2>3. CASE outcome = None /\ progress[r] = None
    BY <1>6, <2>3 DEF Renewed
  <2> QED BY <2>1, <2>2, <2>3
<1>9. PICK current \in Publications : current = published
  BY <1>3
<1>10. PICK s : s = [drainer[d] EXCEPT !.pc = next, !.outcome = outcome, !.work = work, !.current = current]
  OBVIOUS
<1>11. /\ s \in DrainerStates /\ s.pc = next /\ s.job = r /\ s.outcome = outcome /\ s.work = work
       /\ s.current = current
  <2>1. next \in Working \cup Leaving \cup {"idle"}
    BY <1>8 DEF Working, Leaving
  <2> QED BY <1>2, <1>3, <1>10, <2>1 DEF DrainerStates
<1>12. drainer' = [drainer EXCEPT ![d] = s]
  BY <1>7, <1>9, <1>10
<1>13. Knows(s)
  <2>1. CASE next = "failed"
    BY <1>3, <1>8, <1>11, <2>1, BareKnows DEF Bare, Leaving
  <2>2. CASE next = "receipt"
    <3>1. outcome # "orphaned" /\ (outcome = "promoted" => r \in wentLive)
      <4>1. ASSUME outcome = "promoted" PROVE published.source = r
        BY <1>5, <4>1, Constants DEF Recovered, Outcomes
      <4>2. r # None
        BY Constants
      <4>3. outcome # "orphaned"
        BY <1>5, Constants DEF Outcomes
      <4> QED BY <4>1, <4>2, <4>3 DEF IndInv, PublishedAgrees
    <3> QED BY <1>3, <1>8, <1>11, <2>2, <3>1 DEF Knows, Promoting
  <2>3. CASE next \in Promoting
    <3>1. current.version < jobs[r].version
      <4>1. ~Superseded(r)
        BY <1>5, <1>8, <2>3, Constants DEF Outcomes
      <4>2. published.version \in Nat /\ jobs[r].version \in Nat
        BY <1>3, PublicationFields, JobFields
      <4> QED BY <1>9, <4>1, <4>2 DEF Superseded
    <3>2. current # None /\ work # None
      BY Constants
    <3>3. current.edition <= published.edition /\ Rendered(current)
      BY <1>3, <1>9, PublicationFields DEF IndInv, PublishedAgrees
    <3>4. next \notin Concluding /\ next # "idle"
      BY <2>3 DEF Promoting, Concluding
    <3>5. next \notin {"settle", "delete"} /\ next # "delete"
      BY <3>4 DEF Concluding
    <3> QED BY <1>3, <1>4, <1>8, <1>9, <1>11, <3>1, <3>2, <3>3, <3>4, <3>5 DEF Knows
  <2> QED BY <1>8, <2>1, <2>2, <2>3 DEF Promoting
<1>14. LeaseMoves(d) /\ faults' \in 0..MaxFaults
  BY <1>1, <1>3, LeaseKinds, Types DEF IndInv
<1> QED BY <1>1, <1>11, <1>12, <1>13, <1>14, MoveStep

\* The objects and the row of one job are written.
Writes(r) ==
    /\ UNCHANGED <<coordinator, content, jobs, claim, dispatch, published, site, operator, wentLive, faults>>
    /\ pages \subseteq pages' /\ pages' \in SUBSET (Revisions \X Routes)
    /\ deleted' \in SUBSET Revisions
    /\ op' \in [Revisions -> {"none", "running", "pending"} \cup Outcomes]
    /\ receipt' \in [Revisions -> Outcomes \cup {None}]
    /\ progress' \in [Revisions -> Progress \cup {None}]
    /\ receipt[r] # None => receipt'[r] = receipt[r]
    /\ op[r] = "none" => op'[r] = "none"
    /\ \A q \in Revisions \ {r} :
        /\ op'[q] = op[q] /\ receipt'[q] = receipt[q] /\ progress'[q] = progress[q]
        /\ q \in deleted' => q \in deleted

(* What a consumer writes for its job takes nothing back. *)
LEMMA WritesOnward ==
    ASSUME IndInv, NEW r \in Revisions, Writes(r)
    PROVE  Onward
<1>1. published.edition \in Nat
  BY Types, PublicationFields DEF IndInv
<1> QED BY <1>1, HistoryStays DEF Onward, Writes, coordinator

(* A consumer that writes for its job keeps the invariant when it knows what it wrote. *)
LEMMA WriteStep ==
    ASSUME IndInv, NEW d \in Drainers, NEW s \in DrainerStates, drainer' = [drainer EXCEPT ![d] = s],
           NEW r \in Revisions, Writes(r), Knows(s) \/ Knows(s)', JobAgrees(r)'
    PROVE  IndInv'
<1>1. Onward
  BY WritesOnward
<1>2. Knows(s)'
  BY <1>1, KnowsStays
<1>3. ObjectsTyped'
  BY Types DEF IndInv, ObjectsTyped, Writes
<1>4. \A q \in Revisions : JobAgrees(q)'
  <2>1. ASSUME NEW q \in Revisions, q # r PROVE JobAgrees(q)'
    BY <1>1, <2>1, JobStays DEF Writes, coordinator
  <2> QED BY <2>1
<1>5. PublishedAgrees'
  BY PublishedStays DEF Writes
<1>6. d \in Writers /\ LeaseMoves(d)
  BY Constants, LeaseKinds DEF Writes
<1> QED BY <1>1, <1>2, <1>3, <1>4, <1>5, <1>6, DrainStep DEF Writes

\* What is noted in the progress of a job has been rendered.
LEMMA ProgressWritten ==
    ASSUME IndInv, NEW r \in Revisions, NEW work \in Progress \cup {None},
           progress' = [progress EXCEPT ![r] = work], work # None => Noted(r, work),
           UNCHANGED <<coordinator, content, jobs, deleted, receipt, claim, pages, published, rows, site,
                       operator, wentLive, faults>>
    PROVE  Writes(r) /\ JobAgrees(r)'
<1>1. Writes(r)
  BY Types DEF IndInv, Writes, rows
<1>2. progress'[r] = work
  BY Types DEF IndInv
<1>3. JobAgrees(r) /\ (progress'[r] # None => \A rt \in progress'[r].rendered : <<r, rt>> \in pages')
  BY <1>2 DEF IndInv, Noted
<1>4. JobAgrees(r)'
  BY <1>3 DEF JobAgrees, Noted, rows, coordinator
<1> QED BY <1>1, <1>4

(* The plan of the job is put. *)
LEMMA PutPlanStep ==
    ASSUME IndInv, NEW d \in Drainers, PutPlan(d)
    PROVE  IndInv'
<1>1. /\ drainer[d].pc = "plan" /\ progress' = [progress EXCEPT ![drainer[d].job] = drainer[d].work]
      /\ Go(d, AfterPlan(d, drainer[d].job, drainer[d].work))
      /\ UNCHANGED <<coordinator, content, jobs, deleted, receipt, claim, pages, published, rows, site,
                     operator, wentLive, faults>>
  BY DEF PutPlan, PutProgress
<1>2. /\ drainer[d] \in DrainerStates /\ Knows(drainer[d]) /\ drainer[d].job \in Revisions
      /\ dispatch[drainer[d].job] # "none"
  BY <1>1, AtWorkOn
<1>3. drainer[d].work \in Progress /\ Noted(drainer[d].job, drainer[d].work)
  BY <1>1, <1>2, DrainerFields DEF Knows, Promoting
<1>4. PICK r \in Revisions, work \in Progress : r = drainer[d].job /\ work = drainer[d].work
  BY <1>2, <1>3
<1>5. PICK next : next = AfterPlan(d, r, work)
  OBVIOUS
<1>6. /\ next \in {"promote", "note", "page", "failed"}
      /\ next = "promote" => Todo(work) = {}
      /\ next \in {"page", "note"} => Todo(work) # {}
      /\ next = "note" => <<r, Min(Todo(work))>> \in pages
  BY <1>5, PlanGoesOn
<1>7. PICK s \in DrainerStates : s.pc = next /\ Keeps(s, drainer[d]) /\ drainer' = [drainer EXCEPT ![d] = s]
  <2>1. next \in Working \cup Leaving \cup {"idle"} /\ Go(d, next)
    BY <1>1, <1>4, <1>5, <1>6 DEF Working, Leaving
  <2> QED BY <1>1, <2>1, Goes
<1>8. Knows(s)
  <2>1. CASE next = "failed"
    BY <1>2, <1>7, <2>1, BareKnows DEF Bare, Leaving, Keeps
  <2>2. CASE next # "failed"
    <3>1. next \in Promoting /\ next \notin Concluding /\ next # "idle" /\ next \notin {"settle", "delete"}
      BY <1>6, <2>2 DEF Promoting, Concluding
    <3>2. s.job = r /\ s.work = work /\ s.current = drainer[d].current
      BY <1>4, <1>7 DEF Keeps
    <3> QED BY <1>1, <1>2, <1>4, <1>6, <1>7, <3>1, <3>2 DEF Knows, Promoting
  <2> QED BY <2>1, <2>2
<1>9. Writes(r) /\ JobAgrees(r)'
  BY <1>1, <1>3, <1>4, ProgressWritten
<1> QED BY <1>7, <1>8, <1>9, WriteStep

(* A page of the plan is rendered and put. *)
LEMMA PutPageStep ==
    ASSUME IndInv, NEW d \in Drainers, PutPage(d)
    PROVE  IndInv'
<1>1. /\ drainer[d].pc = "page"
      /\ pages' = pages \cup {<<drainer[d].job, Min(Todo(drainer[d].work))>>}
      /\ Go(d, Renewed(d, "note"))
      /\ UNCHANGED <<coordinator, content, jobs, deleted, receipt, claim, progress, published, rows, site,
                     operator, wentLive, faults>>
  BY DEF PutPage
<1>2. PICK t \in DrainerStates : t = drainer[d]
  BY <1>1, AtWorkOn
<1>3. /\ Knows(t) /\ t.pc = "page" /\ t.job \in Revisions /\ dispatch[t.job] # "none"
      /\ t.work \in Progress /\ Todo(t.work) # {}
  <2>1. Knows(t) /\ t.pc = "page" /\ t.job \in Revisions /\ dispatch[t.job] # "none"
    BY <1>1, <1>2, AtWorkOn
  <2> QED BY <2>1, DrainerFields DEF Knows, Promoting
<1>4. Min(Todo(t.work)) \in Routes
  BY <1>3, NextRoute
<1>5. PICK next \in {"note", "failed"} : next = Renewed(d, "note")
  BY DEF Renewed
<1>6. PICK s \in DrainerStates : s.pc = next /\ Keeps(s, t) /\ drainer' = [drainer EXCEPT ![d] = s]
  <2>1. next \in Working \cup Leaving \cup {"idle"} /\ Go(d, next)
    BY <1>1, <1>5 DEF Working, Leaving
  <2> QED BY <1>1, <1>2, <2>1, Goes
<1>7. PICK r \in Revisions : r = t.job
  BY <1>3
<1>8. Writes(r)
  <2>1. pages' \in SUBSET (Revisions \X Routes)
    BY <1>1, <1>2, <1>3, <1>4, Types DEF IndInv
  <2> QED BY <1>1, <2>1, Types DEF IndInv, Writes, rows
<1>9. JobAgrees(r)'
  <2>1. Onward
    BY <1>8, WritesOnward
  <2> QED BY <1>1, <2>1, JobStays DEF rows, coordinator
<1>10. Knows(s) \/ Knows(s)'
  <2>1. CASE next = "failed"
    BY <1>3, <1>6, <2>1, BareKnows DEF Bare, Leaving, Keeps
  <2>2. CASE next = "note"
    <3>1. Knows(t)'
      BY <1>3, <1>8, WritesOnward, KnowsStays
    <3>2. s.pc = "note" /\ s.job = t.job /\ s.work = t.work /\ s.current = t.current
      BY <1>6, <2>2 DEF Keeps
    <3>3. <<s.job, Min(Todo(s.work))>> \in pages'
      BY <1>1, <1>2, <3>2
    <3> QED BY <1>3, <3>1, <3>2, <3>3 DEF Knows, Promoting, Concluding, Noted, Rendered
  <2> QED BY <2>1, <2>2
<1> QED BY <1>6, <1>8, <1>9, <1>10, WriteStep

(* A rendered route is noted in the progress. *)
LEMMA NoteRouteStep ==
    ASSUME IndInv, NEW d \in Drainers, NoteRoute(d)
    PROVE  IndInv'
<1>1. /\ drainer[d].pc = "note" /\ Go(d, "rendered")
      /\ progress' = [progress EXCEPT ![drainer[d].job] =
                        [drainer[d].work EXCEPT !.rendered = @ \cup {Min(Todo(drainer[d].work))}]]
      /\ UNCHANGED <<coordinator, content, jobs, deleted, receipt, claim, pages, published, rows, site,
                     operator, wentLive, faults>>
  BY DEF NoteRoute, PutProgress
<1>2. PICK t \in DrainerStates : t = drainer[d]
  BY <1>1, AtWorkOn
<1>3. /\ Knows(t) /\ t.pc = "note" /\ t.job \in Revisions /\ dispatch[t.job] # "none"
      /\ t.work \in Progress /\ Todo(t.work) # {} /\ Noted(t.job, t.work)
      /\ <<t.job, Min(Todo(t.work))>> \in pages
  <2>1. Knows(t) /\ t.pc = "note" /\ t.job \in Revisions /\ dispatch[t.job] # "none"
    BY <1>1, <1>2, AtWorkOn
  <2> QED BY <2>1, DrainerFields DEF Knows, Promoting
<1>4. PICK rt \in Routes : rt = Min(Todo(t.work))
  BY <1>3, NextRoute
<1>5. PICK work : work = [t.work EXCEPT !.rendered = @ \cup {rt}]
  OBVIOUS
<1>6. work \in Progress /\ work.rendered = t.work.rendered \cup {rt}
  BY <1>3, <1>5 DEF Progress
<1>7. PICK r \in Revisions : r = t.job
  BY <1>3
<1>8. progress' = [progress EXCEPT ![r] = work]
  BY <1>1, <1>2, <1>4, <1>5, <1>7
<1>9. Noted(r, work)
  BY <1>3, <1>4, <1>6, <1>7 DEF Noted
<1>10. Writes(r) /\ JobAgrees(r)'
  BY <1>1, <1>6, <1>8, <1>9, ProgressWritten
<1>11. PICK s \in DrainerStates : s.pc = "rendered" /\ Keeps(s, t) /\ drainer' = [drainer EXCEPT ![d] = s]
  BY <1>1, <1>2, Goes DEF Leaving
<1>12. Knows(s)
  BY <1>3, <1>11, BareKnows DEF Bare, Leaving, Keeps
<1> QED BY <1>10, <1>11, <1>12, WriteStep

(* The progress is marked with the outcome. *)
LEMMA MarkStep ==
    ASSUME IndInv, NEW d \in Drainers, Mark(d)
    PROVE  IndInv'
<1>1. /\ drainer[d].pc = "mark" /\ progress' = [progress EXCEPT ![drainer[d].job] = drainer[d].work]
      /\ Go(d, Renewed(d, "receipt"))
      /\ UNCHANGED <<coordinator, content, jobs, deleted, receipt, claim, pages, published, rows, site,
                     operator, wentLive, faults>>
  BY DEF Mark, PutProgress
<1>2. PICK t \in DrainerStates : t = drainer[d]
  BY <1>1, AtWorkOn
<1>3. /\ Knows(t) /\ t.pc = "mark" /\ t.job \in Revisions /\ dispatch[t.job] # "none"
      /\ t.work \in Progress /\ Noted(t.job, t.work)
      /\ t.outcome # None /\ (t.outcome = "promoted" => t.job \in wentLive)
      /\ (t.outcome = "orphaned" => receipts[jobs[t.job].version] # t.job)
  <2>1. Knows(t) /\ t.pc = "mark" /\ t.job \in Revisions /\ dispatch[t.job] # "none"
    BY <1>1, <1>2, AtWorkOn
  <2> QED BY <2>1, DrainerFields DEF Knows, Concluding
<1>4. PICK next \in {"receipt", "failed"} : next = Renewed(d, "receipt")
  BY DEF Renewed
<1>5. PICK s \in DrainerStates : s.pc = next /\ Keeps(s, t) /\ drainer' = [drainer EXCEPT ![d] = s]
  <2>1. next \in Working \cup Leaving \cup {"idle"} /\ Go(d, next)
    BY <1>1, <1>4 DEF Working, Leaving
  <2> QED BY <1>1, <1>2, <2>1, Goes
<1>6. Knows(s)
  <2>1. CASE next = "failed"
    BY <1>3, <1>5, <2>1, BareKnows DEF Bare, Leaving, Keeps
  <2>2. CASE next = "receipt"
    BY <1>3, <1>5, <2>2 DEF Knows, Keeps, Promoting
  <2> QED BY <2>1, <2>2
<1>7. PICK r \in Revisions, work \in Progress : r = t.job /\ work = t.work
  BY <1>3
<1>8. Writes(r) /\ JobAgrees(r)'
  BY <1>1, <1>2, <1>3, <1>7, ProgressWritten
<1> QED BY <1>5, <1>6, <1>8, WriteStep

\* Where there is no receipt yet, nobody was told and nothing was deleted.
LEMMA PutReceiptStep ==
    ASSUME IndInv, NEW d \in Drainers, PutReceipt(d)
    PROVE  IndInv'
<1>1. /\ drainer[d].pc = "receipt"
      /\ UNCHANGED <<coordinator, content, jobs, deleted, claim, progress, pages, published, rows, site,
                     operator, wentLive, faults>>
  BY DEF PutReceipt
<1>2. PICK t \in DrainerStates : t = drainer[d]
  BY <1>1, AtWorkOn
<1>3. /\ Knows(t) /\ t.pc = "receipt" /\ t.job \in Revisions /\ dispatch[t.job] # "none" /\ JobAgrees(t.job)
      /\ t.outcome \in Outcomes /\ (t.outcome = "promoted" => t.job \in wentLive)
      /\ (t.outcome = "orphaned" => receipts[jobs[t.job].version] # t.job)
  <2>1. Knows(t) /\ t.pc = "receipt" /\ t.job \in Revisions /\ dispatch[t.job] # "none" /\ JobAgrees(t.job)
    BY <1>1, <1>2, AtWorkOn
  <2> QED BY <2>1, DrainerFields DEF Knows, Concluding
<1>4. PICK r \in Revisions : r = t.job
  BY <1>3
<1>5. CASE receipt[r] # None
  <2>1. Go(d, "failed") /\ receipt' = receipt
    BY <1>2, <1>4, <1>5 DEF PutReceipt, NoReceipt
  <2>2. PICK s \in DrainerStates : s.pc = "failed" /\ Keeps(s, t) /\ drainer' = [drainer EXCEPT ![d] = s]
    BY <1>1, <1>2, <2>1, Goes DEF Leaving
  <2>3. Knows(s)
    BY <1>3, <2>2, BareKnows DEF Bare, Leaving, Keeps
  <2>4. Writes(r)
    BY <1>1, <2>1, Types DEF IndInv, Writes, rows
  <2>5. JobAgrees(r)'
    BY <1>1, <2>1, <2>4, WritesOnward, JobStays DEF rows, coordinator
  <2> QED BY <2>2, <2>3, <2>4, <2>5, WriteStep
<1>6. CASE receipt[r] = None
  <2>1. Go(d, "settle") /\ receipt' = [receipt EXCEPT ![r] = t.outcome]
    BY <1>2, <1>4, <1>6 DEF PutReceipt, NoReceipt
  <2>2. receipt \in [Revisions -> Outcomes \cup {None}]
    BY Types DEF IndInv
  <2>3. receipt'[r] = t.outcome /\ receipt' \in [Revisions -> Outcomes \cup {None}]
    BY <1>3, <2>1, <2>2
  <2>4. PICK s \in DrainerStates : s.pc = "settle" /\ Keeps(s, t) /\ drainer' = [drainer EXCEPT ![d] = s]
    BY <1>1, <1>2, <2>1, Goes DEF Working
  <2>5. Writes(r)
    BY <1>1, <1>6, <2>1, <2>2, <2>3, Types DEF IndInv, Writes, rows
  <2>6. op[r] \notin Outcomes /\ r \notin deleted
    BY <1>3, <1>4, <1>6, Constants DEF JobAgrees
  <2>7. JobAgrees(r)'
    <3>1. receipt'[r] = "orphaned" => receipts'[jobs'[r].version] # r
      BY <1>1, <1>3, <1>4, <2>3 DEF coordinator
    <3> QED BY <1>1, <1>3, <1>4, <2>3, <2>6, <3>1 DEF JobAgrees, Noted, rows, coordinator
  <2>8. Knows(s)'
    <3>1. /\ dispatch' = dispatch /\ s.job = r /\ s.outcome = t.outcome /\ t.outcome # None
          /\ jobs' = jobs /\ receipts' = receipts
      BY <1>1, <1>3, <1>4, <2>4, Constants DEF rows, Keeps, coordinator
    <3> QED BY <1>1, <1>3, <1>4, <2>3, <2>4, <3>1 DEF Knows, Promoting
  <2> QED BY <2>4, <2>5, <2>7, <2>8, WriteStep
<1> QED BY <1>5, <1>6

(* The operation row is told the receipt's outcome. *)
LEMMA SettleStep ==
    ASSUME IndInv, NEW d \in Drainers, Settle(d)
    PROVE  IndInv'
<1>1. /\ drainer[d].pc = "settle" /\ op' = Reconciled(drainer[d].job, drainer[d].outcome)
      /\ Go(d, Renewed(d, "delete"))
      /\ UNCHANGED <<coordinator, content, bucket, dispatch, site, operator, wentLive, faults>>
  BY DEF Settle
<1>2. PICK t \in DrainerStates : t = drainer[d]
  BY <1>1, AtWorkOn
<1>3. /\ Knows(t) /\ t.pc = "settle" /\ t.job \in Revisions /\ dispatch[t.job] # "none" /\ JobAgrees(t.job)
      /\ t.outcome \in Outcomes /\ (t.outcome = "promoted" => t.job \in wentLive)
      /\ (t.outcome = "orphaned" => receipts[jobs[t.job].version] # t.job)
      /\ receipt[t.job] = t.outcome
  <2>1. Knows(t) /\ t.pc = "settle" /\ t.job \in Revisions /\ dispatch[t.job] # "none" /\ JobAgrees(t.job)
    BY <1>1, <1>2, AtWorkOn
  <2> QED BY <2>1, DrainerFields DEF Knows, Concluding
<1>4. PICK r \in Revisions : r = t.job
  BY <1>3
<1>5. /\ op \in [Revisions -> {"none", "running", "pending"} \cup Outcomes]
      /\ op' = IF op[r] = "pending" THEN [op EXCEPT ![r] = t.outcome] ELSE op
  BY <1>1, <1>2, <1>4, Types DEF IndInv, Reconciled
<1>6. /\ op' \in [Revisions -> {"none", "running", "pending"} \cup Outcomes]
      /\ op'[r] = (IF op[r] = "pending" THEN t.outcome ELSE op[r])
      /\ \A q \in Revisions \ {r} : op'[q] = op[q]
  BY <1>3, <1>5
<1>7. op'[r] \in Outcomes => op'[r] = receipt[r]
  BY <1>3, <1>4, <1>6 DEF JobAgrees, Outcomes
<1>8. PICK next \in {"delete", "failed"} : next = Renewed(d, "delete")
  BY DEF Renewed
<1>9. PICK s \in DrainerStates : s.pc = next /\ Keeps(s, t) /\ drainer' = [drainer EXCEPT ![d] = s]
  <2>1. next \in Working \cup Leaving \cup {"idle"} /\ Go(d, next)
    BY <1>1, <1>8 DEF Working, Leaving
  <2> QED BY <1>1, <1>2, <2>1, Goes
<1>10. Writes(r)
  BY <1>1, <1>6, <1>7, Types DEF IndInv, Writes, bucket
<1>11. JobAgrees(r)'
  <2>1. op'[r] # "none" => op[r] # "none"
    BY <1>6
  <2> QED BY <1>1, <1>3, <1>4, <1>7, <2>1 DEF JobAgrees, Noted, bucket, coordinator
<1>12. Knows(s) \/ Knows(s)'
  <2>1. CASE next = "failed"
    BY <1>3, <1>9, <2>1, BareKnows DEF Bare, Leaving, Keeps
  <2>2. CASE next = "delete"
    <3>1. s.pc = "delete" /\ s.job = r /\ s.outcome = t.outcome /\ t.outcome # None
      BY <1>3, <1>4, <1>9, <2>2, Constants DEF Keeps
    <3> QED BY <1>1, <1>3, <1>4, <1>7, <3>1 DEF Knows, Promoting, bucket, coordinator
  <2> QED BY <2>1, <2>2
<1> QED BY <1>9, <1>10, <1>11, <1>12, WriteStep

(* The job is deleted after its receipt. *)
LEMMA DeleteStep ==
    ASSUME IndInv, NEW d \in Drainers, Delete(d)
    PROVE  IndInv'
<1>1. /\ drainer[d].pc = "delete" /\ deleted' = deleted \cup {drainer[d].job}
      /\ progress' = (IF drainer[d].outcome = "orphaned" THEN progress
                      ELSE [progress EXCEPT ![drainer[d].job] = None])
      /\ Go(d, "done")
      /\ UNCHANGED <<coordinator, content, jobs, receipt, claim, pages, published, rows, site, operator,
                     wentLive, faults>>
  BY DEF Delete
<1>2. PICK t \in DrainerStates : t = drainer[d]
  BY <1>1, AtWorkOn
<1>3. /\ Knows(t) /\ t.pc = "delete" /\ t.job \in Revisions /\ dispatch[t.job] # "none" /\ JobAgrees(t.job)
      /\ t.outcome # None /\ receipt[t.job] = t.outcome
  <2>1. Knows(t) /\ t.pc = "delete" /\ t.job \in Revisions /\ dispatch[t.job] # "none" /\ JobAgrees(t.job)
    BY <1>1, <1>2, AtWorkOn
  <2> QED BY <2>1 DEF Knows, Concluding
<1>4. PICK r \in Revisions : r = t.job
  BY <1>3
<1>5. /\ deleted' = deleted \cup {r}
      /\ progress' \in {progress, [progress EXCEPT ![r] = None]}
      /\ progress \in [Revisions -> Progress \cup {None}]
  BY <1>1, <1>2, <1>4, Types DEF IndInv
<1>6. /\ progress' \in [Revisions -> Progress \cup {None}] /\ progress'[r] \in {progress[r], None}
      /\ \A q \in Revisions \ {r} : progress'[q] = progress[q]
  BY <1>5
<1>7. Writes(r)
  BY <1>1, <1>5, <1>6, Types DEF IndInv, Writes, rows
<1>8. JobAgrees(r)'
  <2>1. progress'[r] # None => \A rt \in progress'[r].rendered : <<r, rt>> \in pages'
    BY <1>1, <1>3, <1>4, <1>6 DEF JobAgrees, Noted
  <2> QED BY <1>1, <1>3, <1>4, <2>1 DEF JobAgrees, Noted, rows, coordinator
<1>9. PICK s \in DrainerStates : s.pc = "done" /\ Keeps(s, t) /\ drainer' = [drainer EXCEPT ![d] = s]
  BY <1>1, <1>2, Goes DEF Leaving
<1>10. Knows(s)
  BY <1>3, <1>9, BareKnows DEF Bare, Leaving, Keeps
<1> QED BY <1>7, <1>8, <1>9, <1>10, WriteStep

(* The delivery ends with its verdict on the dispatch. *)
LEMMA CloseStep ==
    ASSUME IndInv, NEW d \in Drainers, Close(d)
    PROVE  IndInv'
<1>1. /\ drainer[d].pc \in Leaving /\ History!Forget(d) /\ drainer' = [drainer EXCEPT ![d] = Idle]
      /\ UNCHANGED <<content, jobs, deleted, receipt, progress, pages, published, op, site, operator,
                     wentLive, faults>>
  BY DEF Close
<1>2. drainer[d].pc # "idle"
  BY <1>1 DEF Leaving
<1>3. PICK r \in Revisions : r = drainer[d].job /\ dispatch[r] # "none"
  BY <1>2, AtWorkOn
<1>4. d \in Writers /\ claim \in [Revisions -> Claims \cup {None}]
      /\ dispatch \in [Revisions -> {"none", "open", "done", "dead"}]
  BY Constants, Types DEF IndInv
<1>5. PICK end \in {"open", "done", "dead"} :
        dispatch' = [dispatch EXCEPT ![r] = IF @ = "dead" THEN @ ELSE end]
  BY <1>1, <1>3 DEF Close, Leaving
<1>6. /\ dispatch' \in [Revisions -> {"none", "open", "done", "dead"}]
      /\ \A q \in Revisions : dispatch'[q] = "none" <=> dispatch[q] = "none"
  BY <1>3, <1>4, <1>5
<1>7. claim' \in [Revisions -> Claims \cup {None}]
  <2>1. [by |-> None, expired |-> TRUE] \in Claims
    BY DEF Claims
  <2>2. claim' \in {claim, [claim EXCEPT ![r] = [by |-> None, expired |-> TRUE]]}
    BY <1>3 DEF Close
  <2> QED BY <1>4, <2>1, <2>2
<1>8. LeaseMoves(d)
  BY <1>1, <1>4, LeaseKinds
<1>9. PICK s \in DrainerStates : s = Idle /\ s.pc = "idle"
  BY IdleTyped
<1>10. Knows(s)
  BY <1>9, BareKnows DEF Bare
<1> QED BY <1>1, <1>6, <1>7, <1>8, <1>9, <1>10, ClaimStep

(* A consumer that is evicted leaves its objects as they are. *)
LEMMA VanishStep ==
    ASSUME IndInv, NEW d \in Drainers, Vanish(d)
    PROVE  IndInv'
<1>1. /\ faults < MaxFaults /\ faults' = faults + 1
      /\ basis' = [basis EXCEPT ![d] = None] /\ drainer' = [drainer EXCEPT ![d] = Idle]
      /\ UNCHANGED <<version, pointer, receipts, holders, content, bucket, rows, site, operator, wentLive>>
  BY DEF Vanish
<1>2. d \in Writers /\ MaxFaults \in Nat /\ faults \in 0..MaxFaults
  BY Constants, Types DEF IndInv
<1>3. LeaseMoves(d) /\ faults' \in 0..MaxFaults
  <2>1. LeaseMoves(d)
    BY <1>1, <1>2, LeaseKinds
  <2>2. faults' \in 0..MaxFaults
    BY <1>1, <1>2
  <2> QED BY <2>1, <2>2
<1>4. PICK s \in DrainerStates : s = Idle /\ s.pc = "idle"
  BY IdleTyped
<1>5. Knows(s)
  BY <1>4, BareKnows DEF Bare
<1> QED BY <1>1, <1>3, <1>4, <1>5, MoveStep

\* What a job publishes has its pages, and is ahead of what it replaces.
LEMMA IncrementalAhead ==
    ASSUME IndInv, NEW d \in Drainers, drainer[d].pc = "promote", published.edition < MaxEditions,
           published.edition = drainer[d].current.edition
    PROVE  LET p == Incremental(d) IN
           /\ p \in Publications /\ p.edition = published.edition + 1
           /\ p.revision = drainer[d].job /\ p.source = drainer[d].job
           /\ p.version = jobs[drainer[d].job].version /\ p.version > published.version
           /\ p.revision > published.revision /\ Rendered(p)
           /\ \A rt \in Routes : /\ p.routes[rt] <= p.revision
                                 /\ p.routes[rt] # 0 => p.routes[rt] >= published.routes[rt]
<1>1. PICK t \in DrainerStates : t = drainer[d]
  BY AtWorkOn
<1>2. /\ Knows(t) /\ t.pc = "promote" /\ t.job \in Revisions /\ jobs[t.job] # None /\ jobs[t.job] \in Jobs
  BY <1>1, AtWorkOn
<1>3. /\ t.work \in Progress /\ Noted(t.job, t.work) /\ Todo(t.work) = {} /\ t.current = published
      /\ published.version < jobs[t.job].version
  <2>1. /\ t.work # None /\ Noted(t.job, t.work) /\ Todo(t.work) = {} /\ t.current = published
        /\ t.current.version < jobs[t.job].version
    BY <1>1, <1>2 DEF Knows, Promoting
  <2> QED BY <2>1, DrainerFields
<1>4. PICK r \in Revisions, plan \in Plans : r = t.job /\ plan = t.work.plan
  BY <1>2, <1>3, WorkFields
<1>5. PICK v \in Versions : v = jobs[r].version /\ v > published.version
  BY <1>2, <1>3, <1>4, JobFields, Types, PublicationFields DEF IndInv
<1>6. /\ published \in Publications /\ published.revision \in Nat /\ published.edition \in Nat
      /\ published.routes \in [Routes -> 0..MaxRevisions] /\ r \in Nat /\ MaxEditions \in Nat
      /\ r \in 0..MaxRevisions
      /\ \A rt \in Routes : published.routes[rt] \in Nat
  BY Types, PublicationFields, Constants DEF IndInv, Revisions
<1>7. r > published.revision
  BY <1>2, <1>4, <1>5 DEF IndInv, PublishedAgrees, Later
<1>8. PICK e \in 1..MaxEditions : e = published.edition + 1
  BY <1>6
<1>9. PICK routes : routes = [rt \in Routes |-> IF rt \in plan.upsert THEN r
                                                ELSE IF rt \in plan.remove THEN 0 ELSE published.routes[rt]]
  OBVIOUS
<1>10. Incremental(d) = [version |-> v, revision |-> r, source |-> r, edition |-> e, routes |-> routes]
  BY <1>1, <1>3, <1>4, <1>5, <1>8, <1>9 DEF Incremental
<1>11. routes \in [Routes -> 0..MaxRevisions]
  <2>1. 0 \in 0..MaxRevisions
    BY Constants
  <2>2. \A rt \in Routes : (IF rt \in plan.upsert THEN r
                           ELSE IF rt \in plan.remove THEN 0 ELSE published.routes[rt]) \in 0..MaxRevisions
    BY <1>6, <2>1
  <2> QED BY <1>9, <2>2
<1>12. PICK p : p = Incremental(d)
  OBVIOUS
<1>13. /\ p.version = v /\ p.revision = r /\ p.source = r /\ p.edition = e /\ p.routes = routes
       /\ p \in Publications
  BY <1>10, <1>11, <1>12 DEF Publications
<1>14. ASSUME NEW rt \in Routes
       PROVE  /\ routes[rt] <= r /\ (routes[rt] # 0 => routes[rt] >= published.routes[rt])
              /\ routes[rt] # 0 => <<routes[rt], rt>> \in pages
  <2>1. published.routes[rt] <= published.revision
        /\ (published.routes[rt] # 0 => <<published.routes[rt], rt>> \in pages)
    BY DEF IndInv, PublishedAgrees, Rendered
  <2>2. CASE rt \in plan.upsert
    <3>1. routes[rt] = r
      BY <1>9, <2>2
    <3>2. rt \in t.work.rendered
      BY <1>3, <1>4, <2>2 DEF Todo
    <3>3. <<r, rt>> \in pages
      BY <1>3, <1>4, <3>2 DEF Noted
    <3> QED BY <1>6, <1>7, <2>1, <3>1, <3>3
  <2>3. CASE rt \notin plan.upsert /\ rt \in plan.remove
    BY <1>6, <1>9, <2>3
  <2>4. CASE rt \notin plan.upsert /\ rt \notin plan.remove
    <3>1. routes[rt] = published.routes[rt]
      BY <1>9, <2>4
    <3> QED BY <1>6, <1>7, <2>1, <3>1
  <2> QED BY <2>2, <2>3, <2>4
<1>15. Rendered(p)
  BY <1>13, <1>14 DEF Rendered
<1> QED BY <1>1, <1>4, <1>5, <1>7, <1>8, <1>12, <1>13, <1>14, <1>15

\* What is published by a job agrees with what was written about it.
LEMMA PromotionAgrees ==
    ASSUME IndInv, NEW r \in Revisions, jobs[r] # None, UNCHANGED <<jobs, site>>, pages \subseteq pages',
           NEW p \in Publications, published' = p, p.version = jobs[r].version, p.revision = r, p.source = r,
           Rendered(p), \A rt \in Routes : p.routes[rt] <= r, wentLive' = wentLive \cup {r}
    PROVE  PublishedAgrees'
<1>1. r <= site.revision /\ r \in Nat
  BY Constants DEF IndInv, JobAgrees
<1>2. ASSUME NEW q \in Revisions, jobs[q] # None, jobs[q].version > p.version
      PROVE  q > r
  <2>1. q \in Nat /\ r \in Nat
    BY Constants
  <2>2. jobs[q].version \in Nat /\ jobs[r].version \in Nat
    BY <1>2, Types, JobFields DEF IndInv
  <2>3. CASE q < r
    BY <1>2, <2>2, <2>3 DEF IndInv, Ordered
  <2>4. CASE q = r
    BY <1>2, <2>2, <2>4
  <2> QED BY <2>1, <2>3, <2>4
<1>3. \A rt \in Routes : p.routes[rt] # 0 => <<p.routes[rt], rt>> \in pages'
  BY DEF Rendered
<1>4. p.source \in wentLive'
  OBVIOUS
<1> QED BY <1>1, <1>2, <1>3, <1>4 DEF PublishedAgrees, Rendered, Later

(* A promotion replaces exactly what its consumer read, under its etag. *)
LEMMA PromoteStep ==
    ASSUME IndInv, NEW d \in Drainers, Promote(d)
    PROVE  IndInv'
<1>1. /\ drainer[d].pc = "promote" /\ published.edition < MaxEditions
      /\ UNCHANGED <<coordinator, content, jobs, deleted, receipt, claim, progress, pages, rows, site,
                     operator, faults>>
  BY DEF Promote
<1>2. PICK t \in DrainerStates : t = drainer[d]
  BY <1>1, AtWorkOn
<1>3. /\ Knows(t) /\ t.pc = "promote" /\ t.job \in Revisions /\ dispatch[t.job] # "none" /\ jobs[t.job] # None
      /\ t.work # None /\ Noted(t.job, t.work)
  <2>1. Knows(t) /\ t.pc = "promote" /\ t.job \in Revisions /\ dispatch[t.job] # "none" /\ jobs[t.job] # None
    BY <1>1, <1>2, AtWorkOn
  <2> QED BY <2>1 DEF Knows, Promoting
<1>4. d \in Writers /\ LeaseMoves(d) /\ faults' \in 0..MaxFaults
  <2>1. d \in Writers
    BY Constants
  <2> QED BY <1>1, <2>1, LeaseKinds, Types DEF IndInv
<1>5. CASE published.edition # t.current.edition
  <2>1. Go(d, "done") /\ UNCHANGED <<published, wentLive>>
    BY <1>2, <1>5 DEF Promote, UnchangedSince
  <2>2. PICK s \in DrainerStates : s.pc = "done" /\ Keeps(s, t) /\ drainer' = [drainer EXCEPT ![d] = s]
    BY <1>1, <1>2, <2>1, Goes DEF Leaving
  <2>3. Knows(s)
    BY <1>3, <2>2, BareKnows DEF Bare, Leaving, Keeps
  <2> QED BY <1>1, <1>4, <2>1, <2>2, <2>3, MoveStep DEF bucket
<1>6. CASE published.edition = t.current.edition
  <2>1. /\ published' = Incremental(d) /\ wentLive' = wentLive \cup {t.job}
        /\ drainer' = [drainer EXCEPT ![d].pc = Renewed(d, "mark"), ![d].outcome = "promoted"]
    BY <1>2, <1>6 DEF Promote, UnchangedSince
  <2>2. PICK next \in {"mark", "failed"} : next = Renewed(d, "mark")
    BY DEF Renewed
  <2>3. PICK s : s = [t EXCEPT !.pc = next, !.outcome = "promoted"]
    OBVIOUS
  <2>4. /\ s \in DrainerStates /\ s.pc = next /\ s.outcome = "promoted" /\ s.job = t.job /\ s.work = t.work
    <3>1. next \in Working \cup Leaving \cup {"idle"} /\ "promoted" \in Outcomes \cup {None}
      BY DEF Working, Leaving, Outcomes
    <3> QED BY <2>3, <3>1 DEF DrainerStates
  <2>5. drainer' = [drainer EXCEPT ![d] = s]
    <3>1. drainer \in [Drainers -> DrainerStates]
      BY Types DEF IndInv
    <3> QED BY <1>2, <2>1, <2>2, <2>3, <3>1
  <2>6. PICK p \in Publications :
          /\ p = Incremental(d) /\ p.edition = published.edition + 1
          /\ p.revision = t.job /\ p.source = t.job /\ p.version = jobs[t.job].version
          /\ Rendered(p) /\ \A rt \in Routes : p.routes[rt] <= p.revision
    BY <1>1, <1>2, <1>6, IncrementalAhead
  <2>7. published' = p /\ published.edition \in Nat /\ published'.edition > published.edition
        /\ published'.edition \in Nat
    BY <2>1, <2>6, Types, PublicationFields DEF IndInv
  <2>8. Onward
    BY <1>1, <2>1, <2>7, HistoryStays DEF Onward, rows, coordinator
  <2>9. ObjectsTyped'
    BY <1>1, <1>3, <1>4, <2>1, <2>7, Types DEF IndInv, ObjectsTyped, rows
  <2>10. ASSUME NEW r \in Revisions PROVE JobAgrees(r)'
    BY <1>1, <2>8, JobStays DEF rows, coordinator
  <2>11. PublishedAgrees'
    <3>1. PICK r \in Revisions : r = t.job
      BY <1>3
    <3> QED BY <1>1, <1>3, <2>1, <2>6, <2>7, <3>1, PromotionAgrees
  <2>12. Knows(s)'
    <3>1. CASE next = "failed"
      <4>1. Knows(s)
        BY <1>3, <2>4, <3>1, BareKnows DEF Bare, Leaving
      <4> QED BY <2>4, <2>8, <4>1, KnowsStays
    <3>2. CASE next = "mark"
      <4>1. /\ s.job \in Revisions /\ dispatch'[s.job] # "none" /\ s.job \in wentLive' /\ s.work # None
            /\ s.outcome \notin {None, "orphaned"} /\ \A rt \in s.work.rendered : <<s.job, rt>> \in pages'
        BY <1>1, <1>3, <2>1, <2>4, Constants DEF rows, Noted, Outcomes
      <4>2. s.pc = "mark"
        BY <2>4, <3>2
      <4> QED BY <4>1, <4>2 DEF Knows, Noted, Promoting
    <3> QED BY <3>1, <3>2
  <2> QED BY <1>1, <1>4, <2>4, <2>5, <2>8, <2>9, <2>10, <2>11, <2>12, DrainStep DEF rows
<1> QED BY <1>5, <1>6

(* Every step of a drain keeps the invariant. *)
LEMMA DrainKeeps ==
    ASSUME IndInv, NEW d \in Drainers, Drain(d)
    PROVE  IndInv'
BY TakeStep, ReadJobStep, ClaimPutStep, LookStep, PutPlanStep, PutPageStep, NoteRouteStep, PromoteStep,
   MarkStep, PutReceiptStep, SettleStep, DeleteStep, CloseStep, VanishStep DEF Drain

-----------------------------------------------------------------------------
(***************************************************************************)
(* The site, the operator and time.                                        *)
(***************************************************************************)

\* Consumers rely on what others leave them.
LEMMA OtherStep ==
    ASSUME IndInv, drainer' = drainer, Onward, TypeOK', \A r \in Revisions : JobAgrees(r)', SiteAgrees',
           Ordered', PublishedAgrees'
    PROVE  IndInv'
<1>1. ASSUME NEW d \in Drainers PROVE Knows(drainer[d])'
  <2>1. PICK s \in DrainerStates : s = drainer[d]
    BY Types DEF IndInv
  <2>2. Knows(drainer[d])
    BY DEF IndInv
  <2>3. Knows(s)
    BY <2>1, <2>2
  <2>4. Knows(s)'
    BY <2>3, KnowsStays
  <2> QED BY <2>1, <2>4 DEF Knows, Noted, Rendered
<1> QED BY <1>1 DEF IndInv

\* Where only leases, the site's and the operator's state change, jobs are as they were.
LEMMA JobsStay ==
    ASSUME IndInv, HistoryOnward, UNCHANGED <<bucket, rows, wentLive>>, site'.revision = site.revision
    PROVE  Onward /\ (\A r \in Revisions : JobAgrees(r)') /\ PublishedAgrees'
<1>1. Onward
  BY NothingOnward DEF bucket, rows
<1>2. \A r \in Revisions : JobAgrees(r)'
  BY <1>1, JobStays DEF bucket, rows
<1>3. PublishedAgrees'
  BY PublishedStays DEF bucket
<1> QED BY <1>1, <1>2, <1>3

(* A mutation that only moves on keeps its revision. *)
LEMMA SitePc ==
    ASSUME IndInv, NEW pc \in {"idle", "leased", "quiet", "mutation", "import", "wake", "complete", "again"},
           site' = [site EXCEPT !.pc = pc]
    PROVE  site' \in SiteStates /\ site'.pc = pc /\ site'.revision = site.revision
BY Types DEF IndInv, SiteStates

\* The order of jobs and leases is no business of the operator's state, while it stays.
LEMMA OrderOfOthers ==
    ASSUME IndInv, UNCHANGED <<version, pointer, jobs, operator>>, pages \subseteq pages',
           site'.revision = site.revision, basis'[Operator] = basis[Operator],
           \A w \in Writers : basis'[w] \in {basis[w], None, History!Current}
    PROVE  Ordered'
<1>1. operator' # None => /\ basis'[Operator] # None /\ basis'[Operator].pointer # None
                          /\ \A rt \in operator' : <<basis'[Operator].pointer, rt>> \in pages'
  BY DEF IndInv, Ordered
<1> QED BY <1>1, OrderKept

(* A mutation takes its lease. *)
LEMMA SiteAcquireStep ==
    ASSUME IndInv, SiteAcquire
    PROVE  IndInv'
<1>1. /\ version < MaxVersion /\ site.revision < MaxRevisions
      /\ History!Grant(Site) /\ site' = [site EXCEPT !.pc = "leased"]
      /\ UNCHANGED <<content, bucket, rows, drainer, operator, wentLive, faults>>
  BY DEF SiteAcquire
<1>2. Site \in Writers /\ Operator \in Writers /\ Site # Operator
  BY Constants
<1>3. LeaseMoves(Site)
  BY <1>1, <1>2, LeaseKinds
<1>4. /\ basis' \in [Writers -> Leases \cup {None}] /\ holders' \in SUBSET Writers
      /\ \A u \in Writers : basis'[u] \in {basis[u], None, History!Current}
      /\ \A u \in Writers \ {Site} : basis'[u] = basis[u]
  BY <1>2, <1>3, LeaseTyped
<1>5. site' \in SiteStates /\ site'.pc = "leased" /\ site'.revision = site.revision
  BY <1>1, SitePc
<1>6. TypeOK'
  BY <1>1, <1>3, <1>4, <1>5 DEF IndInv, TypeOK, SiteStates, bucket, rows, LeaseMoves
<1>7. Onward /\ (\A r \in Revisions : JobAgrees(r)') /\ PublishedAgrees'
  BY <1>1, <1>3, <1>5, HistoryStays, JobsStay DEF LeaseMoves
<1>8. Ordered'
  BY <1>1, <1>2, <1>3, <1>4, <1>5, OrderOfOthers DEF LeaseMoves, bucket
<1>9. SiteAgrees'
  <2>1. basis'[Site].version = version /\ basis'[Site] # None
    <3>1. basis'[Site] = History!Current
      BY <1>1, <1>2, Types DEF IndInv, History!Grant
    <3> QED BY <3>1, CurrentTyped DEF IndInv
  <2>2. \A r \in Revisions : jobs[r] # None => jobs[r].version <= version + 1
    BY DEF IndInv, JobAgrees
  <2> QED BY <1>1, <1>5, <2>1, <2>2 DEF SiteAgrees, bucket
<1> QED BY <1>1, <1>6, <1>7, <1>8, <1>9, OtherStep

(* The content a mutation makes is typed, and so is a new revision's. *)
LEMMA ChangedTyped ==
    ASSUME NEW base \in [Routes -> 0..MaxRevisions], NEW r \in Revisions, NEW changes
    PROVE  Changed(base, r, changes) \in [Routes -> 0..MaxRevisions]
<1>1. r \in 0..MaxRevisions /\ 0 \in 0..MaxRevisions
  BY Constants DEF Revisions
<1>2. ASSUME NEW rt \in Routes
      PROVE  (CASE rt \in changes.upsert -> r
                [] rt \in changes.remove \ changes.upsert -> 0
                [] changes.all /\ base[rt] # 0 /\ rt \notin changes.remove \cup changes.upsert -> r
                [] OTHER -> base[rt]) \in 0..MaxRevisions
  <2>1. base[rt] \in 0..MaxRevisions
    OBVIOUS
  <2> QED BY <1>1, <2>1
<1> QED BY <1>2 DEF Changed

\* A job that is staged is of a later revision than all there are, and for a later version.
LEMMA SiteStageStep ==
    ASSUME IndInv, SiteStage
    PROVE  IndInv'
<1>1. PICK changes \in Mutations, quiet \in BOOLEAN, base \in [Routes -> 0..MaxRevisions], r \in Revisions :
        /\ r = site.revision + 1
        /\ content' = [content EXCEPT ![r] = Changed(base, r, changes)]
        /\ jobs' = IF quiet THEN jobs ELSE [jobs EXCEPT ![r] = [version |-> basis[Site].version + 1, changes |-> changes]]
        /\ site' = [pc |-> IF quiet THEN "quiet" ELSE IF changes.import THEN "import" ELSE "mutation", revision |-> r]
  <2>1. PICK r \in Revisions : r = site.revision + 1
    <3>1. site.revision < MaxRevisions /\ site.revision \in Nat /\ MaxRevisions \in Nat
      BY Types, Constants DEF IndInv, SiteAgrees, SiteStage
    <3> QED BY <3>1 DEF Revisions
  <2>2. PICK changes \in Mutations, quiet \in BOOLEAN :
          /\ content' = [content EXCEPT ![r] =
                Changed(IF basis[Site].pointer = None THEN [rt \in Routes |-> r] ELSE content[basis[Site].pointer], r, changes)]
          /\ jobs' = IF quiet THEN jobs ELSE [jobs EXCEPT ![r] = [version |-> basis[Site].version + 1, changes |-> changes]]
          /\ site' = [pc |-> IF quiet THEN "quiet" ELSE IF changes.import THEN "import" ELSE "mutation", revision |-> r]
    BY <2>1 DEF SiteStage
  <2>3. PICK base \in [Routes -> 0..MaxRevisions] :
          base = IF basis[Site].pointer = None THEN [rt \in Routes |-> r] ELSE content[basis[Site].pointer]
    <3>1. [rt \in Routes |-> r] \in [Routes -> 0..MaxRevisions]
      <4>1. r \in 0..MaxRevisions
        BY Constants DEF Revisions
      <4> QED BY <4>1
    <3>2. basis[Site] \in Leases /\ content \in [Revisions -> [Routes -> 0..MaxRevisions]]
      BY Types, Constants DEF IndInv, SiteAgrees, SiteStage
    <3>3. basis[Site].pointer \in Revisions \cup {None}
      BY <3>2, LeaseFields
    <3>4. basis[Site].pointer # None => content[basis[Site].pointer] \in [Routes -> 0..MaxRevisions]
      BY <3>2, <3>3
    <3> QED BY <3>1, <3>4
  <2> QED BY <2>1, <2>2, <2>3
<1>2. /\ site.pc = "leased"
      /\ UNCHANGED <<coordinator, deleted, receipt, claim, progress, pages, published, rows, drainer,
                     operator, wentLive, faults>>
  BY DEF SiteStage
<1>3. /\ site.revision \in Nat /\ version \in Nat /\ MaxVersion \in Nat /\ Site \in Writers
      /\ jobs \in [Revisions -> Jobs \cup {None}] /\ content \in [Revisions -> [Routes -> 0..MaxRevisions]]
  BY Types, Constants DEF IndInv
<1>4. /\ basis[Site] \in Leases /\ basis[Site].version \in Nat /\ basis[Site].version < MaxVersion
      /\ basis[Site].version <= version
      /\ \A q \in Revisions : jobs[q] # None => jobs[q].version <= basis[Site].version + 1
  <2>1. /\ basis[Site] # None /\ basis[Site].version < MaxVersion
        /\ \A q \in Revisions : jobs[q] # None => jobs[q].version <= basis[Site].version + 1
    BY <1>2 DEF IndInv, SiteAgrees
  <2>2. basis[Site] \in Leases /\ basis[Site].version <= version
    BY <1>3, <2>1, Types DEF IndInv, Ordered
  <2> QED BY <2>1, <2>2, LeaseFields
<1>5. PICK v \in Versions : v = basis[Site].version + 1
  BY <1>3, <1>4 DEF Versions
<1>6. PICK job \in Jobs : job = [version |-> v, changes |-> changes]
  BY DEF Jobs
<1>7. jobs[r] = None /\ dispatch[r] = "none" /\ op[r] = "none" /\ receipt[r] = None
  <2>1. JobAgrees(r) /\ ~(r <= site.revision)
    BY <1>1, <1>3 DEF IndInv
  <2> QED BY <2>1 DEF JobAgrees
<1>8. /\ jobs' \in [Revisions -> Jobs \cup {None}] /\ jobs'[r] \in {None, job}
      /\ quiet \/ jobs'[r] = job
      /\ \A q \in Revisions \ {r} : jobs'[q] = jobs[q]
  BY <1>1, <1>3, <1>5, <1>6, <1>7
<1>9. /\ site'.pc \in {"quiet", "mutation", "import"} /\ (site'.pc = "quiet" <=> quiet)
      /\ site'.revision = r /\ site' \in SiteStates
  <2>1. PICK pc : pc = IF quiet THEN "quiet" ELSE IF changes.import THEN "import" ELSE "mutation"
    OBVIOUS
  <2>2. pc \in {"quiet", "mutation", "import"} /\ (pc = "quiet" <=> quiet)
    BY <2>1
  <2>3. site' = [pc |-> pc, revision |-> r]
    BY <1>1, <2>1
  <2> QED BY <2>2, <2>3 DEF SiteStates
<1>10. content' \in [Revisions -> [Routes -> 0..MaxRevisions]]
  <2>1. Changed(base, r, changes) \in [Routes -> 0..MaxRevisions]
    BY ChangedTyped
  <2> QED BY <1>1, <1>3, <2>1
<1>11. TypeOK'
  BY <1>2, <1>8, <1>9, <1>10 DEF IndInv, TypeOK, SiteStates, rows, coordinator
<1>12. job # None /\ job.version = v /\ r \in Nat
  BY <1>6, Constants
<1>13. Onward
  <2>1. published.edition \in Nat
    BY Types, PublicationFields DEF IndInv
  <2> QED BY <1>2, <1>7, <1>8, <2>1, HistoryStays DEF Onward, rows, coordinator
<1>14. ASSUME NEW q \in Revisions PROVE JobAgrees(q)'
  <2>1. CASE q # r
    BY <1>1, <1>2, <1>8, <1>9, <1>13, <2>1, JobStays DEF rows, coordinator
  <2>2. CASE q = r
    <3>1. JobAgrees(r) /\ v <= version + 1
      BY <1>3, <1>4, <1>5 DEF IndInv
    <3>2. jobs'[r] # None => jobs'[r].version <= version' + 1 /\ r <= site'.revision
      BY <1>2, <1>8, <1>9, <1>12, <3>1 DEF coordinator
    <3>3. receipt'[r] = None /\ None \notin Outcomes /\ "orphaned" \in Outcomes /\ "promoted" \in Outcomes
      BY <1>2, <1>7, Constants DEF Outcomes
    <3>4. op'[r] = "none" /\ dispatch'[r] = "none" /\ "none" \notin Outcomes /\ r \notin deleted
      BY <1>2, <1>7, <3>1 DEF JobAgrees, rows, Outcomes
    <3>5. progress'[r] # None => \A rt \in progress'[r].rendered : <<r, rt>> \in pages'
      BY <1>2, <3>1 DEF JobAgrees, Noted
    <3> QED BY <1>2, <2>2, <3>2, <3>3, <3>4, <3>5 DEF JobAgrees, Noted
  <2> QED BY <2>1, <2>2
<1>15. SiteAgrees'
  BY <1>2, <1>5, <1>7, <1>8, <1>9, <1>12 DEF SiteAgrees, rows, coordinator
<1>16. \A q \in Revisions : jobs'[q] = jobs[q] \/ q > site.revision
  BY <1>1, <1>3, <1>8
<1>17. PublishedAgrees'
  BY <1>1, <1>2, <1>9, <1>16, PublishedStays
<1>18. ASSUME NEW u, NEW p \in Revisions, Later(u, p), p <= site.revision
       PROVE  /\ p <= site'.revision
              /\ \A q \in Revisions : jobs'[q] # None /\ jobs'[q].version > u => q > p
  <2>1. p \in Nat
    BY Constants
  <2> QED BY <1>1, <1>3, <1>8, <1>9, <1>18, <2>1 DEF Later
<1>19. Ordered'
  <2>1. ASSUME NEW q1 \in Revisions, NEW q2 \in Revisions, jobs'[q1] # None, jobs'[q2] # None, q1 < q2
        PROVE  jobs'[q1].version <= jobs'[q2].version
    <3>1. CASE q1 # r /\ q2 # r
      BY <1>8, <2>1, <3>1 DEF IndInv, Ordered
    <3>2. CASE q1 # r /\ q2 = r
      BY <1>4, <1>5, <1>8, <1>12, <2>1, <3>2
    <3>3. CASE q1 = r
      <4>1. q2 # r /\ q2 \in Nat /\ jobs[q2] # None
        BY <1>8, <1>12, <2>1, <3>3, Constants
      <4>2. q2 <= site.revision
        BY <4>1 DEF IndInv, JobAgrees
      <4> QED BY <1>1, <1>3, <2>1, <3>3, <4>1, <4>2
    <3> QED BY <3>1, <3>2, <3>3
  <2>2. pointer' # None =>
            /\ pointer' <= site'.revision
            /\ \A q \in Revisions : jobs'[q] # None /\ jobs'[q].version > version' => q > pointer'
    BY <1>2, <1>18, Types DEF IndInv, Ordered, coordinator
  <2>3. ASSUME NEW w \in Writers, basis'[w] # None
        PROVE  /\ basis'[w].version <= version'
               /\ basis'[w].pointer # None =>
                    /\ basis'[w].pointer <= site'.revision
                    /\ \A q \in Revisions : jobs'[q] # None /\ jobs'[q].version > basis'[w].version => q > basis'[w].pointer
    <3>1. basis'[w] = basis[w] /\ version' = version /\ basis[w] \in Leases
      BY <1>2, <2>3, Types DEF IndInv, coordinator
    <3>2. /\ basis[w].version <= version
          /\ basis[w].pointer # None => /\ basis[w].pointer \in Revisions /\ basis[w].pointer <= site.revision
                                        /\ Later(basis[w].version, basis[w].pointer)
      BY <2>3, <3>1, LeaseFields DEF IndInv, Ordered
    <3> QED BY <1>18, <3>1, <3>2
  <2>4. operator' # None => /\ basis'[Operator] # None /\ basis'[Operator].pointer # None
                            /\ \A rt \in operator' : <<basis'[Operator].pointer, rt>> \in pages'
    BY <1>2 DEF IndInv, Ordered, coordinator
  <2> QED BY <2>1, <2>2, <2>3, <2>4 DEF Ordered, Later
<1> QED BY <1>2, <1>11, <1>13, <1>14, <1>15, <1>17, <1>19, OtherStep

\* No job is for a later version than the next, so a commit passes them all.
LEMMA SiteCommitStep ==
    ASSUME IndInv, SiteCommit
    PROVE  IndInv'
<1>1. /\ site.pc \in {"quiet", "mutation", "import"}
      /\ UNCHANGED <<content, bucket, dispatch, drainer, operator, wentLive, faults>>
  BY DEF SiteCommit
<1>2. Site \in Writers /\ Operator \in Writers /\ Site # Operator
  BY Constants
<1>3. CASE /\ History!Commit(Site, site.revision)
           /\ site' = [site EXCEPT !.pc = IF @ = "quiet" THEN "idle" ELSE "wake"]
           /\ op' = IF site.pc = "import" THEN [op EXCEPT ![site.revision] = "running"] ELSE op
  <2>1. PICK pc \in {"idle", "wake"} :
            /\ site' = [site EXCEPT !.pc = pc] /\ (pc # "idle" => site.pc \in {"mutation", "import"})
    BY <1>1, <1>3
  <2>2. site' \in SiteStates /\ site'.pc = pc /\ site'.revision = site.revision
    BY <2>1, SitePc
  <2>3. /\ version + 1 \in Versions /\ version' = version + 1 /\ pointer' = site.revision
        /\ receipts' = [receipts EXCEPT ![version + 1] = site.revision]
        /\ basis' = [basis EXCEPT ![Site] = None] /\ holders' = {} /\ basis[Site] = History!Current
    BY <1>3 DEF History!Commit, History!Versions, Versions
  <2>4. /\ receipts \in [Versions -> Revisions \cup {None}] /\ basis \in [Writers -> Leases \cup {None}]
        /\ site.revision \in Revisions /\ site.revision \in Nat /\ version \in Nat
        /\ op \in [Revisions -> {"none", "running", "pending"} \cup Outcomes]
    BY Types DEF IndInv
  <2>5. /\ receipts' \in [Versions -> Revisions \cup {None}] /\ basis' \in [Writers -> Leases \cup {None}]
        /\ \A w \in Writers : basis'[w] # None => basis'[w] = basis[w]
        /\ basis'[Operator] = basis[Operator]
    BY <1>2, <2>3, <2>4
  <2>6. /\ op' \in [Revisions -> {"none", "running", "pending"} \cup Outcomes]
        /\ \A q \in Revisions : op'[q] = op[q] \/ (q = site.revision /\ site.pc = "import" /\ op'[q] = "running")
    BY <1>3, <2>4
  <2>7. TypeOK'
    BY <1>1, <2>2, <2>3, <2>4, <2>5, <2>6 DEF IndInv, TypeOK, SiteStates, bucket
  <2>8. site.pc \in {"mutation", "import"} => /\ jobs[site.revision] # None
                                              /\ jobs[site.revision].version = version'
    <3>1. basis[Site] # None /\ basis[Site].version = version
      BY <2>3, CurrentTyped DEF IndInv
    <3> QED BY <2>3, <3>1 DEF IndInv, SiteAgrees
  <2>9. Onward
    <3>1. HistoryOnward
      <4>1. \A v \in Versions : v <= version => v # version + 1
        BY <2>4
      <4> QED BY <2>3, <2>4, <4>1 DEF HistoryOnward
    <3> QED BY <1>1, <3>1, NothingOnward DEF bucket
  <2>10. ASSUME NEW q \in Revisions PROVE JobAgrees(q)'
    <3>1. CASE op'[q] = op[q]
      BY <1>1, <2>2, <2>9, <3>1, JobStays DEF bucket
    <3>2. CASE q = site.revision /\ site.pc = "import" /\ op'[q] = "running"
      <4>1. JobAgrees(q) /\ jobs[q] # None /\ jobs[q].version = version'
        BY <2>8, <3>2 DEF IndInv
      <4>2. receipt'[q] = "orphaned" => receipts'[jobs'[q].version] # q
        <5>1. ASSUME receipt[q] = "orphaned"
              PROVE  receipts[jobs[q].version] # q /\ jobs[q].version <= version
          BY <4>1, <5>1, Constants DEF JobAgrees, Outcomes
        <5> QED BY <1>1, <2>9, <4>1, <5>1, NotAgain DEF bucket
      <4>3. "running" \notin Outcomes /\ version' <= version' + 1 /\ version' <= version'
        BY <2>3, <2>4 DEF Outcomes
      <4> QED BY <1>1, <2>2, <3>2, <4>1, <4>2, <4>3 DEF JobAgrees, Noted, bucket
    <3> QED BY <2>6, <3>1, <3>2
  <2>11. PublishedAgrees'
    BY <1>1, <2>2, PublishedStays DEF bucket
  <2>12. SiteAgrees'
    <3>1. version' <= version'
      BY <2>3, <2>4
    <3> QED BY <1>1, <2>1, <2>2, <2>8, <3>1 DEF SiteAgrees, bucket
  <2>13. \A r \in Revisions : jobs[r] # None => ~(jobs[r].version > version + 1)
    <3>1. ASSUME NEW r \in Revisions, jobs[r] # None PROVE ~(jobs[r].version > version + 1)
      <4>1. jobs[r].version \in Nat /\ jobs[r].version <= version + 1
        BY <3>1, Types, JobFields DEF IndInv, JobAgrees
      <4> QED BY <2>4, <4>1
    <3> QED BY <3>1
  <2>14. ASSUME NEW w \in Writers, basis'[w] # None
         PROVE  /\ basis'[w].version <= version'
                /\ basis'[w].pointer # None =>
                     /\ basis'[w].pointer <= site'.revision
                     /\ \A q \in Revisions : jobs'[q] # None /\ jobs'[q].version > basis'[w].version => q > basis'[w].pointer
    <3>1. basis'[w] = basis[w] /\ basis[w].version \in Nat
      BY <2>4, <2>5, <2>14, LeaseFields
    <3> QED BY <1>1, <2>2, <2>3, <2>4, <2>14, <3>1 DEF IndInv, Ordered, Later, bucket
  <2>15. Ordered'
    <3>1. \A r, q \in Revisions : jobs'[r] # None /\ jobs'[q] # None /\ r < q => jobs'[r].version <= jobs'[q].version
      BY <1>1 DEF IndInv, Ordered, bucket
    <3>2. pointer' # None =>
            /\ pointer' <= site'.revision
            /\ \A q \in Revisions : jobs'[q] # None /\ jobs'[q].version > version' => q > pointer'
      BY <1>1, <2>2, <2>3, <2>4, <2>13 DEF bucket
    <3>3. operator' # None => /\ basis'[Operator] # None /\ basis'[Operator].pointer # None
                              /\ \A rt \in operator' : <<basis'[Operator].pointer, rt>> \in pages'
      BY <1>1, <2>5 DEF IndInv, Ordered, bucket
    <3> QED BY <2>14, <3>1, <3>2, <3>3 DEF Ordered, Later
  <2> QED BY <1>1, <2>7, <2>9, <2>10, <2>11, <2>12, <2>15, OtherStep
<1>4. CASE History!Forget(Site) /\ site' = [site EXCEPT !.pc = "idle"] /\ UNCHANGED op
  <2>1. LeaseMoves(Site)
    BY <1>2, <1>4, LeaseKinds
  <2>2. /\ basis' \in [Writers -> Leases \cup {None}] /\ holders' \in SUBSET Writers
        /\ \A u \in Writers : basis'[u] \in {basis[u], None, History!Current}
        /\ \A u \in Writers \ {Site} : basis'[u] = basis[u]
    BY <1>2, <2>1, LeaseTyped
  <2>3. site' \in SiteStates /\ site'.pc = "idle" /\ site'.revision = site.revision
    BY <1>4, SitePc
  <2>4. TypeOK'
    BY <1>1, <1>4, <2>1, <2>2, <2>3 DEF IndInv, TypeOK, SiteStates, bucket, LeaseMoves
  <2>5. Onward /\ (\A r \in Revisions : JobAgrees(r)') /\ PublishedAgrees'
    BY <1>1, <1>4, <2>1, <2>3, HistoryStays, JobsStay DEF rows, LeaseMoves
  <2>6. Ordered'
    BY <1>1, <1>2, <2>1, <2>2, <2>3, OrderOfOthers DEF LeaseMoves, bucket
  <2>7. SiteAgrees'
    BY <2>3 DEF SiteAgrees
  <2> QED BY <1>1, <2>4, <2>5, <2>6, <2>7, OtherStep
<1> QED BY <1>3, <1>4 DEF SiteCommit

\* The rows of a job whose version was reached, and of its operation, change.
LEMMA RowStep ==
    ASSUME IndInv, NEW r \in Revisions, jobs[r] # None, jobs[r].version <= version,
           UNCHANGED <<coordinator, content, bucket, drainer, operator, wentLive>>, faults' \in 0..MaxFaults,
           site' \in SiteStates, site'.revision = site.revision, SiteAgrees',
           dispatch' \in {dispatch, [dispatch EXCEPT ![r] = "open"]},
           op' \in {op, [op EXCEPT ![r] = "pending"]}
    PROVE  IndInv'
<1>1. /\ dispatch \in [Revisions -> {"none", "open", "done", "dead"}]
      /\ op \in [Revisions -> {"none", "running", "pending"} \cup Outcomes]
      /\ published.edition \in Nat
  BY Types, PublicationFields DEF IndInv
<1>2. /\ dispatch' \in [Revisions -> {"none", "open", "done", "dead"}]
      /\ op' \in [Revisions -> {"none", "running", "pending"} \cup Outcomes]
      /\ \A q \in Revisions \ {r} : dispatch'[q] = dispatch[q] /\ op'[q] = op[q]
      /\ \A q \in Revisions : dispatch[q] # "none" => dispatch'[q] # "none"
      /\ op'[r] \in {op[r], "pending"}
  BY <1>1
<1>3. Onward
  BY <1>2, HistoryStays, NothingOnward DEF bucket, coordinator
<1>4. TypeOK'
  BY <1>2 DEF IndInv, TypeOK, SiteStates, bucket, coordinator
<1>5. ASSUME NEW q \in Revisions PROVE JobAgrees(q)'
  <2>1. CASE q # r
    BY <1>2, <1>3, <2>1, JobStays DEF bucket
  <2>2. CASE q = r
    <3>1. JobAgrees(r) /\ "pending" \notin Outcomes
      BY DEF IndInv, Outcomes
    <3>2. op'[r] \in Outcomes => op'[r] = op[r]
      BY <1>2, <3>1
    <3> QED BY <2>2, <3>1, <3>2 DEF JobAgrees, Noted, bucket, coordinator
  <2> QED BY <2>1, <2>2
<1>6. Ordered'
  BY OrderOfOthers DEF bucket, coordinator
<1>7. PublishedAgrees'
  BY PublishedStays DEF bucket
<1> QED BY <1>3, <1>4, <1>5, <1>6, <1>7, OtherStep

\* The job of a mutation that was committed.
LEMMA CommittedJob ==
    ASSUME IndInv, site.pc \in {"wake", "complete", "again"}, NEW pc \in {"idle", "complete", "again"},
           site' = [site EXCEPT !.pc = pc], UNCHANGED <<coordinator, bucket>>
    PROVE  /\ site.revision \in Revisions /\ jobs[site.revision] # None /\ jobs[site.revision].version <= version
           /\ site' \in SiteStates /\ site'.revision = site.revision /\ SiteAgrees'
<1>1. site' \in SiteStates /\ site'.pc = pc /\ site'.revision = site.revision
  BY SitePc
<1>2. site.revision \in Revisions /\ jobs[site.revision] # None /\ jobs[site.revision].version <= version
  BY Types DEF IndInv, SiteAgrees
<1>3. SiteAgrees'
  BY <1>1, <1>2 DEF SiteAgrees, bucket, coordinator
<1> QED BY <1>1, <1>2, <1>3

(* A mutation wakes its job, or fails to. *)
LEMMA SiteWakeStep ==
    ASSUME IndInv, SiteWake
    PROVE  IndInv'
<1>1. /\ site.pc = "wake" /\ UNCHANGED <<coordinator, content, bucket, op, drainer, operator, wentLive>>
      /\ dispatch' \in {dispatch, [dispatch EXCEPT ![site.revision] = "open"]}
  BY DEF SiteWake
<1>2. PICK pc \in {"idle", "complete"} : site' = [site EXCEPT !.pc = pc]
  BY DEF SiteWake
<1>3. PICK r \in Revisions : r = site.revision
  BY Types DEF IndInv
<1>4. /\ jobs[r] # None /\ jobs[r].version <= version
      /\ site' \in SiteStates /\ site'.revision = site.revision /\ SiteAgrees'
  BY <1>1, <1>2, <1>3, CommittedJob
<1>5. faults' \in 0..MaxFaults
  <2>1. faults \in 0..MaxFaults /\ MaxFaults \in Nat
    BY Types, Constants DEF IndInv
  <2>2. faults' = faults \/ (faults < MaxFaults /\ faults' = faults + 1)
    BY DEF SiteWake
  <2> QED BY <2>1, <2>2
<1> QED BY <1>1, <1>3, <1>4, <1>5, RowStep

(* A mutation completes its operation. *)
LEMMA SiteCompleteStep ==
    ASSUME IndInv, SiteComplete
    PROVE  IndInv'
<1>1. /\ site.pc = "complete"
      /\ UNCHANGED <<coordinator, content, bucket, dispatch, drainer, operator, wentLive, faults>>
      /\ op' \in {op, [op EXCEPT ![site.revision] = "pending"]}
  BY DEF SiteComplete
<1>2. PICK pc \in {"idle", "again"} : site' = [site EXCEPT !.pc = pc]
  BY DEF SiteComplete
<1>3. PICK r \in Revisions : r = site.revision
  BY Types DEF IndInv
<1>4. /\ jobs[r] # None /\ jobs[r].version <= version
      /\ site' \in SiteStates /\ site'.revision = site.revision /\ SiteAgrees'
  BY <1>1, <1>2, <1>3, CommittedJob
<1>5. faults' \in 0..MaxFaults
  BY <1>1, Types DEF IndInv
<1> QED BY <1>1, <1>3, <1>4, <1>5, RowStep

(* A mutation makes sure that its job has a row. *)
LEMMA SiteAgainStep ==
    ASSUME IndInv, SiteAgain
    PROVE  IndInv'
<1>1. /\ site.pc = "again" /\ site' = [site EXCEPT !.pc = "idle"]
      /\ UNCHANGED <<coordinator, content, bucket, op, drainer, operator, wentLive, faults>>
  BY DEF SiteAgain
<1>2. PICK r \in Revisions : r = site.revision
  BY Types DEF IndInv
<1>3. dispatch' \in {dispatch, [dispatch EXCEPT ![r] = "open"]}
  <2>1. dispatch' = [dispatch EXCEPT ![r] = IF @ = "none" THEN "open" ELSE @]
    BY <1>2 DEF SiteAgain
  <2>2. dispatch \in [Revisions -> {"none", "open", "done", "dead"}]
    BY Types DEF IndInv
  <2> QED BY <2>1, <2>2
<1>4. /\ jobs[r] # None /\ jobs[r].version <= version
      /\ site' \in SiteStates /\ site'.revision = site.revision /\ SiteAgrees'
  BY <1>1, <1>2, CommittedJob
<1>5. faults' \in 0..MaxFaults
  BY <1>1, Types DEF IndInv
<1> QED BY <1>1, <1>3, <1>4, <1>5, RowStep

(* A mutation is evicted. *)
LEMMA SiteVanishStep ==
    ASSUME IndInv, SiteVanish
    PROVE  IndInv'
<1>1. /\ faults < MaxFaults /\ faults' = faults + 1 /\ basis' = [basis EXCEPT ![Site] = None]
      /\ site' = [site EXCEPT !.pc = "idle"]
      /\ UNCHANGED <<version, pointer, receipts, holders, content, bucket, rows, drainer, operator, wentLive>>
  BY DEF SiteVanish
<1>2. site' \in SiteStates /\ site'.pc = "idle" /\ site'.revision = site.revision
  BY <1>1, SitePc
<1>3. SiteAgrees'
  BY <1>2 DEF SiteAgrees
<1>4. faults' \in 0..MaxFaults
  <2>1. faults \in 0..MaxFaults /\ MaxFaults \in Nat
    BY Types, Constants DEF IndInv
  <2> QED BY <1>1, <2>1
<1>5. LeaseMoves(Site) /\ Site \in Writers /\ Operator \in Writers /\ Site # Operator
  BY <1>1, Constants, LeaseKinds
<1>6. /\ basis' \in [Writers -> Leases \cup {None}] /\ holders' \in SUBSET Writers
      /\ \A u \in Writers : basis'[u] \in {basis[u], None, History!Current}
      /\ \A u \in Writers \ {Site} : basis'[u] = basis[u]
  BY <1>5, LeaseTyped
<1>7. TypeOK'
  BY <1>1, <1>2, <1>4, <1>6 DEF IndInv, TypeOK, SiteStates, bucket, rows
<1>8. Onward /\ (\A r \in Revisions : JobAgrees(r)') /\ PublishedAgrees'
  BY <1>1, <1>2, HistoryStays, JobsStay
<1>9. Ordered'
  BY <1>1, <1>2, <1>5, <1>6, OrderOfOthers DEF bucket
<1> QED BY <1>1, <1>3, <1>7, <1>8, <1>9, OtherStep

\* What a step on the rows of another revision, or of the site's own once it is woken, leaves to
\* a mutation at work.
LEMMA SiteAwaits ==
    ASSUME IndInv, NEW r \in Revisions, op[r] # "none" \/ dispatch[r] # "none", UNCHANGED <<coordinator, bucket, site>>,
           \A q \in Revisions \ {r} : dispatch'[q] = dispatch[q] /\ op'[q] = op[q]
    PROVE  SiteAgrees'
<1>1. site.revision \in Revisions /\ SiteAgrees
  BY Types DEF IndInv
<1>2. site.pc \in {"quiet", "mutation", "import"} => dispatch'[site.revision] = "none" /\ op'[site.revision] = "none"
  BY <1>1 DEF SiteAgrees
<1> QED BY <1>1, <1>2 DEF SiteAgrees, bucket, coordinator

(* The operation of a commit is taken over and completed. *)
LEMMA RecoverStep ==
    ASSUME IndInv, NEW r \in Revisions, Recover(r)
    PROVE  IndInv'
<1>1. /\ op[r] = "running" /\ op' = [op EXCEPT ![r] = "pending"]
      /\ UNCHANGED <<coordinator, content, bucket, dispatch, drainer, site, operator, wentLive>>
  BY DEF Recover
<1>2. jobs[r] # None /\ jobs[r].version <= version
  BY <1>1 DEF IndInv, JobAgrees
<1>3. site' \in SiteStates /\ op \in [Revisions -> {"none", "running", "pending"} \cup Outcomes]
  BY <1>1, Types DEF IndInv
<1>4. faults' \in 0..MaxFaults
  <2>1. faults \in 0..MaxFaults /\ MaxFaults \in Nat
    BY Types, Constants DEF IndInv
  <2>2. faults' = faults \/ (faults < MaxFaults /\ faults' = faults + 1)
    BY DEF Recover
  <2> QED BY <2>1, <2>2
<1>5. SiteAgrees'
  BY <1>1, <1>3, SiteAwaits
<1> QED BY <1>1, <1>2, <1>3, <1>4, <1>5, RowStep

(* The cron wakes the job of an operation. *)
LEMMA RepairStep ==
    ASSUME IndInv, NEW r \in Revisions, Repair(r)
    PROVE  IndInv'
<1>1. /\ op[r] = "pending" /\ dispatch' = [dispatch EXCEPT ![r] = "open"]
      /\ UNCHANGED <<coordinator, content, bucket, op, drainer, site, operator, wentLive, faults>>
  BY DEF Repair
<1>2. jobs[r] # None /\ jobs[r].version <= version
  BY <1>1 DEF IndInv, JobAgrees
<1>3. /\ site' \in SiteStates /\ faults' \in 0..MaxFaults
      /\ dispatch \in [Revisions -> {"none", "open", "done", "dead"}]
  BY <1>1, Types DEF IndInv
<1>4. SiteAgrees'
  BY <1>1, <1>3, SiteAwaits
<1> QED BY <1>1, <1>2, <1>3, <1>4, RowStep

(* A visitor's request renders a page. *)
LEMMA VisitStep ==
    ASSUME IndInv, NEW rt \in Routes, Visit(rt)
    PROVE  IndInv'
<1>1. /\ pointer # None /\ pages' = pages \cup {<<pointer, rt>>}
      /\ UNCHANGED <<coordinator, content, jobs, deleted, receipt, claim, progress, published, rows, drainer,
                     site, operator, wentLive, faults>>
  BY DEF Visit
<1>2. pages' \in SUBSET (Revisions \X Routes) /\ Operator \in Writers
  BY <1>1, Types, Constants DEF IndInv
<1>3. TypeOK'
  BY <1>1, <1>2 DEF IndInv, TypeOK, coordinator, rows
<1>4. Onward
  BY <1>1, HistoryStays, NothingOnward DEF rows, coordinator
<1>5. \A r \in Revisions : JobAgrees(r)'
  BY <1>1, <1>4, JobStays DEF rows, coordinator
<1>6. PublishedAgrees'
  BY <1>1, PublishedStays
<1>7. Ordered'
  BY <1>1, OrderOfOthers DEF coordinator
<1>8. SiteAgrees'
  BY <1>1 DEF IndInv, SiteAgrees, coordinator, rows
<1> QED BY <1>1, <1>3, <1>4, <1>5, <1>6, <1>7, <1>8, OtherStep

\* The operator's chosen pages are those of the pointer its lease was granted on.
LEMMA OperatorReadStep ==
    ASSUME IndInv, OperatorRead
    PROVE  IndInv'
<1>1. /\ pointer # None /\ History!Grant(Operator)
      /\ UNCHANGED <<content, bucket, rows, drainer, site, wentLive, faults>>
  BY DEF OperatorRead
<1>2. PICK chosen \in SUBSET Routes : operator' = chosen /\ \A rt \in chosen : <<pointer, rt>> \in pages
  BY DEF OperatorRead
<1>3. Operator \in Writers /\ Site \in Writers /\ Site # Operator
  BY Constants
<1>4. LeaseMoves(Operator)
  BY <1>1, <1>3, LeaseKinds
<1>5. /\ basis' \in [Writers -> Leases \cup {None}] /\ holders' \in SUBSET Writers
      /\ \A u \in Writers : basis'[u] \in {basis[u], None, History!Current}
      /\ \A u \in Writers \ {Operator} : basis'[u] = basis[u]
  BY <1>3, <1>4, LeaseTyped
<1>6. TypeOK'
  BY <1>1, <1>2, <1>4, <1>5 DEF IndInv, TypeOK, bucket, rows, LeaseMoves
<1>7. Onward /\ (\A r \in Revisions : JobAgrees(r)') /\ PublishedAgrees'
  BY <1>1, <1>4, HistoryStays, JobsStay DEF LeaseMoves
<1>8. basis'[Operator] = History!Current
  BY <1>1, <1>3, Types DEF IndInv, History!Grant
<1>9. basis'[Operator] # None /\ basis'[Operator].pointer = pointer
  BY <1>8, CurrentTyped DEF IndInv
<1>10. Ordered'
  BY <1>1, <1>2, <1>4, <1>5, <1>9, OrderKept DEF LeaseMoves, bucket
<1>11. SiteAgrees'
  BY <1>1, <1>3, <1>4, <1>5 DEF IndInv, SiteAgrees, bucket, rows, LeaseMoves
<1> QED BY <1>1, <1>6, <1>7, <1>10, <1>11, OtherStep

\* What the operator gives up.
LEMMA OperatorLeaves ==
    ASSUME IndInv, History!Forget(Operator), operator' = None, UNCHANGED <<content, rows, drainer, site, wentLive, faults,
               jobs, deleted, receipt, claim, progress, pages>>
    PROVE  /\ published' \in Publications => TypeOK'
           /\ Ordered' /\ SiteAgrees' /\ UNCHANGED <<version, pointer, receipts>>
<1>1. Operator \in Writers /\ Site \in Writers /\ Site # Operator
  BY Constants
<1>2. LeaseMoves(Operator)
  BY <1>1, LeaseKinds
<1>3. /\ basis' \in [Writers -> Leases \cup {None}] /\ holders' \in SUBSET Writers
      /\ \A u \in Writers : basis'[u] \in {basis[u], None, History!Current}
      /\ \A u \in Writers \ {Operator} : basis'[u] = basis[u]
  BY <1>1, <1>2, LeaseTyped
<1>4. published' \in Publications => TypeOK'
  BY <1>2, <1>3 DEF IndInv, TypeOK, rows, LeaseMoves
<1>5. Ordered'
  BY <1>2, <1>3, OrderKept DEF LeaseMoves
<1>6. SiteAgrees'
  BY <1>1, <1>2, <1>3 DEF IndInv, SiteAgrees, rows, LeaseMoves
<1> QED BY <1>2, <1>4, <1>5, <1>6 DEF LeaseMoves

(* An operator whose lease was lost ends. *)
LEMMA OperatorRefusedStep ==
    ASSUME IndInv, OperatorRefused
    PROVE  IndInv'
<1>1. /\ operator' = None /\ History!Forget(Operator)
      /\ UNCHANGED <<content, bucket, rows, drainer, site, wentLive, faults>>
  BY DEF OperatorRefused
<1>2. TypeOK' /\ Ordered' /\ SiteAgrees' /\ UNCHANGED <<version, pointer, receipts>>
  BY <1>1, OperatorLeaves, Types DEF IndInv, bucket
<1>3. Onward /\ (\A r \in Revisions : JobAgrees(r)') /\ PublishedAgrees'
  BY <1>1, <1>2, HistoryStays, JobsStay
<1> QED BY <1>1, <1>2, <1>3, OtherStep

\* What an operator publishes is behind every job for a later version.
LEMMA OperatorPutStep ==
    ASSUME IndInv, OperatorPut
    PROVE  IndInv'
<1>1. /\ operator # None /\ published.edition < MaxEditions /\ operator' = None /\ History!Forget(Operator)
      /\ published' = [version |-> basis[Operator].version, revision |-> basis[Operator].pointer,
                       source |-> None, edition |-> published.edition + 1,
                       routes |-> [rt \in Routes |-> IF rt \in operator THEN basis[Operator].pointer ELSE 0]]
      /\ UNCHANGED <<content, jobs, deleted, receipt, claim, progress, pages, rows, drainer, site, wentLive, faults>>
  BY DEF OperatorPut
<1>2. PICK v \in Versions, r \in Revisions : v = basis[Operator].version /\ r = basis[Operator].pointer
  <2>1. basis[Operator] \in Leases /\ basis[Operator].pointer # None
    BY <1>1, Types, Constants DEF IndInv, Ordered
  <2> QED BY <2>1, LeaseFields
<1>3. Later(v, r) /\ r <= site.revision /\ \A rt \in operator : <<r, rt>> \in pages
  BY <1>1, <1>2, Constants DEF IndInv, Ordered
<1>4. r \in Nat /\ r \in 0..MaxRevisions /\ 0 \in 0..MaxRevisions /\ 0 <= r
  BY Constants DEF Revisions
<1>5. PICK routes \in [Routes -> 0..MaxRevisions] : routes = [rt \in Routes |-> IF rt \in operator THEN r ELSE 0]
  BY <1>4
<1>6. published.edition \in Nat /\ MaxEditions \in Nat
  BY Types, PublicationFields, Constants DEF IndInv
<1>7. PICK e \in 1..MaxEditions : e = published.edition + 1
  BY <1>1, <1>6
<1>8. PICK p : p = [version |-> v, revision |-> r, source |-> None, edition |-> e, routes |-> routes]
  OBVIOUS
<1>9. p \in Publications /\ p.version = v /\ p.revision = r /\ p.source = None /\ p.edition = e /\ p.routes = routes
  BY <1>8 DEF Publications
<1>10. published' = p
  BY <1>1, <1>2, <1>5, <1>7, <1>8
<1>11. TypeOK' /\ Ordered' /\ SiteAgrees' /\ UNCHANGED <<version, pointer, receipts>>
  BY <1>1, <1>9, <1>10, OperatorLeaves
<1>12. Onward
  <2>1. published'.edition \in Nat /\ published'.edition > published.edition
    BY <1>6, <1>7, <1>9, <1>10
  <2> QED BY <1>1, <1>11, <2>1, HistoryStays DEF Onward, rows
<1>13. \A q \in Revisions : JobAgrees(q)'
  BY <1>1, <1>11, <1>12, JobStays DEF rows
<1>14. PublishedAgrees'
  <2>1. \A rt \in Routes : routes[rt] <= r /\ (routes[rt] # 0 => <<routes[rt], rt>> \in pages)
    BY <1>3, <1>4, <1>5
  <2>2. /\ p.revision <= site'.revision /\ p.source = None
        /\ \A rt \in Routes : p.routes[rt] <= p.revision /\ (p.routes[rt] # 0 => <<p.routes[rt], rt>> \in pages')
        /\ \A q \in Revisions : jobs'[q] # None /\ jobs'[q].version > p.version => q > p.revision
    BY <1>1, <1>3, <1>9, <2>1 DEF Later
  <2> QED BY <1>10, <2>2 DEF PublishedAgrees, Rendered, Later
<1> QED BY <1>1, <1>11, <1>12, <1>13, <1>14, OtherStep

\* A reset moves the version past every lease.
LEMMA ResetStep ==
    ASSUME IndInv, Reset
    PROVE  IndInv'
<1>1. /\ version < MaxVersion /\ version' = version + 1 /\ pointer' = None /\ holders' = {} /\ basis' = basis
      /\ receipts' = [v \in Versions |-> None]
      /\ UNCHANGED <<content, bucket, rows, drainer, site, operator, wentLive, faults>>
  BY DEF Reset, History!Reset, History!Versions, Versions
<1>2. version \in Nat /\ MaxVersion \in Nat /\ basis \in [Writers -> Leases \cup {None}] /\ version \in Versions
  BY Types, Constants DEF IndInv
<1>3. version' \in Versions
  BY <1>1, <1>2 DEF Versions
<1>4. TypeOK'
  BY <1>1, <1>3 DEF IndInv, TypeOK, bucket, rows
<1>5. Onward /\ (\A r \in Revisions : JobAgrees(r)') /\ PublishedAgrees'
  <2>1. HistoryOnward
    BY <1>1 DEF HistoryOnward
  <2> QED BY <1>1, <2>1, JobsStay
<1>6. SiteAgrees'
  <2>1. site.pc \in {"wake", "complete", "again"} => jobs[site.revision].version <= version'
    <3>1. jobs[site.revision] # None => jobs[site.revision].version \in Nat
      BY Types, JobFields DEF IndInv
    <3> QED BY <1>1, <1>2, <3>1 DEF IndInv, SiteAgrees
  <2> QED BY <1>1, <2>1 DEF IndInv, SiteAgrees, bucket, rows
<1>7. ASSUME NEW w \in Writers, basis'[w] # None
      PROVE  /\ basis'[w].version <= version'
             /\ basis'[w].pointer # None =>
                  /\ basis'[w].pointer <= site'.revision
                  /\ \A q \in Revisions : jobs'[q] # None /\ jobs'[q].version > basis'[w].version => q > basis'[w].pointer
  <2>1. basis[w].version \in Nat
    BY <1>1, <1>2, <1>7, LeaseFields
  <2> QED BY <1>1, <1>2, <1>7, <2>1 DEF IndInv, Ordered, Later, bucket
<1>8. Ordered'
  BY <1>1, <1>7 DEF IndInv, Ordered, Later, bucket
<1> QED BY <1>1, <1>4, <1>5, <1>6, <1>8, OtherStep

(* A lease lapses. *)
LEMMA LapseStep ==
    ASSUME IndInv, Lapse
    PROVE  IndInv'
<1>1. /\ holders' = {} /\ UNCHANGED <<version, pointer, receipts, basis>>
      /\ UNCHANGED <<content, bucket, rows, drainer, site, operator, wentLive>>
  BY DEF Lapse, History!Revoke
<1>2. faults' \in 0..MaxFaults
  <2>1. faults \in 0..MaxFaults /\ MaxFaults \in Nat
    BY Types, Constants DEF IndInv
  <2>2. faults' = faults \/ (faults < MaxFaults /\ faults' = faults + 1)
    BY DEF Lapse
  <2> QED BY <2>1, <2>2
<1>3. TypeOK'
  BY <1>1, <1>2 DEF IndInv, TypeOK, bucket, rows
<1>4. Onward /\ (\A r \in Revisions : JobAgrees(r)') /\ PublishedAgrees'
  BY <1>1, HistoryStays, JobsStay
<1>5. SiteAgrees'
  BY <1>1 DEF IndInv, SiteAgrees, bucket, rows
<1>6. Ordered'
  BY <1>1, OrderOfOthers DEF bucket
<1> QED BY <1>1, <1>3, <1>4, <1>5, <1>6, OtherStep

(* A claim lapses. *)
LEMMA LapseClaimStep ==
    ASSUME IndInv, NEW r \in Revisions, LapseClaim(r)
    PROVE  IndInv'
<1>1. /\ claim[r] # None /\ claim' = [claim EXCEPT ![r].expired = TRUE]
      /\ UNCHANGED <<coordinator, content, jobs, deleted, receipt, progress, pages, published, rows,
                     drainer, site, operator, wentLive>>
  BY DEF LapseClaim, IsClaimed
<1>2. faults' \in 0..MaxFaults
  <2>1. faults \in 0..MaxFaults /\ MaxFaults \in Nat
    BY Types, Constants DEF IndInv
  <2>2. faults' = faults \/ (faults < MaxFaults /\ faults' = faults + 1)
    BY DEF LapseClaim
  <2> QED BY <2>1, <2>2
<1>3. claim' \in [Revisions -> Claims \cup {None}]
  <2>1. claim \in [Revisions -> Claims \cup {None}] /\ claim[r] \in Claims
    BY <1>1, Types DEF IndInv
  <2>2. PICK c : c = [claim[r] EXCEPT !.expired = TRUE]
    OBVIOUS
  <2>3. c \in Claims
    BY <2>1, <2>2 DEF Claims
  <2>4. claim' = [claim EXCEPT ![r] = c]
    BY <1>1, <2>2
  <2> QED BY <2>1, <2>3, <2>4
<1>4. TypeOK'
  BY <1>1, <1>2, <1>3 DEF IndInv, TypeOK, coordinator, rows
<1>5. Onward
  BY <1>1, HistoryStays, NothingOnward DEF rows, coordinator
<1>6. \A q \in Revisions : JobAgrees(q)'
  BY <1>1, <1>5, JobStays DEF rows, coordinator
<1>7. PublishedAgrees'
  BY <1>1, PublishedStays
<1>8. SiteAgrees'
  BY <1>1 DEF IndInv, SiteAgrees, coordinator, rows
<1>9. Ordered'
  BY <1>1, OrderOfOthers DEF coordinator
<1> QED BY <1>1, <1>4, <1>5, <1>6, <1>7, <1>8, <1>9, OtherStep

-----------------------------------------------------------------------------
(***************************************************************************)
(* The theorems.                                                           *)
(***************************************************************************)

(* At first nothing is published and no job exists. *)
LEMMA InitInv == Init => IndInv
<1> SUFFICES ASSUME Init PROVE IndInv
  OBVIOUS
<1>1. 1 \in Revisions /\ 1 \in Versions /\ 1 \in 1..MaxEditions /\ 1 \in 0..MaxRevisions /\ 0 \in 0..MaxRevisions
      /\ 0 \in 0..MaxFaults /\ Site \in Writers
  BY Constants DEF Revisions
<1>2. TypeOK
  <2>1. /\ receipts \in [Versions -> Revisions \cup {None}] /\ basis \in [Writers -> Leases \cup {None}]
        /\ content \in [Revisions -> [Routes -> 0..MaxRevisions]] /\ pages \in SUBSET (Revisions \X Routes)
    BY <1>1 DEF Init
  <2>2. published \in Publications
    BY <1>1 DEF Init, Publications
  <2>3. drainer \in [Drainers -> DrainerStates]
    BY IdleTyped DEF Init
  <2>4. site \in SiteStates
    BY <1>1 DEF Init, SiteStates
  <2>5. /\ jobs \in [Revisions -> Jobs \cup {None}] /\ dispatch \in [Revisions -> {"none", "open", "done", "dead"}]
        /\ op \in [Revisions -> {"none", "running", "pending"} \cup Outcomes]
        /\ receipt \in [Revisions -> Outcomes \cup {None}] /\ claim \in [Revisions -> Claims \cup {None}]
        /\ progress \in [Revisions -> Progress \cup {None}]
    BY DEF Init
  <2>6. /\ version \in Versions /\ pointer \in Revisions \cup {None} /\ holders \in SUBSET Writers
        /\ deleted \in SUBSET Revisions /\ wentLive \in SUBSET Revisions /\ operator \in {None} \cup SUBSET Routes
        /\ faults \in 0..MaxFaults
    BY <1>1 DEF Init
  <2> QED BY <2>1, <2>2, <2>3, <2>4, <2>5, <2>6 DEF TypeOK, DrainerStates, SiteStates
<1>3. ASSUME NEW r \in Revisions PROVE JobAgrees(r)
  BY Constants DEF Init, JobAgrees, Outcomes
<1>4. SiteAgrees
  BY DEF Init, SiteAgrees
<1>5. Ordered
  BY DEF Init, Ordered, Later
<1>6. PublishedAgrees
  BY <1>1 DEF Init, PublishedAgrees, Rendered, Later
<1>7. ASSUME NEW d \in Drainers PROVE Knows(drainer[d])
  <2>1. drainer[d].pc = "idle"
    BY IdleTyped DEF Init
  <2> QED BY <2>1, BareKnows DEF Bare
<1> QED BY <1>2, <1>3, <1>4, <1>5, <1>6, <1>7 DEF IndInv

(* Every step of consumers, mutations, cron and operator keeps the invariant. *)
LEMMA StepInv == IndInv /\ [Next]_vars => IndInv'
<1> SUFFICES ASSUME IndInv, [Next]_vars PROVE IndInv'
  OBVIOUS
<1>1. CASE Mutate
  BY <1>1, SiteAcquireStep, SiteStageStep, SiteCommitStep, SiteWakeStep, SiteCompleteStep,
     SiteAgainStep, SiteVanishStep DEF Mutate
<1>2. CASE \E d \in Drainers : Drain(d)
  BY <1>2, DrainKeeps
<1>3. CASE OperatorRead \/ OperatorPut \/ OperatorRefused \/ Reset \/ Lapse
  BY <1>3, OperatorReadStep, OperatorPutStep, OperatorRefusedStep, ResetStep, LapseStep
<1>4. CASE \E r \in Revisions : Recover(r) \/ Repair(r) \/ LapseClaim(r)
  BY <1>4, RecoverStep, RepairStep, LapseClaimStep
<1>5. CASE \E rt \in Routes : Visit(rt)
  BY <1>5, VisitStep
<1>6. CASE UNCHANGED vars
  <2>1. UNCHANGED <<content, bucket, rows, wentLive, version, pointer, receipts, basis, holders, drainer, site,
                    operator, faults>>
    BY <1>6 DEF vars, coordinator
  <2>2. TypeOK'
    BY <2>1 DEF IndInv, TypeOK, bucket, rows
  <2>3. Onward /\ (\A r \in Revisions : JobAgrees(r)') /\ PublishedAgrees'
    BY <2>1, HistoryStays, JobsStay
  <2>4. SiteAgrees'
    BY <2>1 DEF IndInv, SiteAgrees, bucket, rows
  <2>5. Ordered'
    BY <2>1, OrderOfOthers DEF bucket
  <2> QED BY <2>1, <2>2, <2>3, <2>4, <2>5, OtherStep
<1> QED BY <1>1, <1>2, <1>3, <1>4, <1>5, <1>6 DEF Next

\* The bookkeeping of publication agrees in every state, whatever happens to consumers, leases,
\* claims and requests.
\* (drainPublicationJobWhileLeased, enqueuePublicationJob, publishCanonicalWordPressPages)
THEOREM Invariance == Spec => []IndInv
BY InitInv, StepInv, PTL DEF Spec

\* Every object, row, lease and local state is what the code writes there.
\* (drainPublicationJob, readPublicationJob, readPublicationProgress)
THEOREM TypeCorrect == Spec => []TypeOK
<1>1. IndInv => TypeOK
  BY DEF IndInv
<1> QED BY <1>1, Invariance, PTL

\* Every published route has its page in R2, for any number of consumers, routes and lost leases.
\* (drainPublicationJobWhileLeased, publishCanonicalWordPressPages)
THEOREM PublishedHasPages == Spec => []PublishedRendered
<1>1. IndInv => PublishedRendered
  BY DEF IndInv, PublishedAgrees, Rendered, PublishedRendered, Existing
<1> QED BY <1>1, Invariance, PTL

\* An operation is told the outcome in its job's receipt, and a job is promoted where its receipt
\* says so, whichever consumers drained it.
\* (putImmutableJson, reconcilePublication, recoveredPromotion)
THEOREM OutcomesAreReceipts == Spec => []OutcomeIsReceipt
<1>1. IndInv => OutcomeIsReceipt
  BY DEF IndInv, JobAgrees, OutcomeIsReceipt
<1> QED BY <1>1, Invariance, PTL

\* A job is deleted only after its receipt stands, and one that was given up as orphaned is not
\* in the history and never comes back to it, whichever consumers, mutations, operators and
\* resets of the site came between.
\* (drainPublicationJobWhileLeased, the dispatch after commitLease)
THEOREM DeletedAreAnswered == Spec => []DeletedIsAnswered
<1>1. IndInv => DeletedIsAnswered
  <2>1. ASSUME IndInv, NEW r \in deleted
        PROVE  receipt[r] # None /\ (receipt[r] = "orphaned" => receipts[jobs[r].version] # r)
    <3>1. r \in Revisions
      BY <2>1, Types DEF IndInv
    <3> QED BY <2>1, <3>1 DEF IndInv, JobAgrees
  <2> QED BY <2>1 DEF DeletedIsAnswered
<1> QED BY <1>1, Invariance, PTL

\* What is published changes by the promotion of a job or by an operator's put.
LEMMA PublishedChanges ==
    ASSUME [Next]_vars, published' # published
    PROVE  OperatorPut \/ \E d \in Drainers : Promote(d) /\ UnchangedSince(drainer[d].current)
<1>1. CASE Mutate
  BY <1>1 DEF Mutate, SiteAcquire, SiteStage, SiteCommit, SiteWake, SiteComplete, SiteAgain, SiteVanish, bucket
<1>2. ASSUME NEW d \in Drainers, Drain(d)
      PROVE  Promote(d) /\ UnchangedSince(drainer[d].current)
  <2>1. CASE \E r \in Revisions : Take(d, r)
    BY <2>1 DEF Take, bucket
  <2>2. CASE ReadJob(d) \/ Look(d) \/ Settle(d) \/ Vanish(d)
    BY <2>2 DEF ReadJob, Look, Settle, Vanish, bucket
  <2>3. CASE ClaimPut(d) \/ PutPlan(d) \/ PutPage(d) \/ NoteRoute(d) \/ Mark(d) \/ PutReceipt(d) \/ Delete(d) \/ Close(d)
    BY <2>3 DEF ClaimPut, PutPlan, PutPage, NoteRoute, Mark, PutReceipt, Delete, Close
  <2>4. CASE Promote(d)
    BY <2>4 DEF Promote
  <2> QED BY <1>2, <2>1, <2>2, <2>3, <2>4 DEF Drain
<1>3. CASE OperatorRead \/ OperatorPut \/ OperatorRefused \/ Reset \/ Lapse
  BY <1>3 DEF OperatorRead, OperatorRefused, Reset, Lapse, bucket
<1>4. CASE \E r \in Revisions : Recover(r) \/ Repair(r) \/ LapseClaim(r)
  BY <1>4 DEF Recover, Repair, LapseClaim, bucket
<1>5. CASE \E rt \in Routes : Visit(rt)
  BY <1>5 DEF Visit
<1>6. CASE UNCHANGED vars
  BY <1>6 DEF vars, bucket
<1> QED BY <1>1, <1>2, <1>3, <1>4, <1>5, <1>6 DEF Next

\* A job moves what is published to a later version, and no route back to an older page.
\* (promoteIncrementalPublication)
THEOREM PromotionsAdvance == Spec => PromotionAdvances
<1>1. ASSUME IndInv, [Next]_vars, published' # published, published'.source # None
      PROVE  /\ published'.version > published.version
             /\ \A rt \in Routes : published'.routes[rt] # 0 => published'.routes[rt] >= published.routes[rt]
  <2>1. ~OperatorPut
    BY <1>1 DEF OperatorPut
  <2>2. PICK d \in Drainers : Promote(d) /\ UnchangedSince(drainer[d].current)
    BY <1>1, <2>1, PublishedChanges
  <2>3. /\ drainer[d].pc = "promote" /\ published.edition < MaxEditions
        /\ published.edition = drainer[d].current.edition /\ published' = Incremental(d)
    BY <2>2 DEF Promote, UnchangedSince
  <2> QED BY <1>1, <2>3, IncrementalAhead
<1>2. IndInv /\ [Next]_vars =>
        [published' # published /\ published'.source # None =>
            /\ published'.version > published.version
            /\ \A rt \in Routes : published'.routes[rt] # 0 => published'.routes[rt] >= published.routes[rt]]_vars
  BY <1>1
<1> QED BY <1>2, Invariance, PTL DEF Spec, PromotionAdvances

=============================================================================
