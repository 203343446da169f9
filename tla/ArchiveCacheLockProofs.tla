------------------------ MODULE ArchiveCacheLockProofs ------------------------
(***************************************************************************)
(* Proofs about ArchiveCacheLock, for any number of processes, any part of *)
(* them dead from the start, and all durations of the policy: the lock     *)
(* directory and the lease file of whoever holds the lock stay where they  *)
(* are, whatever the others look at and remove.                            *)
(***************************************************************************)
EXTENDS ArchiveCacheLock, TLAPS

States == [pc : Pcs, waits : BOOLEAN, lag : 0 .. MaxLag, recent : BOOLEAN,
           todo : SUBSET Procs, prey : Procs \cup {None}, active : BOOLEAN]

(* The durations are natural numbers and a lease lasts for a while.         *)
LEMMA Durations ==
    /\ EmptyGrace \in Nat /\ LeaseMs \in Nat /\ StaleMs \in Nat /\ MaxLag \in Nat
    /\ MaxFaults \in Nat /\ LeaseMs > 0
    /\ Expired \in Int /\ Expired <= 0 /\ Unrecorded \in Nat /\ Old \in Nat
    /\ {Expired, Unrecorded, LeaseMs} \subseteq Lefts
    /\ \A n \in Lefts : n \in Int /\ n >= Expired /\ Later(n) \in Lefts
                        /\ (n > 1 => Later(n) >= 1)
    /\ \A n \in 0 .. Old : Older(n) \in 0 .. Old
<1>1. /\ EmptyGrace \in Nat /\ LeaseMs \in Nat /\ StaleMs \in Nat /\ MaxLag \in Nat
      /\ MaxFaults \in Nat /\ LeaseMs > 0
  BY PolicyAssumption
<1> QED
  BY <1>1 DEF Expired, Unrecorded, Old, Lefts, Later, Older

(* A process that starts somewhere is in a state of a process.              *)
LEMMA AtTyped ==
    ASSUME NEW pc \in Pcs, NEW b \in BOOLEAN
    PROVE  LET r == [At(pc) EXCEPT !.waits = b] IN r \in States /\ r.pc = pc
<1>1. At(pc) \in States
  BY Durations DEF At, States
<1> QED BY <1>1 DEF At, States

(* So is one that has seen the directory ...                                *)
LEMMA LookTyped ==
    ASSUME NEW pc \in Pcs, NEW b \in BOOLEAN, NEW s \in States
    PROVE  LET r == [s EXCEPT !.pc = pc, !.recent = b] IN r \in States /\ r.pc = pc
BY DEF States

(* ... or listed what is in it.                                             *)
Listed(s, todo, b) ==
    [s EXCEPT !.pc = "inspect", !.todo = todo, !.recent = FALSE, !.active = b]

LEMMA ListTyped ==
    ASSUME NEW s \in States, NEW todo \in SUBSET Procs, NEW b \in BOOLEAN
    PROVE  Listed(s, todo, b) \in States /\ Listed(s, todo, b).pc = "inspect"
BY DEF States, Pcs, Listed

(* Going somewhere, a process forgets what it has seen of the directory.    *)
LEMMA GotoTyped ==
    ASSUME proc \in [Procs -> States], NEW p \in Procs, NEW pc \in Pcs, Goto(p, pc)
    PROVE  /\ proc' \in [Procs -> States]
           /\ Pc(p)' = pc
           /\ \A q \in Procs \ {p} : proc'[q] = proc[q]
<1> DEFINE waits == pc # "idle" /\ proc[p].waits
           s == [At(pc) EXCEPT !.waits = waits]
<1>1. waits \in BOOLEAN
  BY Zenon
<1>2. s \in States /\ s.pc = pc
  <2> HIDE DEF waits
  <2> QED BY <1>1, AtTyped
<1>3. proc' = [proc EXCEPT ![p] = s]
  BY DEF Goto
<1> HIDE DEF s
<1> QED BY <1>2, <1>3 DEF Pc

(* Free, Taken and Missed lead to where the process waits for the lock, or  *)
(* gives up.                                                                *)
LEMMA FreeTaken ==
    ASSUME NEW p \in Procs
    PROVE  /\ Free(p) => \E pc \in {"try", "idle"} : Goto(p, pc)
           /\ Taken(p) => \E pc \in {"wait", "idle"} : Goto(p, pc)
           /\ Missed(p) \in {"look", "idle"}
BY DEF Free, Taken, Missed

----------------------------------------------------------------------------
(* A walk of process p: the directory stays, and so do the lease files in   *)
(* it and the times of everyone else's.  p does not get nearer to the lock  *)
(* by it, nor to unlinking a file.                                          *)
Making3 == {"made", "open", "create"}
Holding == {"record", "held"}

Walk(p) ==
    /\ proc' \in [Procs -> States]
    /\ \A q \in Procs \ {p} : proc'[q] = proc[q]
    /\ Pc(p)' # "unlink"
    /\ Pc(p)' \in Making3 => Pc(p) \in Making3
    /\ Pc(p)' \in Holding => Pc(p) \in Holding /\ left'[p] >= 1
    /\ current' \in SUBSET (current \cup (IF Exists THEN {p} ELSE {}))
    /\ left' \in [Procs -> Lefts]
    /\ \A q \in Procs \ {p} : left'[q] = left[q]
    /\ faults' \in 0 .. MaxFaults
    /\ UNCHANGED <<maker, age, linked>>

(* The type invariant, part by part. *)
LEMMA Types ==
    ASSUME TypeOK
    PROVE  /\ maker \in Procs \cup {None} /\ age \in 0 .. Old
           /\ linked \in SUBSET Procs /\ current \in SUBSET Procs
           /\ (~Exists => linked = {} /\ current = {})
           /\ left \in [Procs -> Lefts]
           /\ faults \in 0 .. MaxFaults
           /\ proc \in [Procs -> States]
BY DEF TypeOK, States, Exists

(* The shape of a Walk: a process moves on, and handles only get fewer or name what is there. *)
LEMMA GotoWalks ==
    ASSUME TypeOK, NEW p \in Procs, NEW pc \in Pcs, Goto(p, pc),
           pc # "unlink", pc \in Making3 => Pc(p) \in Making3, pc \notin Holding,
           current' \in SUBSET (current \cup (IF Exists THEN {p} ELSE {})),
           left' \in [Procs -> Lefts], \A q \in Procs \ {p} : left'[q] = left[q],
           faults' \in 0 .. MaxFaults, UNCHANGED <<maker, age, linked>>
    PROVE  Walk(p)
BY Types, GotoTyped DEF Walk

(* A look goes on: only what p has seen of the directory changes.           *)
LEMMA LookWalks ==
    ASSUME TypeOK, NEW p \in Procs, NEW s \in States,
           proc' = [proc EXCEPT ![p] = s], s.pc \in {"lookStat", "lookOpen", "list", "inspect"},
           current' \in SUBSET (current \cup (IF Exists THEN {p} ELSE {})),
           UNCHANGED <<maker, age, linked, left, faults>>
    PROVE  Walk(p)
<1>1. proc' \in [Procs -> States] /\ Pc(p)' = s.pc /\ \A q \in Procs \ {p} : proc'[q] = proc[q]
  BY Types DEF Pc
<1> QED
  BY <1>1, Types DEF Walk, Making3, Holding

(* The steps that walk. *)
LEMMA EnterWalks ==
    ASSUME TypeOK, NEW p \in Procs, Enter(p)
    PROVE  Walk(p)
<1>1. PICK waits \in BOOLEAN :
        proc' = [proc EXCEPT ![p] = [At(IF waits THEN "try" ELSE "look") EXCEPT !.waits = waits]]
  BY DEF Enter
<1> DEFINE pc == IF waits THEN "try" ELSE "look"
           s == [At(pc) EXCEPT !.waits = waits]
<1>2. pc \in {"try", "look"} /\ pc \in Pcs
  BY DEF Pcs
<1>3. s \in States /\ s.pc = pc
  <2> HIDE DEF pc
  <2> QED BY <1>2, AtTyped, Zenon
<1>4. proc' \in [Procs -> States] /\ Pc(p)' \in {"try", "look"}
      /\ \A q \in Procs \ {p} : proc'[q] = proc[q]
  <2>1. proc' = [proc EXCEPT ![p] = s]
    BY <1>1
  <2> HIDE DEF s, pc
  <2> QED BY <2>1, <1>2, <1>3, Types DEF Pc
<1> QED
  BY <1>4, Types DEF Enter, lock, Walk, Making3, Holding

(* A process that dies walks. *)
LEMMA CrashWalks ==
    ASSUME TypeOK, NEW p \in Procs, Crash(p)
    PROVE  Walk(p)
<1>1. faults' \in 0 .. MaxFaults
  BY Types, Durations DEF Crash, Fault
<1> QED
  BY <1>1, Types, GotoWalks DEF Crash, Pcs, Making3, Holding

(* A heartbeat walks: it changes only the time in the owner's own file. *)
LEMMA HeartbeatWalks ==
    ASSUME TypeOK, NEW p \in Procs, Heartbeat(p)
    PROVE  Walk(p)
BY Types, Durations DEF Heartbeat, Walk, Pc, Making3, Holding

(* A mkdir that finds the directory walks. *)
LEMMA TryWalks ==
    ASSUME TypeOK, NEW p \in Procs, Mkdir(p), Exists
    PROVE  Walk(p)
<1>1. Goto(p, Missed(p)) /\ UNCHANGED <<maker, age, linked, left, current, faults>>
  BY DEF Mkdir, lock
<1> QED
  BY <1>1, Types, FreeTaken, GotoWalks DEF Pcs, Making3, Holding

(* The stat of a new directory walks. *)
LEMMA StatWalks ==
    ASSUME TypeOK, NEW p \in Procs, Stat(p)
    PROVE  Walk(p)
BY Types, FreeTaken, GotoWalks DEF Stat, Pcs, Making3, Holding

(* The open of a new directory walks. *)
LEMMA OpenWalks ==
    ASSUME TypeOK, NEW p \in Procs, Open(p)
    PROVE  Walk(p)
<1>1. PICK pc \in {"create", "look", "idle"} : Goto(p, pc)
  BY FreeTaken DEF Open
<1> QED
  BY <1>1, Types, GotoWalks DEF Open, lock, Pcs, Making3, Holding

(* A lease file cannot be created in a directory that is gone: the maker walks. *)
LEMMA CreateWalks ==
    ASSUME TypeOK, NEW p \in Procs, Create(p), p \notin current
    PROVE  Walk(p)
BY Types, FreeTaken, GotoWalks DEF Create, Pcs, Making3, Holding

(* A maker that takes its lock walks. *)
LEMMA AcquireWalks ==
    ASSUME TypeOK, NEW p \in Procs, Acquire(p)
    PROVE  Walk(p)
<1>1. Goto(p, "held") /\ "held" \in Pcs
  BY DEF Acquire, Pcs
<1> QED
  BY <1>1, Types, Durations, GotoTyped DEF Acquire, Walk, Making3, Holding

(* An owner that begins its release walks. *)
LEMMA ReleaseWalks ==
    ASSUME TypeOK, NEW p \in Procs, Release(p)
    PROVE  Walk(p)
BY Types, Durations, GotoWalks DEF Release, Pcs, Making3, Holding

(* The first lstat of an inspection walks. *)
LEMMA LookStepWalks ==
    ASSUME TypeOK, NEW p \in Procs, Look(p)
    PROVE  Walk(p)
<1>1. CASE Exists
  <2> DEFINE s == [proc[p] EXCEPT !.pc = "lookStat", !.recent = Recent]
  <2>1. Recent \in BOOLEAN
    BY DEF Recent
  <2>2. s \in States /\ s.pc = "lookStat"
    <3>1. "lookStat" \in Pcs /\ proc[p] \in States
      BY Types DEF Pcs
    <3> QED BY <2>1, <3>1, LookTyped
  <2>3. proc' = [proc EXCEPT ![p] = s]
    BY <1>1 DEF Look
  <2> HIDE DEF s
  <2> QED
    BY <1>1, <2>2, <2>3, Types, LookWalks DEF Look, lock
<1>2. CASE ~Exists
  BY <1>2, Types, FreeTaken, GotoWalks DEF Look, lock, Pcs, Making3, Holding
<1> QED BY <1>1, <1>2

(* The second lstat of an inspection walks. *)
LEMMA LookStatWalks ==
    ASSUME TypeOK, NEW p \in Procs, LookStat(p)
    PROVE  Walk(p)
<1>1. CASE Exists
  <2> DEFINE s == [proc[p] EXCEPT !.pc = "lookOpen"]
  <2>1. s \in States /\ s.pc = "lookOpen"
    BY Types DEF States, Pcs
  <2>2. proc' = [proc EXCEPT ![p] = s]
    BY <1>1 DEF LookStat
  <2> HIDE DEF s
  <2> QED
    BY <1>1, <2>1, <2>2, Types, LookWalks DEF LookStat
<1>2. CASE ~Exists
  BY <1>2, Types, FreeTaken, GotoWalks DEF LookStat, Pcs, Making3, Holding
<1> QED BY <1>1, <1>2

(* The open of an inspection walks. *)
LEMMA LookOpenWalks ==
    ASSUME TypeOK, NEW p \in Procs, LookOpen(p)
    PROVE  Walk(p)
<1>1. CASE proc' = [proc EXCEPT ![p].pc = "list"]
  <2> DEFINE s == [proc[p] EXCEPT !.pc = "list"]
  <2>1. s \in States /\ s.pc = "list"
    BY Types DEF States, Pcs
  <2>2. proc' = [proc EXCEPT ![p] = s]
    BY <1>1
  <2> HIDE DEF s
  <2> QED
    BY <2>1, <2>2, Types, LookWalks DEF LookOpen, lock
<1>2. CASE \E pc \in {"try", "wait", "idle"} : Goto(p, pc)
  BY <1>2, Types, GotoWalks DEF LookOpen, lock, Pcs, Making3, Holding
<1> QED
  BY <1>1, <1>2, FreeTaken DEF LookOpen

(* The listing of an inspection walks. *)
LEMMA ListWalks ==
    ASSUME TypeOK, NEW p \in Procs, List(p)
    PROVE  Walk(p)
<1>1. CASE p \in current
  <2> DEFINE active == linked = {} /\ proc[p].recent
             s == Listed(proc[p], linked, active)
  <2>1. active \in BOOLEAN
    BY Zenon
  <2>2. proc' = [proc EXCEPT ![p] = s]
    BY <1>1 DEF List, Listed
  <2>3. proc[p] \in States /\ linked \in SUBSET Procs
    BY Types
  <2> HIDE DEF active
  <2>4. s \in States /\ s.pc = "inspect"
    BY <2>1, <2>3, ListTyped
  <2> HIDE DEF s
  <2> QED
    BY <2>2, <2>4, Types, LookWalks DEF List, lock
<1>2. CASE p \notin current
  BY <1>2, Types, FreeTaken, GotoWalks DEF List, lock, Pcs, Making3, Holding
<1> QED BY <1>1, <1>2

(* What becomes of a process that inspects the lease file of q.             *)
Passes(s, q) == [s EXCEPT !.todo = s.todo \ {q}]
Finds(s, q) == [s EXCEPT !.todo = s.todo \ {q}, !.active = TRUE]
Hunts(s, q) == [s EXCEPT !.todo = s.todo \ {q}, !.prey = q, !.pc = "unlink"]

(* What an inspection makes of a lease file is a state of the process. *)
LEMMA InspectTyped ==
    ASSUME NEW s \in States, NEW q \in Procs
    PROVE  /\ Passes(s, q) \in States /\ Passes(s, q).pc = s.pc
           /\ Finds(s, q) \in States /\ Finds(s, q).pc = s.pc
           /\ Hunts(s, q) \in States /\ Hunts(s, q).pc = "unlink" /\ Hunts(s, q).prey = q
<1>1. "unlink" \in Pcs
  BY DEF Pcs
<1> QED BY <1>1 DEF States, Passes, Finds, Hunts

(* A lease file is passed over, found active, or hunted, and hunted only when it is not. *)
LEMMA InspectKinds ==
    ASSUME proc \in [Procs -> States], NEW p \in Procs, NEW q \in Procs, Inspect(p, q)
    PROVE  \/ proc' = [proc EXCEPT ![p] = Passes(proc[p], q)]
           \/ proc' = [proc EXCEPT ![p] = Finds(proc[p], q)]
           \/ /\ proc' = [proc EXCEPT ![p] = Hunts(proc[p], q)]
              /\ p \in current /\ q \in linked /\ ~LeaseActive(p, q)
BY DEF Inspect, Passes, Finds, Hunts, States

(* An inspection that unlinks nothing walks. *)
LEMMA InspectWalks ==
    ASSUME TypeOK, NEW p \in Procs, NEW q \in Procs, Inspect(p, q), Pc(p)' # "unlink"
    PROVE  Walk(p)
<1>1. Pc(p) = "inspect" /\ UNCHANGED <<maker, age, linked, left, current, faults>>
  BY DEF Inspect, lock
<1>2. proc[p] \in States /\ proc[p].pc = "inspect"
  BY <1>1, Types DEF Pc
<1>3. current' \in SUBSET (current \cup (IF Exists THEN {p} ELSE {}))
  BY <1>1
<1>4. ASSUME NEW s \in States, s.pc = "inspect", proc' = [proc EXCEPT ![p] = s]
      PROVE  Walk(p)
  BY <1>1, <1>3, <1>4, LookWalks
<1>5. /\ Passes(proc[p], q) \in States /\ Passes(proc[p], q).pc = "inspect"
      /\ Finds(proc[p], q) \in States /\ Finds(proc[p], q).pc = "inspect"
  BY <1>2, InspectTyped
<1>6. ASSUME proc' = [proc EXCEPT ![p] = Hunts(proc[p], q)] PROVE FALSE
  <2> DEFINE s == Hunts(proc[p], q)
  <2>1. s.pc = "unlink"
    BY <1>2, InspectTyped
  <2>2. proc' = [proc EXCEPT ![p] = s]
    BY <1>6
  <2> HIDE DEF s
  <2> QED BY <2>1, <2>2, Types DEF Pc
<1> QED BY <1>4, <1>5, <1>6, Types, InspectKinds

(* The end of an inspection walks. *)
LEMMA InspectedWalks ==
    ASSUME TypeOK, NEW p \in Procs, Inspected(p)
    PROVE  Walk(p)
<1>1. PICK pc \in {"wait", "idle", "check"} : Goto(p, pc)
  BY FreeTaken DEF Inspected
<1>2. current' \in SUBSET current
  BY Types DEF Inspected
<1> QED
  BY <1>1, <1>2, Types, GotoWalks DEF Inspected, Pcs, Making3, Holding

(* The check of the generation walks. *)
LEMMA CheckWalks ==
    ASSUME TypeOK, NEW p \in Procs, Check(p)
    PROVE  Walk(p)
<1>1. PICK pc \in {"try", "idle", "rmdir"} : Goto(p, pc)
  BY FreeTaken DEF Check
<1> QED
  BY <1>1, Types, GotoWalks DEF Check, lock, Pcs, Making3, Holding

(* An rmdir of a directory with files fails: the process walks. *)
LEMMA RmdirWalks ==
    ASSUME TypeOK, NEW p \in Procs, Rmdir(p), ~Removable
    PROVE  Walk(p)
<1>1. PICK pc \in {"try", "idle"} : Goto(p, pc)
  BY FreeTaken DEF Rmdir
<1> QED
  BY <1>1, Types, GotoWalks DEF Rmdir, Pcs, Making3, Holding

(* A waiter that tries again walks. *)
LEMMA WaitWalks ==
    ASSUME TypeOK, NEW p \in Procs, Wait(p)
    PROVE  Walk(p)
BY Types, GotoWalks DEF Wait, lock, Pcs, Making3, Holding

(* A step of a process walks, makes the directory or the lease file, is     *)
(* about to unlink a file, unlinks it, or removes the directory.            *)
LEMMA StepKinds ==
    ASSUME TypeOK, NEW p \in Procs, Enter(p) \/ Step(p) \/ Heartbeat(p) \/ Crash(p)
    PROVE  \/ Walk(p)
           \/ Mkdir(p) /\ ~Exists
           \/ Create(p) /\ p \in current
           \/ \E q \in Procs : Inspect(p, q) /\ Pc(p)' = "unlink"
           \/ Unlink(p)
           \/ Rmdir(p) /\ Removable
BY EnterWalks, CrashWalks, HeartbeatWalks, TryWalks, StatWalks, OpenWalks, CreateWalks,
   AcquireWalks, ReleaseWalks, LookStepWalks, LookStatWalks, LookOpenWalks, ListWalks,
   InspectWalks, InspectedWalks, CheckWalks, RmdirWalks, WaitWalks DEF Step

----------------------------------------------------------------------------
(* The inductive invariant. *)

(* A process on its way to its lease file has none in the directory: the    *)
(* directory was empty, or new, when it set out.                            *)
MakersUnlinked == \A p \in Procs : Pc(p) \in Making3 => p \notin linked

(* The lease of a holder has not expired: it heartbeats in time.            *)
LeaseGood == \A p \in Procs : Pc(p) \in Holding => left[p] >= 1

(* Whose file is about to be unlinked from the directory at the path is     *)
(* neither a holder nor on the way to become one: the file is an old one.   *)
PreyIsOld ==
    \A p \in Procs : Pc(p) = "unlink" /\ p \in current =>
        \A q \in Procs : q = proc[p].prey => Pc(q) \notin Making3 \cup Holding

IndInv == TypeOK /\ HolderIsSeen /\ MakersUnlinked /\ LeaseGood /\ PreyIsOld

(* A walk keeps the invariant. *)
LEMMA WalkStep ==
    ASSUME IndInv, NEW p \in Procs, Walk(p)
    PROVE  IndInv'
<1> USE DEF IndInv, Walk
<1>1. \A q \in Procs \ {p} : Pc(q)' = Pc(q) /\ proc'[q] = proc[q]
  BY DEF Pc
<1>2. Exists' = Exists
  BY DEF Exists
<1>3. TypeOK'
  BY <1>2, Types DEF TypeOK, States, Exists
<1>4. HolderIsSeen'
  BY <1>1, <1>2 DEF HolderIsSeen, Holding
<1>5. MakersUnlinked'
  BY <1>1 DEF MakersUnlinked
<1>6. LeaseGood'
  BY <1>1 DEF LeaseGood
<1>7. PreyIsOld'
  <2> SUFFICES ASSUME NEW r \in Procs, Pc(r)' = "unlink", r \in current',
                      NEW q \in Procs, q = proc'[r].prey
               PROVE  Pc(q)' \notin Making3 \cup Holding
    BY DEF PreyIsOld
  <2>1. r # p /\ r \in current /\ Pc(r) = "unlink" /\ q = proc[r].prey
    BY <1>1
  <2>2. Pc(q) \notin Making3 \cup Holding
    BY <2>1 DEF PreyIsOld
  <2> QED BY <1>1, <2>2
<1> QED BY <1>3, <1>4, <1>5, <1>6, <1>7

(* A new directory has no file and no earlier handle. *)
LEMMA MkdirStep ==
    ASSUME IndInv, NEW p \in Procs, Mkdir(p), ~Exists
    PROVE  IndInv'
<1>1. /\ maker' = p /\ age' = 0 /\ UNCHANGED <<linked, left, current, faults>>
      /\ Goto(p, "made")
  BY DEF Mkdir
<1>2. linked = {} /\ current = {}
  BY Types DEF IndInv
<1>3. proc' \in [Procs -> States] /\ Pc(p)' = "made" /\ \A q \in Procs \ {p} : proc'[q] = proc[q]
  BY <1>1, Types, GotoTyped DEF IndInv, Pcs
<1>4. \A q \in Procs \ {p} : Pc(q)' = Pc(q)
  BY <1>3 DEF Pc
<1>5. TypeOK'
  BY <1>1, <1>2, <1>3, Types, Durations, NoneAssumption DEF IndInv, TypeOK, States
<1>6. HolderIsSeen' /\ MakersUnlinked' /\ LeaseGood' /\ PreyIsOld'
  BY <1>1, <1>2, <1>3, <1>4
     DEF IndInv, HolderIsSeen, MakersUnlinked, LeaseGood, PreyIsOld, Holding, Exists
<1> QED BY <1>5, <1>6 DEF IndInv

(* A lease file is made in the directory its maker holds. *)
LEMMA CreateStep ==
    ASSUME IndInv, NEW p \in Procs, Create(p), p \in current
    PROVE  IndInv'
<1>1. /\ Pc(p) = "create"
      /\ linked' = linked \cup {p} /\ left' = [left EXCEPT ![p] = Unrecorded] /\ age' = 0
      /\ current' = current \ {p} /\ UNCHANGED <<maker, faults>>
      /\ Goto(p, "record")
  BY DEF Create
<1>2. Exists /\ Exists'
  BY <1>1, Types DEF IndInv, Exists
<1>3. proc' \in [Procs -> States] /\ Pc(p)' = "record" /\ \A q \in Procs \ {p} : proc'[q] = proc[q]
  BY <1>1, Types, GotoTyped DEF IndInv, Pcs
<1>4. \A q \in Procs \ {p} : Pc(q)' = Pc(q)
  BY <1>3 DEF Pc
<1>5. left' \in [Procs -> Lefts] /\ left'[p] >= 1
  BY <1>1, Types, PolicyAssumption, Durations DEF IndInv, Unrecorded
<1>6. TypeOK'
  BY <1>1, <1>2, <1>3, <1>5, Types, Durations DEF IndInv, TypeOK, States, Exists
<1>7. HolderIsSeen' /\ MakersUnlinked' /\ LeaseGood'
  BY <1>1, <1>2, <1>3, <1>4, <1>5, Types
     DEF IndInv, HolderIsSeen, MakersUnlinked, LeaseGood, Holding, Making3
<1>8. PreyIsOld'
  <2> SUFFICES ASSUME NEW r \in Procs, Pc(r)' = "unlink", r \in current',
                      NEW q \in Procs, q = proc'[r].prey
               PROVE  Pc(q)' \notin Making3 \cup Holding
    BY DEF PreyIsOld
  <2>1. r # p /\ r \in current /\ Pc(r) = "unlink" /\ q = proc[r].prey
    BY <1>1, <1>3, <1>4
  <2>2. Pc(q) \notin Making3 \cup Holding
    BY <2>1 DEF IndInv, PreyIsOld
  <2>3. q # p
    BY <1>1, <2>2 DEF Making3
  <2> QED BY <1>4, <2>2, <2>3
<1> QED BY <1>6, <1>7, <1>8 DEF IndInv

(* An inspection finds a file expired at the time it has read: so it is not *)
(* a holder's.                                                              *)
LEMMA HuntStep ==
    ASSUME IndInv, NEW p \in Procs, NEW q \in Procs, Inspect(p, q), Pc(p)' = "unlink"
    PROVE  IndInv'
<1>1. Pc(p) = "inspect" /\ UNCHANGED <<maker, age, linked, left, current, faults>>
  BY DEF Inspect, lock
<1>2. TypeOK /\ proc \in [Procs -> States] /\ proc[p] \in States /\ proc[p].pc = "inspect"
  BY <1>1, Types DEF Pc, IndInv
<1> DEFINE s == Hunts(proc[p], q)
<1>3. s \in States /\ s.pc = "unlink" /\ s.prey = q
  BY <1>2, InspectTyped
<1>4. proc' = [proc EXCEPT ![p] = s] /\ q \in linked /\ ~LeaseActive(p, q)
  <2> DEFINE s1 == Passes(proc[p], q)
             s2 == Finds(proc[p], q)
  <2>1. s1.pc = "inspect" /\ s2.pc = "inspect"
    BY <1>2, InspectTyped
  <2>2. proc' # [proc EXCEPT ![p] = s1] /\ proc' # [proc EXCEPT ![p] = s2]
    <3> HIDE DEF s1, s2
    <3> QED BY <1>2, <2>1 DEF Pc
  <2> QED BY <1>2, <2>2, InspectKinds
<1> HIDE DEF s
<1>5. /\ proc' \in [Procs -> States] /\ Pc(p)' = "unlink" /\ proc'[p].prey = q
      /\ \A r \in Procs \ {p} : proc'[r] = proc[r] /\ Pc(r)' = Pc(r)
  BY <1>2, <1>3, <1>4 DEF Pc
<1>6. TypeOK'
  BY <1>1, <1>2, <1>5, Types DEF TypeOK, States, Exists
<1>7. Pc(q) \notin Making3 \cup Holding
  <2>1. Pc(q) \notin Making3
    BY <1>4 DEF IndInv, MakersUnlinked
  <2>2. left[q] <= 0 /\ left[q] \in Int
    <3>1. left[q] \in Int
      BY <1>2, Types, Durations
    <3>2. proc[p].lag \in Nat
      BY <1>2, Durations DEF States
    <3> QED
      BY <1>4, <3>1, <3>2 DEF LeaseActive
  <2>3. Pc(q) \notin Holding
    BY <2>2 DEF IndInv, LeaseGood
  <2> QED BY <2>1, <2>3
<1>8. HolderIsSeen' /\ MakersUnlinked' /\ LeaseGood'
  BY <1>1, <1>5 DEF IndInv, HolderIsSeen, MakersUnlinked, LeaseGood, Making3, Holding, Exists
<1>9. PreyIsOld'
  BY <1>1, <1>5, <1>7 DEF IndInv, PreyIsOld, Making3, Holding
<1> QED BY <1>6, <1>8, <1>9 DEF IndInv

(* A process that has unlinked a file inspects the next.                    *)
LEMMA UnlinkTyped ==
    ASSUME NEW s \in States
    PROVE  LET r == [s EXCEPT !.pc = "inspect", !.prey = None]
           IN  r \in States /\ r.pc = "inspect"
BY DEF States, Pcs

(* An unlink takes only a file that was old, which no holder's is. *)
LEMMA UnlinkStep ==
    ASSUME IndInv, NEW p \in Procs, Unlink(p)
    PROVE  IndInv'
<1>1. Pc(p) = "unlink" /\ UNCHANGED <<maker, left, current, faults>>
  BY DEF Unlink
<1>2. TypeOK /\ proc \in [Procs -> States]
  BY Types DEF IndInv
<1>3. /\ proc' \in [Procs -> States] /\ Pc(p)' = "inspect"
      /\ \A r \in Procs \ {p} : proc'[r] = proc[r] /\ Pc(r)' = Pc(r)
  <2> DEFINE s == [proc[p] EXCEPT !.pc = "inspect", !.prey = None]
  <2>1. s \in States /\ s.pc = "inspect"
    BY <1>2, UnlinkTyped
  <2>2. proc' = [proc EXCEPT ![p] = s]
    BY DEF Unlink
  <2> HIDE DEF s
  <2> QED BY <1>2, <2>1, <2>2 DEF Pc
<1>4. linked' \in SUBSET linked /\ age' \in 0 .. Old
  BY <1>2, Types, Durations DEF Unlink
<1>5. TypeOK'
  BY <1>1, <1>2, <1>3, <1>4, Types DEF TypeOK, States, Exists
<1>6. ASSUME NEW q \in Procs, Pc(q) \in Holding, q \in linked
      PROVE  q \in linked'
  BY <1>1, <1>6 DEF Unlink, IndInv, PreyIsOld
<1>7. HolderIsSeen'
  BY <1>1, <1>3, <1>6 DEF IndInv, HolderIsSeen, Holding, Exists
<1>8. MakersUnlinked' /\ LeaseGood' /\ PreyIsOld'
  BY <1>1, <1>3, <1>4 DEF IndInv, MakersUnlinked, LeaseGood, PreyIsOld, Making3, Holding
<1> QED BY <1>5, <1>7, <1>8 DEF IndInv

(* An rmdir removes only a directory without files. *)
LEMMA RmdirStep ==
    ASSUME IndInv, NEW p \in Procs, Rmdir(p), Removable
    PROVE  IndInv'
<1>1. /\ maker' = None /\ age' = Old /\ current' = {} /\ linked = {}
      /\ UNCHANGED <<linked, left, faults>>
  BY DEF Rmdir, Removable
<1>2. PICK pc \in {"try", "idle"} : Goto(p, pc)
  BY FreeTaken DEF Rmdir
<1>3. /\ proc' \in [Procs -> States] /\ Pc(p)' \in {"try", "idle"}
      /\ \A r \in Procs \ {p} : proc'[r] = proc[r]
  BY <1>2, Types, GotoTyped DEF IndInv, Pcs
<1>4. \A r \in Procs \ {p} : Pc(r)' = Pc(r)
  BY <1>3 DEF Pc
<1>5. \A q \in Procs : Pc(q) \notin Holding
  BY <1>1 DEF IndInv, HolderIsSeen, Holding
<1>6. TypeOK'
  BY <1>1, <1>3, Types, Durations DEF IndInv, TypeOK, States
<1>7. HolderIsSeen' /\ MakersUnlinked' /\ LeaseGood' /\ PreyIsOld'
  BY <1>1, <1>3, <1>4, <1>5
     DEF IndInv, HolderIsSeen, MakersUnlinked, LeaseGood, PreyIsOld, Making3, Holding
<1> QED BY <1>6, <1>7 DEF IndInv

(* Time passes for nobody who would miss a heartbeat by it.                 *)
LEMMA TickStep ==
    ASSUME IndInv, Tick
    PROVE  IndInv'
<1>1. UNCHANGED <<maker, linked, current>>
  BY DEF Tick
<1>2. TypeOK /\ proc \in [Procs -> States] /\ left \in [Procs -> Lefts] /\ faults \in 0 .. MaxFaults
  BY Types DEF IndInv
<1>3. ASSUME NEW p \in Procs
      PROVE  /\ proc'[p] \in States /\ Pc(p)' = Pc(p) /\ proc'[p].prey = proc[p].prey
             /\ left'[p] \in Lefts
             /\ Pc(p) \in Holding => left'[p] >= 1
  <2>1. proc[p] \in States /\ proc[p].lag \in 0 .. MaxLag
    BY <1>2 DEF States
  <2> DEFINE n == IF Inspecting(p) THEN proc[p].lag + 1 ELSE proc[p].lag
  <2>2. proc'[p] = [proc[p] EXCEPT !.lag = n]
    BY DEF Tick
  <2>3. n \in 0 .. MaxLag
    BY <2>1, Durations DEF Tick, Timely
  <2>4. proc'[p] \in States /\ Pc(p)' = Pc(p) /\ proc'[p].prey = proc[p].prey
    <3> HIDE DEF n
    <3> QED BY <2>1, <2>2, <2>3 DEF States, Pc
  <2>5. left'[p] = Later(left[p]) /\ left[p] \in Lefts
    BY <1>2 DEF Tick
  <2>6. Pc(p) \in Holding => left[p] > 1
    BY DEF Tick, Timely, Holding
  <2> QED BY <2>4, <2>5, <2>6, Durations
<1>4. proc' \in [Procs -> States] /\ left' \in [Procs -> Lefts]
  <2>1. proc' = [p \in Procs |-> proc'[p]] /\ left' = [p \in Procs |-> left'[p]]
    BY DEF Tick
  <2> QED BY <1>3, <2>1
<1>5. faults' \in 0 .. MaxFaults /\ age' \in 0 .. Old
  BY <1>2, Types, Durations DEF Tick, Fault
<1>6. TypeOK'
  BY <1>1, <1>2, <1>4, <1>5, Types DEF TypeOK, States, Exists
<1>7. HolderIsSeen' /\ MakersUnlinked' /\ LeaseGood' /\ PreyIsOld'
  BY <1>1, <1>3
     DEF IndInv, HolderIsSeen, MakersUnlinked, LeaseGood, PreyIsOld, Making3, Holding, Exists
<1> QED BY <1>6, <1>7 DEF IndInv

(* Whatever a process that died before has left, nobody holds the lock.     *)
LEMMA InitInv == Init => IndInv
<1> SUFFICES ASSUME Init PROVE IndInv
  OBVIOUS
<1>1. \A p \in Procs : Pc(p) \in {"dead", "idle"}
  BY DEF Init, At, Pc
<1>2. proc \in [Procs -> States]
  <2>1. \A pc \in {"dead", "idle"} : At(pc) \in States
    BY Durations DEF At, States, Pcs
  <2> QED BY <2>1 DEF Init
<1>3. left \in [Procs -> Lefts] /\ age \in 0 .. Old
  BY Durations DEF Init
<1>4. TypeOK
  BY <1>2, <1>3, NoneAssumption, Durations DEF Init, TypeOK, States
<1>5. HolderIsSeen /\ MakersUnlinked /\ LeaseGood /\ PreyIsOld
  BY <1>1 DEF HolderIsSeen, MakersUnlinked, LeaseGood, PreyIsOld, Making3, Holding
<1> QED BY <1>4, <1>5 DEF IndInv

(* Every call, death, pause and tick keeps the invariant. *)
LEMMA NextInv == IndInv /\ [Next]_vars => IndInv'
<1> SUFFICES ASSUME IndInv, [Next]_vars PROVE IndInv'
  OBVIOUS
<1>1. ASSUME NEW p \in Procs, Enter(p) \/ Step(p) \/ Heartbeat(p) \/ Crash(p)
      PROVE  IndInv'
  <2>1. TypeOK
    BY DEF IndInv
  <2> QED
    BY <1>1, <2>1, StepKinds, WalkStep, MkdirStep, CreateStep, HuntStep, UnlinkStep, RmdirStep
<1>2. CASE UNCHANGED vars
  BY <1>2 DEF vars, IndInv, TypeOK, HolderIsSeen, MakersUnlinked, LeaseGood, PreyIsOld, Pc, Exists
<1> QED BY <1>1, <1>2, TickStep DEF Next

(* The inductive invariant holds in every state.                            *)
THEOREM Invariance == Spec => []IndInv
BY InitInv, NextInv, PTL DEF Spec

(* Directory, lease files and processes keep their types; without a         *)
(* directory there is no lease file and no handle on it.                    *)
THEOREM TypeCorrect == Spec => []TypeOK
<1>1. IndInv => TypeOK
  BY DEF IndInv
<1> QED BY <1>1, Invariance, PTL

(* The directory and the lease file of whoever holds the lock are in place: *)
(* no inspection unlinks the file from an old listing or clock reading, and *)
(* no rmdir takes the directory. (cacheLockIsActive, removeStale)           *)
THEOREM HoldersAreSeen == Spec => []HolderIsSeen
<1>1. IndInv => HolderIsSeen
  BY DEF IndInv
<1> QED BY <1>1, Invariance, PTL
=============================================================================
