--------------------------- MODULE ArchiveCacheLock ---------------------------
(***************************************************************************)
(* The lock of the Playground archive cache                                *)
(* (packages/runtime-playground/src/playground-wordpress-archive-cache.ts):*)
(* a directory whose creation is the lock and which holds the lease file   *)
(* of its owner.  Every process removes what it finds abandoned, by looks  *)
(* and removals that are separate system calls.  Starting processes and    *)
(* mount preparations wait for the lock; maintenance tries once.           *)
(*                                                                         *)
(* Access is descriptor-relative, as on Linux: a handle on a directory     *)
(* that was removed finds nothing and creates nothing.  So all lease files *)
(* lie in the directory that is at the path now, one for each process.     *)
(***************************************************************************)
EXTENDS Integers, FiniteSets

CONSTANTS Procs,        \* processes that use the lock
          Gone,         \* those of them that died before
          None,         \* no process
          EmptyGrace,   \* how long an empty directory is active: EMPTY_LOCK_GRACE_MS
          LeaseMs,      \* how long a lease lasts without a heartbeat
          StaleMs,      \* staleLockMs, for a lease file without an owner record
          MaxLag,       \* bound on the time one inspection takes
          MaxFaults     \* bound on deaths and long pauses of processes

ASSUME NoneAssumption == None \notin Procs /\ Gone \subseteq Procs
ASSUME PolicyAssumption ==
    /\ {EmptyGrace, LeaseMs, StaleMs, MaxLag, MaxFaults} \subseteq Nat
    /\ LeaseMs > 0 /\ EmptyGrace <= StaleMs

VARIABLES
    maker,    \* the process that made the directory at lockPath, or None: no directory
    age,      \* the time since the directory's mtime
    linked,   \* the processes whose lease file is in that directory
    left,     \* the time until their lease files expire
    current,  \* the processes whose stat or handle is of the directory at lockPath
    proc,     \* what each process is doing
    faults    \* the faults so far

vars == <<maker, age, linked, left, current, proc, faults>>
lock == <<maker, age, linked, left, current, faults>>

(* Seeded defect: a file without a record counts as expired.                *)
UnrecordedExpired == 0

(* A lease file without an owner record is active for staleLockMs from its  *)
(* mtime on, one with a record until its expiresAt; a released one has      *)
(* expired long ago.  Times are relative to the present, so a run may go on *)
(* for ever; what lies further back than MaxLag makes no difference.        *)
Unrecorded == StaleMs + 1
Expired == -MaxLag
Lefts == Expired .. (IF LeaseMs > Unrecorded THEN LeaseMs ELSE Unrecorded)
Later(n) == IF n = Expired THEN n ELSE n - 1
Old == EmptyGrace + 1
Older(n) == IF n = Old THEN n ELSE n + 1

(* Where a process stands (pc), whether it waits for the lock, and of its   *)
(* cacheLockIsActive: the time since it took its now, whether the           *)
(* directory's mtime was recent then, the lease files it has still to       *)
(* inspect, the one it will unlink, and whether the lock is active so far.  *)
Pcs == {"idle", "try", "made", "open", "create", "record", "held", "look", "lookStat",
        "lookOpen", "list", "inspect", "unlink", "check", "rmdir", "wait", "dead"}
At(pc) == [pc |-> pc, waits |-> FALSE, lag |-> 0, recent |-> FALSE, todo |-> {},
           prey |-> None, active |-> FALSE]

TypeOK ==
    /\ maker \in Procs \cup {None}
    /\ age \in 0 .. Old
    /\ linked \subseteq Procs /\ current \subseteq Procs
    /\ (maker = None => linked = {} /\ current = {})
    /\ left \in [Procs -> Lefts]
    /\ faults \in 0 .. MaxFaults
    /\ proc \in [Procs -> [pc : Pcs, waits : BOOLEAN, lag : 0 .. MaxLag, recent : BOOLEAN,
                           todo : SUBSET Procs, prey : Procs \cup {None}, active : BOOLEAN]]

(* The directory is not there, or as a process that died has left it. *)
Init ==
    /\ proc = [p \in Procs |-> At(IF p \in Gone THEN "dead" ELSE "idle")]
    /\ current = {} /\ faults = 0
    /\ \/ maker = None /\ linked = {} /\ age = Old /\ left = [p \in Procs |-> Expired]
       \/ \E g \in Gone : /\ maker = g /\ linked \in SUBSET {g}
                          /\ age \in 0 .. Old
                          /\ \E n \in Lefts : left = [p \in Procs |-> IF p \in linked THEN n ELSE Expired]

Pc(p) == proc[p].pc
Exists == maker # None
Goto(p, pc) == proc' = [proc EXCEPT ![p] = [At(pc) EXCEPT !.waits = (pc # "idle" /\ proc[p].waits)]]

(* No lock this time: a waiter looks whether it is abandoned, maintenance   *)
(* goes on to its next candidate.                                           *)
Missed(p) == IF proc[p].waits THEN "look" ELSE "idle"

----------------------------------------------------------------------------
(* tryAcquireCacheLock. *)

(* A waiter tries first; maintenance scans the lock before it tries. *)
Enter(p) ==
    /\ Pc(p) = "idle"
    /\ \E waits \in BOOLEAN :
         proc' = [proc EXCEPT ![p] = [At(IF waits THEN "try" ELSE "look") EXCEPT !.waits = waits]]
    /\ UNCHANGED lock

Mkdir(p) ==
    /\ Pc(p) = "try"
    /\ IF Exists
       THEN Goto(p, Missed(p)) /\ UNCHANGED lock
       ELSE /\ maker' = p /\ age' = 0
            /\ Goto(p, "made")
            /\ UNCHANGED <<linked, left, current, faults>>

(* openSafeLeaseDirectory: lstat of the path, which may by now name a       *)
(* directory another process made, or nothing ...                           *)
Stat(p) ==
    /\ Pc(p) = "made"
    /\ IF Exists
       THEN current' = current \cup {p} /\ Goto(p, "open")
       ELSE Goto(p, Missed(p)) /\ UNCHANGED current
    /\ UNCHANGED <<maker, age, linked, left, faults>>

(* ... then open, whose handle must be of the directory the stat saw.  A    *)
(* directory that was exchanged in between is an error to the caller.       *)
Open(p) ==
    /\ Pc(p) = "open"
    /\ Goto(p, CASE p \in current -> "create"
                 [] ~Exists -> Missed(p)
                 [] OTHER -> "idle")
    /\ UNCHANGED lock

(* createFileLease: the file, still without a record ... *)
Create(p) ==
    /\ Pc(p) = "create"
    /\ IF p \in current
       THEN /\ linked' = linked \cup {p}
            /\ left' = [left EXCEPT ![p] = Unrecorded]
            /\ age' = 0
            /\ Goto(p, "record")
       ELSE Goto(p, Missed(p)) /\ UNCHANGED <<linked, left, age>>
    /\ current' = current \ {p}
    /\ UNCHANGED <<maker, faults>>

(* ... and then writeOwnerToHandle: the lock is acquired. *)
Acquire(p) ==
    /\ Pc(p) = "record"
    /\ left' = [left EXCEPT ![p] = LeaseMs]
    /\ Goto(p, "held")
    /\ UNCHANGED <<maker, age, linked, current, faults>>

(* refreshLease, from the heartbeat. *)
Heartbeat(p) ==
    /\ Pc(p) = "held" /\ left[p] # LeaseMs
    /\ left' = [left EXCEPT ![p] = LeaseMs]
    /\ UNCHANGED <<maker, age, linked, current, proc, faults>>

(* The lease is released by expiring it; file and directory stay. *)
Release(p) ==
    /\ Pc(p) = "held"
    /\ left' = [left EXCEPT ![p] = Expired]
    /\ Goto(p, "idle")
    /\ UNCHANGED <<maker, age, linked, current, faults>>

----------------------------------------------------------------------------
(* cacheLockIsActive, with removeStale. *)

(* What becomes of a process that found the lock inactive, or active.       *)
(* Maintenance tries only for an archive it wants to remove.                *)
Free(p) == Goto(p, "try") \/ (~proc[p].waits /\ Goto(p, "idle"))
Taken(p) == Goto(p, IF proc[p].waits THEN "wait" ELSE "idle")

(* Seeded defect: however old, an empty directory counts as active.         *)
RecentAlways == TRUE

(* The directory's mtime is recent. *)
Recent == age <= EmptyGrace

(* The first lstat is kept for its mtime only: another directory may be at  *)
(* the path ...                                                             *)
Look(p) ==
    /\ Pc(p) = "look"
    /\ IF Exists THEN proc' = [proc EXCEPT ![p].pc = "lookStat", ![p].recent = Recent]
       ELSE Free(p)
    /\ UNCHANGED lock

(* ... when openSafeLeaseDirectory stats it a second time ...               *)
LookStat(p) ==
    /\ Pc(p) = "lookStat"
    /\ IF Exists
       THEN current' = current \cup {p} /\ proc' = [proc EXCEPT ![p].pc = "lookOpen"]
       ELSE Free(p) /\ UNCHANGED current
    /\ UNCHANGED <<maker, age, linked, left, faults>>

(* ... and opens it: one exchanged since then counts as active.             *)
LookOpen(p) ==
    /\ Pc(p) = "lookOpen"
    /\ \/ p \in current /\ proc' = [proc EXCEPT ![p].pc = "list"]
       \/ ~Exists /\ Free(p)
       \/ Exists /\ p \notin current /\ Taken(p)
    /\ UNCHANGED lock

(* An empty directory whose mtime is recent counts as active: its maker may *)
(* be about to create its lease file.                                       *)
List(p) ==
    /\ Pc(p) = "list"
    /\ IF p \in current
       THEN proc' = [proc EXCEPT ![p].pc = "inspect", ![p].todo = linked,
                                 ![p].recent = FALSE,
                                 ![p].active = (linked = {} /\ proc[p].recent)]
       ELSE Free(p)
    /\ UNCHANGED lock

(* Whether it has expired is judged by the now of the inspection. *)
LeaseActive(p, q) == left[q] + proc[p].lag > 0

(* inspectLeaseFile: a file that is gone is passed over; an expired one is  *)
(* unlinked in a step of its own.                                           *)
Inspect(p, q) ==
    /\ Pc(p) = "inspect" /\ q \in proc[p].todo
    /\ LET there == p \in current /\ q \in linked IN
       \/ ~there /\ proc' = [proc EXCEPT ![p].todo = @ \ {q}]
       \/ /\ there /\ LeaseActive(p, q)
          /\ proc' = [proc EXCEPT ![p].todo = @ \ {q}, ![p].active = TRUE]
       \/ /\ there /\ ~LeaseActive(p, q)
          /\ proc' = [proc EXCEPT ![p].todo = @ \ {q}, ![p].prey = q, ![p].pc = "unlink"]
    /\ UNCHANGED lock

Unlink(p) ==
    /\ Pc(p) = "unlink"
    /\ IF p \in current /\ proc[p].prey \in linked
       THEN linked' = linked \ {proc[p].prey} /\ age' = 0
       ELSE UNCHANGED <<linked, age>>
    /\ proc' = [proc EXCEPT ![p].pc = "inspect", ![p].prey = None]
    /\ UNCHANGED <<maker, left, current, faults>>

Inspected(p) ==
    /\ Pc(p) = "inspect" /\ proc[p].todo = {}
    /\ IF proc[p].active
       THEN Taken(p) /\ current' = current \ {p}
       ELSE Goto(p, "check") /\ UNCHANGED current
    /\ UNCHANGED <<maker, age, linked, left, faults>>

(* removeLeaseDirectoryIfCurrent: the handle's directory is still the one   *)
(* at the path ...                                                          *)
Check(p) ==
    /\ Pc(p) = "check"
    /\ IF p \in current THEN Goto(p, "rmdir") ELSE Free(p)
    /\ UNCHANGED lock

(* Seeded defect: the directory goes with what is in it.                    *)
RemovableFull == Exists

(* ... then rmdir of the path, whatever directory it names by then.         *)
Removable == Exists /\ linked = {}

Rmdir(p) ==
    /\ Pc(p) = "rmdir"
    /\ Free(p)
    /\ IF Removable
       THEN maker' = None /\ age' = Old /\ current' = {}
       ELSE current' = current \ {p} /\ UNCHANGED <<maker, age>>
    /\ UNCHANGED <<linked, left, faults>>

(* Active: it tries again, or its time is over: when is left open. *)
Wait(p) ==
    /\ Pc(p) = "wait"
    /\ Goto(p, "try") \/ Goto(p, "idle")
    /\ UNCHANGED lock

----------------------------------------------------------------------------
(* The environment. *)

Fault == faults < MaxFaults /\ faults' = faults + 1

(* A process dies; what it made stays. *)
Crash(p) ==
    /\ Pc(p) \notin {"idle", "dead"}
    /\ Fault
    /\ Goto(p, "dead")
    /\ current' = current \ {p}
    /\ UNCHANGED <<maker, age, linked, left>>

(* A process that lives heartbeats every third of its lease, and writes its *)
(* record right after it creates the file; an inspection ends within        *)
(* MaxLag.  One that makes the directory goes on to its lease file at once, *)
(* and to pause there is a fault.  Between any other two calls it may take  *)
(* any time.                                                                *)
Making(p) == Pc(p) \in {"made", "open", "create"}
Inspecting(p) == Pc(p) \in {"lookStat", "lookOpen", "list", "inspect", "unlink"}
Timely ==
    \A p \in Procs : /\ Pc(p) \in {"record", "held"} => left[p] > 1
                     /\ Inspecting(p) => proc[p].lag < MaxLag

Tick ==
    /\ Timely
    /\ IF \E p \in Procs : Making(p) THEN Fault ELSE UNCHANGED faults
    /\ age' = Older(age)
    /\ left' = [p \in Procs |-> Later(left[p])]
    /\ proc' = [p \in Procs |-> [proc[p] EXCEPT !.lag = IF Inspecting(p) THEN @ + 1 ELSE @]]
    /\ UNCHANGED <<maker, linked, current>>

Step(p) ==
    \/ Mkdir(p) \/ Stat(p) \/ Open(p) \/ Create(p) \/ Acquire(p) \/ Release(p)
    \/ Look(p) \/ LookStat(p) \/ LookOpen(p) \/ List(p) \/ \E q \in Procs : Inspect(p, q)
    \/ Unlink(p) \/ Inspected(p) \/ Check(p) \/ Rmdir(p) \/ Wait(p)

Next ==
    \/ \E p \in Procs : Enter(p) \/ Step(p) \/ Heartbeat(p) \/ Crash(p)
    \/ Tick

(* A process that lives goes on and ends its callback; time passes. *)
Fairness == WF_vars(Tick) /\ \A p \in Procs : WF_vars(Step(p))

Spec == Init /\ [][Next]_vars /\ Fairness

----------------------------------------------------------------------------
(* Properties. *)

(* withPlaygroundArchiveCacheLock: two callbacks never run at once.  (The   *)
(* code breaks this: see the README.)                                       *)
Exclusive == \A p, q \in Procs : Pc(p) = "held" /\ Pc(q) = "held" => p = q

(* The lease file of a process that holds the lock, or is about to, is in   *)
(* the directory at the path: no inspection unlinks it from a clock reading *)
(* or a listing that is old, and no rmdir decided on earlier takes its      *)
(* directory away, so nobody else can make the directory meanwhile.         *)
HolderIsSeen == \A p \in Procs : Pc(p) \in {"record", "held"} => Exists /\ p \in linked

Waiting(p) == Pc(p) \notin {"idle", "held", "dead"}

(* A process that wants the lock gets it or its verdict, or another one     *)
(* holds it: whatever a dead process left behind, a bare directory, a lease *)
(* file without a record, or a lease, does not block the lock for good.     *)
LockRecovers ==
    \A p \in Procs : Waiting(p) ~> ~Waiting(p) \/ \E q \in Procs \ {p} : Pc(q) = "held"
=============================================================================
