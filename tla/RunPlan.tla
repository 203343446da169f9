------------------------------- MODULE RunPlan -------------------------------
(***************************************************************************)
(* The executor of run plans (packages/runtime-core/src/run-plan.ts): the  *)
(* workers of a plan depend on one another and at most `concurrency` of    *)
(* them run at a time.  Everything happens in one JavaScript thread: the   *)
(* callback of a settled worker records its result and calls pump(), which *)
(* goes over the workers in order and starts what it can, all in one step. *)
(***************************************************************************)
EXTENDS Integers, FiniteSets

CONSTANTS N,    \* number of workers in the plan
          None  \* no result yet

Items == 1 .. N
Failures == {"failed", "cancelled", "timed_out"}
Results == {"succeeded", "skipped"} \cup Failures

ASSUME NAssumption == N \in Nat \ {0}
ASSUME NoneAssumption == None \notin Results

VARIABLES
    dependsOn,    \* the dependencies of each worker, fixed by the plan
    concurrency,  \* the effective concurrency of the plan
    results,      \* the result of each worker
    running,      \* the workers that were started or are being skipped
    active,       \* how many that are
    thrown,       \* the running workers whose operation or hook has thrown
    ended         \* what became of the plan's promise

plan == <<dependsOn, concurrency>>
vars == <<dependsOn, concurrency, results, running, active, thrown, ended>>

TypeOK ==
    /\ dependsOn \in [Items -> SUBSET Items]
    /\ concurrency \in Items
    /\ results \in [Items -> Results \cup {None}]
    /\ running \subseteq Items
    /\ active \in 0 .. N
    /\ thrown \subseteq running
    /\ ended \in {"new", "open", "resolved", "rejected", "unschedulable"}

----------------------------------------------------------------------------
(* validateRunPlanDependencies. *)

(* A set of workers that holds the dependencies of its members. *)
Closed(deps, S) == \A j \in S : deps[j] \subseteq S

(* The workers that worker i waits for, directly or through others: what    *)
(* a visit of i reaches is in every closed set that holds its dependencies. *)
Ancestors(deps, i) ==
    {a \in Items : \A S \in SUBSET Items : deps[i] \subseteq S /\ Closed(deps, S) => a \in S}

(* Seeded defect: only a worker that depends on itself is refused.          *)
AcceptsIrreflexive(deps) == \A i \in Items : i \notin deps[i]

(* No worker depends on itself, also not through others. *)
Accepts(deps) == \A i \in Items : i \notin Ancestors(deps, i)

----------------------------------------------------------------------------
(* pump. *)

(* Seeded defect: a worker that runs is looked at like any other.           *)
ReadyRunning(res, run) ==
    {i \in Items : res[i] = None /\ \A d \in dependsOn[i] : res[d] # None}

(* The workers that could start: their dependencies have all ended. *)
Ready(res, run) ==
    {i \in Items \ run : res[i] = None /\ \A d \in dependsOn[i] : res[d] # None}

(* Seeded defect: only a failed dependency keeps a worker from starting.    *)
SkipsFailed(res, i) == \E d \in dependsOn[i] : res[d] = "failed"

(* A worker with a dependency that did not succeed is skipped. *)
Skips(res, i) == \E d \in dependsOn[i] : res[d] # "succeeded"

(* Seeded defect: one more than the concurrency.                            *)
RoomAndOne(n) == n <= concurrency

Room(n) == n < concurrency

(* What one pass over the workers starts.  A skip needs no room but counts  *)
(* as active, so a worker finds as many more active as there are ready      *)
(* workers before it: if one of them found no room, it finds none either.   *)
Starts(res, run, n) ==
    {i \in Ready(res, run) :
        Skips(res, i) \/ Room(n + Cardinality({j \in Ready(res, run) : j < i}))}

(* Pumps with these results, running workers and active count.  The plan    *)
(* ends when every worker has its result, or when nothing runs and nothing  *)
(* can be started; its promise is settled once.                             *)
Pump(res, run, n) ==
    LET started == Starts(res, run, n)
        now == n + Cardinality(started)
        done == \A i \in Items : res[i] # None
    IN  /\ results' = res
        /\ running' = run \cup started
        /\ active' = now
        /\ ended' = IF ended \notin {"new", "open"} THEN ended
                    ELSE IF now > 0 THEN "open"
                    ELSE IF done THEN "resolved" ELSE "unschedulable"
        /\ UNCHANGED <<plan, thrown>>

----------------------------------------------------------------------------
(* executeRunPlan and runDependencyAwareConcurrent. *)

(* A plan that was accepted. *)
Init ==
    /\ dependsOn \in {deps \in [Items -> SUBSET Items] : Accepts(deps)}
    /\ concurrency \in Items
    /\ results = [i \in Items |-> None]
    /\ running = {} /\ active = 0 /\ thrown = {}
    /\ ended = "new"

Begin == ended = "new" /\ Pump(results, running, active)

(* Seeded defect: a settled worker keeps its place.                         *)
LeftKept(n) == n

Left(n) == n - 1

Settled(i, result) ==
    Pump([results EXCEPT ![i] = result], running \ {i}, Left(active))

(* A worker answers, is found cancelled or past its deadline before it      *)
(* starts, or exceeds its time: the executor then goes on without it.       *)
Settle(i) ==
    /\ i \in running \ thrown /\ ~Skips(results, i)
    /\ \E result \in {"succeeded"} \cup Failures : Settled(i, result)

Skip(i) ==
    /\ i \in running \ thrown /\ Skips(results, i)
    /\ Settled(i, "skipped")

(* The adapter or one of the hooks throws: the plan is rejected, but the    *)
(* workers that run go on, pump, and start others.                          *)
Throw(i) ==
    /\ i \in running \ thrown
    /\ thrown' = thrown \cup {i}
    /\ ended' = IF ended = "open" THEN "rejected" ELSE ended
    /\ UNCHANGED <<plan, results, running, active>>

Next ==
    \/ Begin
    \/ \E i \in Items : Settle(i) \/ Skip(i) \/ Throw(i)

(* A worker that runs settles in the end, by its answer or its timeout. *)
Fairness == WF_vars(Begin) /\ \A i \in Items : WF_vars(Settle(i) \/ Skip(i) \/ Throw(i))

Spec == Init /\ [][Next]_vars /\ Fairness

----------------------------------------------------------------------------
(* Properties. *)

(* Workers that run for real, with a place of their own.                    *)
Working == {i \in running : ~Skips(results, i)}

(* No more than `concurrency` workers run at a time, however skips, whose   *)
(* places are not limited, come between, and no place is taken twice.       *)
SlotsBound == active = Cardinality(running) /\ Cardinality(Working) <= concurrency

(* A worker only ever runs, or has run, on dependencies that all succeeded: *)
(* what is skipped is exactly what depends, directly or through others, on  *)
(* a worker that failed, was cancelled or timed out, whatever the order in  *)
(* which results came in.                                                   *)
SkipsHaveCause ==
    \A i \in Items :
        /\ results[i] = "skipped" <=>
              results[i] # None /\ \E a \in Ancestors(dependsOn, i) : results[a] \in Failures
        /\ i \in Working \/ results[i] \in {"succeeded"} \cup Failures =>
              \A a \in Ancestors(dependsOn, i) : results[a] = "succeeded"

(* An accepted plan can always be scheduled, and when its promise resolves  *)
(* every worker has a result and nothing runs any more.                     *)
OutcomeComplete ==
    /\ ended # "unschedulable"
    /\ ended = "resolved" => running = {} /\ \A i \in Items : results[i] # None

(* Every plan ends: a worker that fails, times out or is skipped gives its  *)
(* place and its dependents free.                                           *)
PlanEnds == <>(ended \notin {"new", "open"})
=============================================================================
