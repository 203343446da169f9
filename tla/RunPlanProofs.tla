---------------------------- MODULE RunPlanProofs ----------------------------
(***************************************************************************)
(* Proofs about RunPlan: whatever the number of workers, the plan and its  *)
(* concurrency, no more workers run at a time than the plan allows, no     *)
(* place is lost or given twice, what is skipped has a failed worker among *)
(* its ancestors, and an accepted plan never gets stuck.                   *)
(***************************************************************************)
EXTENDS RunPlan, FiniteSetTheorems, WellFoundedInduction, TLAPS

(* A worker that runs has no result yet, and all its dependencies have one: *)
(* so whether it is a skip does not change while it runs.                   *)
Open(res, run) ==
    \A i \in run : res[i] = None /\ \A d \in dependsOn[i] : res[d] # None

Busy(res, run) == {i \in run : ~Skips(res, i)}

(* A worker has its result only after its dependencies, as a skip exactly   *)
(* when one of them did not succeed, and a skip has a failed ancestor.      *)
Coherent(res) ==
    \A i \in Items : res[i] # None =>
        /\ \A d \in dependsOn[i] : res[d] # None
        /\ res[i] = "skipped" <=> Skips(res, i)
        /\ res[i] = "skipped" => \E a \in Ancestors(dependsOn, i) : res[a] \in Failures

(* The inductive invariant: with it, `active` is the number of running      *)
(* workers before and after every pump, results agree with those of their   *)
(* dependencies, and a plan that was accepted stays acyclic and schedulable. *)
IndInv ==
    /\ TypeOK
    /\ active = Cardinality(running)
    /\ Open(results, running)
    /\ Cardinality(Busy(results, running)) <= concurrency
    /\ Accepts(dependsOn)
    /\ Coherent(results)
    /\ OutcomeComplete

----------------------------------------------------------------------------
(* The workers of a plan are N, and of any part of them there are at most  *)
(* as many (the bound of the active counter of the executor).               *)

LEMMA ItemsFinite ==
    /\ IsFiniteSet(Items) /\ Cardinality(Items) = N
    /\ \A S \in SUBSET Items : /\ IsFiniteSet(S) /\ Cardinality(S) \in Nat
                               /\ Cardinality(S) <= N
<1>1. IsFiniteSet(Items) /\ Cardinality(Items) = N
  BY FS_Interval, NAssumption DEF Items
<1>2. ASSUME NEW S \in SUBSET Items
      PROVE  IsFiniteSet(S) /\ Cardinality(S) \in Nat /\ Cardinality(S) <= N
  BY <1>1, FS_Subset, FS_CardinalityType
<1> QED BY <1>1, <1>2

(* A nonempty set of workers has a last one. *)
LEMMA LastItem ==
    ASSUME NEW S \in SUBSET Items, S # {}
    PROVE  \E m \in S : \A i \in S : i <= m
<1> DEFINE T == {n \in Nat : \A i \in S : i <= n}
<1>1. N \in T
  BY NAssumption DEF Items
<1>2. PICK m \in T : \A n \in T : <<n, m>> \notin OpToRel(<, Nat)
  BY <1>1, WFMin, NatLessThanWellFounded, Zenon
<1>3. \A n \in T : m <= n
  <2>1. ASSUME NEW n \in T, n < m  PROVE FALSE
    <3>1. <<n, m>> \in OpToRel(<, Nat)
      BY <2>1 DEF OpToRel
    <3> QED BY <3>1, <1>2
  <2> QED BY <2>1
<1>4. m \in S
  <2>1. ASSUME m \notin S PROVE FALSE
    <3>1. m \in Nat /\ \A i \in S : i <= m
      OBVIOUS
    <3>2. \A i \in S : i \in Nat \ {0}
      BY NAssumption DEF Items
    <3>3. PICK x \in S : TRUE
      OBVIOUS
    <3>4. m - 1 \in Nat
      BY <3>1, <3>2, <3>3
    <3>5. ASSUME NEW i \in S PROVE i <= m - 1
      BY <3>1, <3>2, <2>1
    <3>6. m - 1 \in T
      BY <3>4, <3>5
    <3> QED BY <3>1, <3>6, <1>3
  <2> QED BY <2>1
<1> QED BY <1>2, <1>4

(* and a first one. *)
LEMMA FirstItem ==
    ASSUME NEW S \in SUBSET Items, S # {}
    PROVE  \E m \in S : \A i \in S : m <= i
<1>1. S \in SUBSET Nat
  BY NAssumption DEF Items
<1>2. PICK m \in S : \A n \in S : <<n, m>> \notin OpToRel(<, Nat)
  BY <1>1, WFMin, NatLessThanWellFounded, Zenon
<1>3. \A i \in S : m <= i
  <2>1. ASSUME NEW i \in S, i < m  PROVE FALSE
    <3>1. <<i, m>> \in OpToRel(<, Nat)
      BY <1>1, <2>1 DEF OpToRel
    <3> QED BY <3>1, <1>2
  <2> QED BY <1>1, <2>1
<1> QED BY <1>3

(* What a visit of a worker reaches holds its dependencies and theirs. *)
LEMMA AncestorsClosed ==
    ASSUME NEW deps \in [Items -> SUBSET Items], NEW i \in Items
    PROVE  /\ Ancestors(deps, i) \in SUBSET Items
           /\ deps[i] \subseteq Ancestors(deps, i)
           /\ Closed(deps, Ancestors(deps, i))
<1>1. Ancestors(deps, i) \in SUBSET Items /\ deps[i] \subseteq Ancestors(deps, i)
  BY DEF Ancestors
<1>2. ASSUME NEW j \in Ancestors(deps, i), NEW d \in deps[j]
      PROVE  d \in Ancestors(deps, i)
  <2>1. j \in Items /\ d \in Items
    BY <1>1
  <2>2. ASSUME NEW S \in SUBSET Items, deps[i] \subseteq S, Closed(deps, S)
        PROVE  d \in S
    <3>1. j \in S
      BY <2>2 DEF Ancestors
    <3> QED BY <3>1, <2>2 DEF Closed
  <2> QED BY <2>1, <2>2 DEF Ancestors
<1> QED BY <1>1, <1>2 DEF Closed

(* and nothing but what every closed set with its dependencies holds. *)
LEMMA AncestorsWithin ==
    ASSUME NEW deps \in [Items -> SUBSET Items], NEW i \in Items,
           NEW S \in SUBSET Items, deps[i] \subseteq S, Closed(deps, S)
    PROVE  Ancestors(deps, i) \subseteq S
BY DEF Ancestors

(* The ancestors of an ancestor are ancestors. *)
LEMMA AncestorsTransitive ==
    ASSUME NEW deps \in [Items -> SUBSET Items], NEW i \in Items, NEW a \in Ancestors(deps, i)
    PROVE  Ancestors(deps, a) \subseteq Ancestors(deps, i)
<1>1. /\ a \in Items /\ Ancestors(deps, i) \in SUBSET Items
      /\ deps[a] \subseteq Ancestors(deps, i) /\ Closed(deps, Ancestors(deps, i))
  BY AncestorsClosed DEF Closed
<1> HIDE DEF Ancestors
<1> QED BY <1>1, AncestorsWithin

(* In an accepted plan some worker of any nonempty set depends on none of    *)
(* the set: one with the fewest ancestors.                                  *)
LEMMA SomeoneIsFirst ==
    ASSUME NEW deps \in [Items -> SUBSET Items], Accepts(deps), NEW U \in SUBSET Items, U # {}
    PROVE  \E i \in U : \A d \in deps[i] : d \notin U
<1> DEFINE Size(i) == Cardinality(Ancestors(deps, i))
           T == {n \in Nat : \E i \in U : n = Size(i)}
<1>1. \A i \in Items : IsFiniteSet(Ancestors(deps, i)) /\ Size(i) \in Nat
  BY AncestorsClosed, ItemsFinite
<1>2. T \in SUBSET Nat /\ T # {}
  BY <1>1
<1>3. PICK m \in T : \A n \in T : <<n, m>> \notin OpToRel(<, Nat)
  BY <1>2, WFMin, NatLessThanWellFounded, Zenon
<1>4. PICK i \in U : m = Size(i)
  BY <1>3
<1>5. ASSUME NEW d \in deps[i], d \in U
      PROVE  FALSE
  <2>1. /\ i \in Items /\ d \in Items /\ d \in Ancestors(deps, i)
    BY <1>5, AncestorsClosed
  <2>2. Ancestors(deps, d) \in SUBSET Ancestors(deps, i)
    BY <2>1, AncestorsTransitive
  <2>3. d \notin Ancestors(deps, d)
    BY <2>1 DEF Accepts
  <2>4. Size(d) <= Size(i) /\ Size(d) # Size(i)
    <3>1. /\ Size(d) <= Size(i)
          /\ Size(i) = Size(d) => Ancestors(deps, i) = Ancestors(deps, d)
      BY <2>1, <2>2, <1>1, FS_Subset
    <3> QED BY <3>1, <2>1, <2>3
  <2>5. Size(d) \in T /\ Size(d) \in Nat /\ Size(i) \in Nat /\ Size(d) < m
    BY <2>1, <2>4, <1>1, <1>4, <1>5
  <2>6. <<Size(d), m>> \in OpToRel(<, Nat)
    BY <2>5, <1>4 DEF OpToRel
  <2> QED BY <2>5, <2>6, <1>3
<1> QED BY <1>5

(* What one pass of pump() starts leaves the count right and the number of  *)
(* workers that run for real within the concurrency.                        *)
LEMMA PumpBound ==
    ASSUME TypeOK, NEW res \in [Items -> Results \cup {None}], NEW run \in SUBSET Items,
           Open(res, run), Cardinality(Busy(res, run)) <= concurrency
    PROVE  LET S == Starts(res, run, Cardinality(run)) IN
           /\ S \subseteq Items
           /\ Cardinality(run) + Cardinality(S) = Cardinality(run \cup S)
           /\ Cardinality(run) + Cardinality(S) \in 0 .. N
           /\ Open(res, run \cup S)
           /\ Cardinality(Busy(res, run \cup S)) <= concurrency
<1> DEFINE S == Starts(res, run, Cardinality(run))
           R == Ready(res, run)
           Before(i) == {j \in R : j < i}
           W == {i \in S : ~Skips(res, i)}
<1>1. S \subseteq R /\ R \subseteq Items \ run
  BY DEF Starts, Ready
<1>2. /\ IsFiniteSet(run) /\ IsFiniteSet(S) /\ IsFiniteSet(R) /\ IsFiniteSet(W)
      /\ Cardinality(run) \in Nat /\ Cardinality(S) \in Nat /\ Cardinality(R) \in Nat
  BY <1>1, ItemsFinite
<1>3. Cardinality(run) + Cardinality(S) = Cardinality(run \cup S)
  <2>1. run \cap S = {}
    BY <1>1
  <2>2. Cardinality(run \cap S) = 0
    BY <2>1, FS_EmptySet
  <2>3. Cardinality(run \cup S) = Cardinality(run) + Cardinality(S) - Cardinality(run \cap S)
    BY <1>2, FS_Union
  <2> QED BY <2>2, <2>3, <1>2
<1>4. Cardinality(run \cup S) \in 0 .. N
  BY <1>1, ItemsFinite, NAssumption
<1>5. Open(res, run \cup S)
  BY <1>1 DEF Open, Ready
<1>6. Cardinality(Busy(res, run \cup S)) <= concurrency
  <2>1. CASE W = {}
    <3>1. Busy(res, run \cup S) = Busy(res, run)
      BY <2>1 DEF Busy
    <3> QED BY <3>1
  <2>2. CASE W # {}
    <3>1. PICK m \in W : \A i \in W : i <= m
      BY <2>2, <1>1, LastItem
    <3>2. Cardinality(run) + Cardinality(Before(m)) < concurrency
      BY <3>1 DEF Starts, Room
    <3>3. W \subseteq Before(m) \cup {m}
      BY <3>1, <1>1, NAssumption DEF Items
    <3>4. /\ IsFiniteSet(Before(m)) /\ Cardinality(Before(m)) \in Nat
      BY <1>1, ItemsFinite
    <3>5. /\ IsFiniteSet(Before(m) \cup {m})
          /\ Cardinality(Before(m) \cup {m}) = Cardinality(Before(m)) + 1
      <4>1. m \notin Before(m)
        BY <3>1, <1>1, NAssumption DEF Items
      <4> HIDE DEF Before
      <4> QED BY <4>1, <3>4, FS_AddElement
    <3>6. Busy(res, run \cup S) \subseteq run \cup (Before(m) \cup {m})
      BY <3>3 DEF Busy
    <3>7. /\ IsFiniteSet(run \cup (Before(m) \cup {m}))
          /\ Cardinality(run \cup (Before(m) \cup {m}))
                <= Cardinality(run) + Cardinality(Before(m)) + 1
      <4>1. run \cap (Before(m) \cup {m}) \subseteq Items
        OBVIOUS
      <4>2. Cardinality(run \cap (Before(m) \cup {m})) \in Nat
        BY <4>1, ItemsFinite
      <4> DEFINE B == Before(m) \cup {m}
      <4>3. /\ IsFiniteSet(run \cup B)
            /\ Cardinality(run \cup B) = Cardinality(run) + Cardinality(B) - Cardinality(run \cap B)
        <5> HIDE DEF B
        <5> QED BY <3>5, <1>2, FS_Union DEF B
      <4> HIDE DEF Before
      <4> QED BY <4>2, <4>3, <3>4, <3>5, <1>2
    <3>8. Cardinality(Busy(res, run \cup S)) <= Cardinality(run \cup (Before(m) \cup {m}))
      BY <3>6, <3>7, FS_Subset
    <3>9. /\ Cardinality(Busy(res, run \cup S)) \in Nat
          /\ Cardinality(run \cup (Before(m) \cup {m})) \in Nat
          /\ concurrency \in Nat
      BY <3>7, <1>1, ItemsFinite, FS_CardinalityType, NAssumption DEF Busy, TypeOK, Items
    <3> QED BY <3>2, <3>4, <3>7, <3>8, <3>9, <1>2
  <2> QED BY <2>1, <2>2
<1> QED BY <1>1, <1>3, <1>4, <1>5, <1>6

(* A pump of an accepted plan with nobody running and a worker without a    *)
(* result starts one: the lowest of the ready workers finds room.           *)
LEMMA PumpStarts ==
    ASSUME TypeOK, Accepts(dependsOn), NEW res \in [Items -> Results \cup {None}],
           NEW i \in Items, res[i] = None
    PROVE  Starts(res, {}, 0) # {}
<1> DEFINE U == {j \in Items : res[j] = None}
           R == Ready(res, {})
<1>1. PICK j \in U : \A d \in dependsOn[j] : d \notin U
  BY SomeoneIsFirst DEF TypeOK
<1>2. j \in R
  BY <1>1 DEF Ready, TypeOK
<1>3. PICK m \in R : \A n \in R : m <= n
  BY <1>2, FirstItem DEF Ready
<1>4. {n \in R : n < m} = {}
  BY <1>3, NAssumption DEF Items, Ready
<1>5. Cardinality({n \in R : n < m}) = 0
  BY <1>4, FS_EmptySet
<1>6. Room(0 + Cardinality({n \in R : n < m}))
  BY <1>5, NAssumption DEF Room, TypeOK, Items
<1> QED BY <1>3, <1>6 DEF Starts

(* A pump that begins in a sound state ends in one. *)
LEMMA PumpStep ==
    ASSUME TypeOK, NEW res \in [Items -> Results \cup {None}], NEW run \in SUBSET Items,
           thrown \subseteq run, ended \notin {"resolved", "unschedulable"},
           Open(res, run), Cardinality(Busy(res, run)) <= concurrency,
           Accepts(dependsOn), Coherent(res),
           Pump(res, run, Cardinality(run))
    PROVE  IndInv'
<1> DEFINE S == Starts(res, run, Cardinality(run))
<1>1. /\ results' = res /\ running' = run \cup S
      /\ active' = Cardinality(run) + Cardinality(S)
      /\ UNCHANGED <<dependsOn, concurrency, thrown>>
  BY DEF Pump, plan
<1>2. /\ S \subseteq Items
      /\ Cardinality(run) + Cardinality(S) = Cardinality(run \cup S)
      /\ Cardinality(run) + Cardinality(S) \in 0 .. N
      /\ Open(res, run \cup S)
      /\ Cardinality(Busy(res, run \cup S)) <= concurrency
  BY PumpBound
<1>3. ended' \in {"new", "open", "resolved", "rejected", "unschedulable"}
  BY DEF Pump, TypeOK
<1>4. TypeOK'
  BY <1>1, <1>2, <1>3 DEF TypeOK
<1>5. Open(results, running)'
  BY <1>1, <1>2 DEF Open
<1>6. Busy(results, running)' = Busy(res, run \cup S)
  BY <1>1 DEF Busy, Skips
<1>7. Accepts(dependsOn)' /\ Coherent(results)'
  BY <1>1 DEF Accepts, Coherent, Skips
<1>8. ASSUME Cardinality(run) + Cardinality(S) = 0
      PROVE  run \cup S = {} /\ \A i \in Items : res[i] # None
  <2>1. IsFiniteSet(run \cup S) /\ run \cup S = {}
    BY <1>2, <1>8, ItemsFinite, FS_EmptySet
  <2>2. run = {} /\ Cardinality(run) = 0 /\ S = {}
    BY <2>1, FS_EmptySet
  <2> QED BY <2>1, <2>2, PumpStarts
<1>9. OutcomeComplete'
  <2>1. ended' # "unschedulable" /\ (ended' = "resolved" => Cardinality(run) + Cardinality(S) = 0)
    BY <1>2, <1>8 DEF Pump
  <2> QED BY <2>1, <1>1, <1>8 DEF OutcomeComplete
<1> QED BY <1>1, <1>2, <1>4, <1>5, <1>6, <1>7, <1>9 DEF IndInv

----------------------------------------------------------------------------
(* An accepted plan starts with nobody running. *)
LEMMA InitInv == Init => IndInv
<1> SUFFICES ASSUME Init PROVE IndInv
  OBVIOUS
<1>1. TypeOK
  BY NAssumption DEF Init, TypeOK, Items
<1>2. Open(results, running)
  BY DEF Init, Open
<1>3. running = {} /\ Busy(results, running) = {}
  BY DEF Init, Busy
<1>4. Cardinality(running) = 0 /\ Cardinality(Busy(results, running)) = 0
  BY <1>3, FS_EmptySet
<1>5. active = 0 /\ concurrency \in Nat
  BY NAssumption DEF Init, Items
<1>6. Accepts(dependsOn) /\ Coherent(results) /\ OutcomeComplete
  BY DEF Init, Coherent, OutcomeComplete
<1> QED BY <1>1, <1>2, <1>4, <1>5, <1>6 DEF IndInv

(* A worker that settles leaves its place, and no running worker becomes or *)
(* ceases to be a skip by its result; it takes "skipped" exactly when it is *)
(* one, and then one of its dependencies failed or has a failed ancestor.   *)
LEMMA SettledStep ==
    ASSUME IndInv, NEW i \in running \ thrown, NEW result \in Results,
           result = "skipped" <=> Skips(results, i), Settled(i, result)
    PROVE  IndInv'
<1> DEFINE res == [results EXCEPT ![i] = result]
           run == running \ {i}
<1>1. TypeOK /\ i \in Items /\ running \in SUBSET Items /\ thrown \subseteq running
  BY DEF IndInv, TypeOK
<1>2. /\ res \in [Items -> Results \cup {None}]
      /\ run \in SUBSET Items
      /\ thrown \subseteq run
  BY <1>1 DEF TypeOK
<1>3. Left(active) = Cardinality(run)
  <2>1. IsFiniteSet(running)
    BY <1>1, ItemsFinite
  <2>2. Cardinality(run) = Cardinality(running) - 1
    BY <2>1, FS_RemoveElement
  <2> QED BY <2>2 DEF IndInv, Left
<1>4. results[i] = None /\ result # None
  BY NoneAssumption DEF IndInv, Open
<1>5. \A j \in run : /\ results[j] = None /\ res[j] = None
                     /\ \A d \in dependsOn[j] : d \in Items /\ d # i /\ results[d] # None /\ res[d] = results[d]
  BY <1>1, <1>4 DEF IndInv, Open, TypeOK
<1>6. Open(res, run)
  BY <1>5 DEF Open
<1>7. Busy(res, run) \subseteq Busy(results, running)
  BY <1>5 DEF Busy, Skips
<1>8. Cardinality(Busy(res, run)) <= concurrency
  <2>1. Busy(results, running) \in SUBSET Items /\ Busy(res, run) \in SUBSET Items
    BY <1>1 DEF Busy
  <2>2. /\ Cardinality(Busy(res, run)) <= Cardinality(Busy(results, running))
        /\ Cardinality(Busy(res, run)) \in Nat /\ Cardinality(Busy(results, running)) \in Nat
    BY <2>1, <1>7, ItemsFinite, FS_Subset
  <2>3. concurrency \in Nat
    BY <1>1, NAssumption DEF TypeOK, Items
  <2> QED BY <2>2, <2>3 DEF IndInv
<1>9. Pump(res, run, Cardinality(run))
  BY <1>3 DEF Settled
<1>10. ended \notin {"resolved", "unschedulable"}
  BY DEF IndInv, OutcomeComplete
<1>11. Coherent(res)
  <2> SUFFICES ASSUME NEW j \in Items, res[j] # None
               PROVE  /\ \A d \in dependsOn[j] : res[d] # None
                      /\ res[j] = "skipped" <=> Skips(res, j)
                      /\ res[j] = "skipped" => \E a \in Ancestors(dependsOn, j) : res[a] \in Failures
    BY DEF Coherent
  <2>1. results \in [Items -> Results \cup {None}] /\ dependsOn \in [Items -> SUBSET Items]
    BY <1>1 DEF TypeOK
  <2>2. \A k \in Items : results[k] # None => res[k] = results[k]
    BY <1>4, <2>1
  <2>3. \A d \in dependsOn[j] : d \in Items /\ results[d] # None /\ res[d] = results[d]
    <3>1. CASE j = i
      BY <3>1, <2>1, <2>2 DEF IndInv, Open
    <3>2. CASE j # i
      BY <3>2, <2>1, <2>2 DEF IndInv, Coherent
    <3> QED BY <3>1, <3>2
  <2>4. Skips(res, j) <=> Skips(results, j)
    BY <2>3 DEF Skips
  <2>5. res[j] = "skipped" <=> Skips(res, j)
    BY <2>1, <2>4 DEF IndInv, Coherent
  <2>6. ASSUME res[j] = "skipped"
        PROVE  \E a \in Ancestors(dependsOn, j) : results[a] \in Failures
    <3>1. PICK d \in dependsOn[j] : res[d] # "succeeded"
      BY <2>5, <2>6 DEF Skips
    <3>2. d \in Ancestors(dependsOn, j) /\ d \in Items /\ results[d] # "succeeded" /\ results[d] # None
      BY <2>1, <2>3, <3>1, AncestorsClosed
    <3>3. CASE results[d] = "skipped"
      <4>1. \E a \in Ancestors(dependsOn, d) : results[a] \in Failures
        BY <3>2, <3>3 DEF IndInv, Coherent
      <4>2. Ancestors(dependsOn, d) \subseteq Ancestors(dependsOn, j)
        BY <2>1, <3>2, AncestorsTransitive
      <4> QED BY <4>1, <4>2
    <3>4. CASE results[d] # "skipped"
      BY <2>1, <3>2, <3>4 DEF Results
    <3> QED BY <3>3, <3>4
  <2>7. \A a \in Ancestors(dependsOn, j) : results[a] \in Failures => res[a] \in Failures
    BY <2>1, <2>2, AncestorsClosed, NoneAssumption DEF Results
  <2> QED BY <2>3, <2>5, <2>6, <2>7
<1>12. Accepts(dependsOn)
  BY DEF IndInv
<1> HIDE DEF res, run
<1> QED BY <1>1, <1>2, <1>6, <1>8, <1>9, <1>10, <1>11, <1>12, PumpStep

(* Begin, Settle, Skip and Throw keep the invariant. *)
LEMMA NextInv == IndInv /\ [Next]_vars => IndInv'
<1> SUFFICES ASSUME IndInv, [Next]_vars PROVE IndInv'
  OBVIOUS
<1>1. CASE Begin
  <2>1. /\ TypeOK /\ results \in [Items -> Results \cup {None}] /\ running \in SUBSET Items
        /\ thrown \subseteq running
    BY DEF IndInv, TypeOK
  <2>2. Pump(results, running, Cardinality(running))
    BY <1>1 DEF Begin, IndInv
  <2>3. Open(results, running) /\ Cardinality(Busy(results, running)) <= concurrency
    BY DEF IndInv
  <2>4. ended \notin {"resolved", "unschedulable"} /\ Accepts(dependsOn) /\ Coherent(results)
    BY <1>1 DEF Begin, IndInv
  <2> QED BY <2>1, <2>2, <2>3, <2>4, PumpStep
<1>2. ASSUME NEW i \in Items, Settle(i)
      PROVE  IndInv'
  <2>1. PICK result \in {"succeeded"} \cup Failures : Settled(i, result)
    BY <1>2 DEF Settle
  <2>2. /\ result \in Results /\ i \in running \ thrown
        /\ result # "skipped" /\ ~Skips(results, i)
    BY <1>2 DEF Results, Settle, Failures
  <2> QED BY <2>1, <2>2, SettledStep
<1>3. ASSUME NEW i \in Items, Skip(i)
      PROVE  IndInv'
  <2>1. "skipped" \in Results /\ i \in running \ thrown /\ Skips(results, i) /\ Settled(i, "skipped")
    BY <1>3 DEF Results, Skip
  <2> QED BY <2>1, SettledStep
<1>4. ASSUME NEW i \in Items, Throw(i)
      PROVE  IndInv'
  <2>1. /\ UNCHANGED <<dependsOn, concurrency, results, running, active>>
        /\ thrown' = thrown \cup {i} /\ i \in running
        /\ ended' \in {"new", "open", "resolved", "rejected", "unschedulable"}
    BY <1>4 DEF Throw, plan, IndInv, TypeOK
  <2>2. TypeOK'
    BY <2>1 DEF IndInv, TypeOK
  <2>3. Open(results, running)' /\ Busy(results, running)' = Busy(results, running)
    BY <2>1 DEF IndInv, Open, Busy, Skips
  <2>4. Accepts(dependsOn)' /\ Coherent(results)'
    BY <2>1 DEF IndInv, Accepts, Coherent, Skips
  <2>5. OutcomeComplete'
    BY <1>4, <2>1 DEF Throw, IndInv, OutcomeComplete
  <2> QED BY <2>1, <2>2, <2>3, <2>4, <2>5 DEF IndInv
<1>5. CASE UNCHANGED vars
  BY <1>5 DEF vars, IndInv, TypeOK, Open, Busy, Skips, Accepts, Coherent, OutcomeComplete
<1> QED BY <1>1, <1>2, <1>3, <1>4, <1>5 DEF Next

(* The inductive invariant holds in every state. *)
THEOREM Invariance == Spec => []IndInv
BY InitInv, NextInv, PTL DEF Spec

(* Results, running workers and counters are well typed in every state of   *)
(* the executor, for any number of workers.                                 *)
THEOREM TypeCorrect == Spec => []TypeOK
<1>1. IndInv => TypeOK
  BY DEF IndInv
<1> QED BY <1>1, Invariance, PTL

(* No more than `concurrency` workers run, and `active` counts exactly the  *)
(* places that are taken, whatever the plan and the order of results.       *)
(* (the pump of runDependencyAwareConcurrent)                               *)
THEOREM SlotsHold == Spec => []SlotsBound
<1>1. IndInv => SlotsBound
  BY DEF IndInv, SlotsBound, Working, Busy
<1> QED BY <1>1, Invariance, PTL

(* A worker runs only on dependencies that all succeeded, and what is        *)
(* skipped is exactly what depends, directly or through others, on a worker *)
(* that failed, was cancelled or timed out.                                 *)
(* (pump and the skip callback of executeRunPlan)                           *)
THEOREM SkipsAreCaused == Spec => []SkipsHaveCause
<1>1. ASSUME IndInv PROVE SkipsHaveCause
  <2> DEFINE Good == {j \in Items : results[j] = "succeeded"}
  <2>1. results \in [Items -> Results \cup {None}] /\ dependsOn \in [Items -> SUBSET Items]
    BY <1>1 DEF IndInv, TypeOK
  <2>2. Closed(dependsOn, Good)
    BY <1>1, <2>1, NoneAssumption DEF IndInv, Coherent, Closed, Skips, Results
  <2>3. ASSUME NEW i \in Items, i \in Working \/ results[i] \in {"succeeded"} \cup Failures
        PROVE  \A a \in Ancestors(dependsOn, i) : results[a] = "succeeded"
    <3>1. ~Skips(results, i)
      BY <1>1, <2>3, NoneAssumption DEF Working, IndInv, Coherent, Results, Failures
    <3>2. dependsOn[i] \subseteq Good
      BY <2>1, <3>1 DEF Skips
    <3> QED BY <2>1, <2>2, <3>2, AncestorsWithin
  <2>4. ASSUME NEW i \in Items, results[i] # None,
               NEW a \in Ancestors(dependsOn, i), results[a] \in Failures
        PROVE  results[i] = "skipped"
    BY <2>1, <2>3, <2>4 DEF Results, Failures
  <2>5. ASSUME NEW i \in Items, results[i] = "skipped"
        PROVE  results[i] # None /\ \E a \in Ancestors(dependsOn, i) : results[a] \in Failures
    BY <1>1, <2>5, NoneAssumption DEF IndInv, Coherent, Results
  <2> QED BY <2>3, <2>4, <2>5 DEF SkipsHaveCause
<1> QED BY <1>1, Invariance, PTL

(* An accepted plan never ends as unschedulable, and when it resolves every *)
(* worker has its result and nothing runs.                                  *)
(* (validateRunPlanDependencies and the end of pump)                        *)
THEOREM OutcomesAreComplete == Spec => []OutcomeComplete
<1>1. IndInv => OutcomeComplete
  BY DEF IndInv
<1> QED BY <1>1, Invariance, PTL
=============================================================================
