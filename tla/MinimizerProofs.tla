--------------------------- MODULE MinimizerProofs ---------------------------
(***************************************************************************)
(* Theorems about Minimizer, for any finite set of actions, any dependency *)
(* graph, any sequence of verdicts and a cancel at any moment.             *)
(***************************************************************************)
EXTENDS Minimizer, FiniteSetTheorems, WellFoundedInduction, TLAPS

\* The closure of a candidate holds it, is closed, and lies in every closed set
\* that holds it; a closed candidate is its own closure.
LEMMA ClosureIsLeast ==
    ASSUME NEW graph \in Graphs, NEW S \in SUBSET Actions
    PROVE  /\ Closure(graph, S) \subseteq Actions
           /\ S \subseteq Closure(graph, S)
           /\ Closed(graph, Closure(graph, S))
           /\ \A T \in SUBSET Actions : S \subseteq T /\ Closed(graph, T)
                                            => Closure(graph, S) \subseteq T
           /\ Closed(graph, S) => Closure(graph, S) = S
<1>1. Closure(graph, S) \subseteq Actions /\ S \subseteq Closure(graph, S)
  BY DEF Closure
<1>2. ASSUME NEW T \in SUBSET Actions, S \subseteq T, Closed(graph, T)
      PROVE  Closure(graph, S) \subseteq T
  BY <1>2 DEF Closure
<1>3. Closed(graph, Closure(graph, S))
  <2> SUFFICES ASSUME NEW x \in Closure(graph, S), NEW d \in graph[x]
               PROVE  d \in Closure(graph, S)
    BY DEF Closed
  <2>1. x \in Actions /\ d \in Actions
    BY <1>1 DEF Graphs
  <2>2. ASSUME NEW T \in SUBSET Actions, S \subseteq T, Closed(graph, T)
        PROVE  d \in T
    BY <2>2, <1>2 DEF Closed
  <2>3. QED
    BY <2>1, <2>2 DEF Closure
<1>4. QED
  BY <1>1, <1>2, <1>3

\* Removing an action with its dependents removes it, and keeps a closed set
\* closed.
LEMMA RemovalKeepsClosed ==
    ASSUME NEW graph \in Graphs, NEW S \in SUBSET Actions, NEW a \in S, Closed(graph, S)
    PROVE  /\ RemoveWithDependents(graph, S, a) \subseteq S \ {a}
           /\ Closed(graph, RemoveWithDependents(graph, S, a))
<1> DEFINE Rest == RemoveWithDependents(graph, S, a)
<1>1. Rest \subseteq S \ {a}
  BY DEF RemoveWithDependents, Taints
<1>2. ASSUME NEW x \in Rest, NEW d \in graph[x]
      PROVE  d \in Rest
  <2>1. x \in S /\ d \in S
    BY <1>1 DEF Closed
  <2>2. PICK R \in SUBSET Actions : Taints(graph, S, a, R) /\ x \notin R
    BY DEF RemoveWithDependents
  <2>3. d \notin R
    BY <2>1, <2>2 DEF Taints
  <2>4. QED
    BY <2>1, <2>2, <2>3 DEF RemoveWithDependents
<1>3. QED
  BY <1>1, <1>2 DEF Closed

\* The empty set and the set of all actions are closed.
LEMMA TrivialSetsClosed ==
    ASSUME NEW graph \in Graphs
    PROVE  Closed(graph, {}) /\ Closed(graph, Actions)
BY DEF Closed, Graphs

\* After an evaluation the cache holds the outcome of the closure of the
\* candidate and all it held before, and only a cancelled search caches a
\* cancelled trial.
LEMMA EvaluationIsCached ==
    ASSUME TypeOK, NEW S \in SUBSET Actions, NEW outcome \in Outcomes, Evaluate(S, outcome)
    PROVE  /\ Normalize(S) \in SUBSET Actions
           /\ DOMAIN cache' = DOMAIN cache \cup {Normalize(S)}
           /\ cache'[Normalize(S)] = outcome
           /\ \A T \in DOMAIN cache : cache'[T] = cache[T]
           /\ DOMAIN cache' \subseteq SUBSET Actions
           /\ \A T \in DOMAIN cache' : cache'[T] \in Outcomes
           /\ outcome = "cancelled" =>
                  cancelled \/ \E T \in DOMAIN cache : cache[T] = "cancelled"
<1>1. Normalize(S) \in SUBSET Actions
  BY ClosureIsLeast DEF TypeOK, Normalize
<1>2. CASE Normalize(S) \in DOMAIN cache
  BY <1>1, <1>2 DEF Evaluate, TypeOK
<1>3. CASE Normalize(S) \notin DOMAIN cache
  <2>1. RunAndCache(Normalize(S), outcome)
    BY <1>3 DEF Evaluate
  <2>2. outcome = "cancelled" => cancelled
    BY <2>1 DEF RunAndCache, Trial
  <2>3. cache' = [T \in DOMAIN cache \cup {Normalize(S)} |->
                      IF T = Normalize(S) THEN outcome ELSE cache[T]]
    BY <2>1 DEF RunAndCache
  <2>4. QED
    BY <1>1, <1>3, <2>2, <2>3 DEF TypeOK
<1>4. QED
  BY <1>2, <1>3

\* A partition is a part of what is partitioned.
LEMMA PartitionsAreParts ==
    ASSUME TypeOK, index <= Len(Partitions)
    PROVE  Partitions[index] \in SUBSET current
<1> DEFINE parts == IF granularity < Cardinality(current)
                    THEN granularity ELSE Cardinality(current)
<1>1. IsFiniteSet(current)
  BY ActionsAssumption, FS_Subset DEF TypeOK
<1>2. parts \in Nat
  BY <1>1, FS_CardinalityType DEF TypeOK
<1>3. /\ DOMAIN Partitions = 1..parts
      /\ \A i \in 1..parts : Partitions[i] \subseteq current
  BY DEF Partitions, Partition
<1>4. Len(Partitions) = parts
  BY <1>2, <1>3 DEF Partitions, Partition
<1>5. index \in 1..parts
  BY <1>2, <1>4 DEF TypeOK
<1>6. QED
  BY <1>3, <1>5

-----------------------------------------------------------------------------
(***************************************************************************)
(* Types                                                                   *)
(***************************************************************************)

\* Where a candidate leads: it is evaluated or skipped.
LEMMA DdminTryType ==
    ASSUME TypeOK, NEW candidate \in SUBSET Actions, DdminTry(candidate),
           UNCHANGED <<deps, cancelled, tried>>
    PROVE  TypeOK'
<1>1. CASE Cardinality(candidate) >= Cardinality(current)
  BY <1>1 DEF DdminTry, TypeOK
<1>2. CASE ~(Cardinality(candidate) >= Cardinality(current))
  <2>1. PICK outcome \in Outcomes :
          /\ Evaluate(candidate, outcome)
          /\ IF outcome = "stable_pass"
             THEN /\ current' = candidate
                  /\ granularity' = IF granularity > 2 THEN granularity - 1 ELSE 2
                  /\ index' = 1
                  /\ at' = Round(candidate)
             ELSE index' = index + 1 /\ UNCHANGED <<at, current, granularity>>
    BY <1>2 DEF DdminTry
  <2>2. DOMAIN cache' \subseteq SUBSET Actions /\ \A T \in DOMAIN cache' : cache'[T] \in Outcomes
    BY <2>1, EvaluationIsCached
  <2>3. QED
    BY <2>1, <2>2 DEF TypeOK, Round
<1>3. QED
  BY <1>1, <1>2

\* Every variable keeps its type; in particular the granularity stays above one
\* and an index is never asked for beyond the partitions.
LEMMA TypeStep == TypeOK /\ [Next]_vars => TypeOK'
<1> SUFFICES ASSUME TypeOK, [Next]_vars PROVE TypeOK'
  OBVIOUS
<1>1. ASSUME NEW S \in SUBSET Actions, NEW outcome \in Outcomes, Evaluate(S, outcome)
      PROVE  DOMAIN cache' \subseteq SUBSET Actions /\ \A T \in DOMAIN cache' : cache'[T] \in Outcomes
  BY <1>1, EvaluationIsCached
<1>2. \A a \in current : Without(a) \in SUBSET Actions
  BY DEF Without, RemoveWithDependents, TypeOK
<1>3. CASE TryEmpty
  BY <1>1, <1>3 DEF TryEmpty, TypeOK, Ended
<1>4. CASE TryFull
  BY <1>1, <1>4 DEF TryFull, TypeOK, Round, Ended
<1>5. CASE TrySubset
  <2>1. Normalize(Partitions[index]) \in SUBSET Actions
    BY <1>5, PartitionsAreParts, ClosureIsLeast DEF TrySubset, Normalize, TypeOK
  <2>2. QED
    BY <1>5, <2>1, DdminTryType DEF TrySubset
<1>6. CASE SubsetsTried
  BY <1>6 DEF SubsetsTried, TypeOK
<1>7. CASE TryComplement
  <2>1. Normalize(current \ Partitions[index]) \in SUBSET Actions
    BY ClosureIsLeast DEF Normalize, TypeOK
  <2>2. QED
    BY <1>7, <2>1, DdminTryType DEF TryComplement
<1>8. CASE ComplementsTried
  <2>1. Cardinality(current) \in Nat
    BY ActionsAssumption, FS_Subset, FS_CardinalityType DEF TypeOK
  <2>2. QED
    BY <1>8, <2>1 DEF ComplementsTried, TypeOK
<1>9. ASSUME NEW a \in Actions, Reduce(a) PROVE TypeOK'
  BY <1>1, <1>2, <1>9 DEF Reduce, IsNext, TypeOK
<1>10. ASSUME NEW a \in Actions, Ablate(a) PROVE TypeOK'
  BY <1>1, <1>2, <1>10 DEF Ablate, IsNext, TypeOK, Ended
<1>11. CASE Reduced
  BY <1>11 DEF Reduced, TypeOK
<1>12. CASE Ablated
  BY <1>12 DEF Ablated, TypeOK
<1>13. CASE TryFinal
  BY <1>13 DEF TryFinal, TypeOK, Ended
<1>14. CASE TrialFails
  BY <1>14 DEF TrialFails, TypeOK, Ended
<1>15. CASE Cancel
  <2>1. cancelled' \in BOOLEAN
    BY <1>15, Zenon DEF Cancel
  <2>2. QED
    BY <1>15, <2>1 DEF Cancel, TypeOK
<1>16. CASE UNCHANGED vars
  BY <1>16 DEF vars, TypeOK
<1>17. QED
  BY <1>3, <1>4, <1>5, <1>6, <1>7, <1>8, <1>9, <1>10, <1>11, <1>12, <1>13, <1>14, <1>15,
     <1>16 DEF Next, Minimize

\* Every variable has its type.
THEOREM TypeCorrect == Spec => []TypeOK
<1>1. Init => TypeOK
  <2> SUFFICES ASSUME Init PROVE TypeOK
    OBVIOUS
  <2>1. cancelled \in BOOLEAN
    BY Zenon DEF Init
  <2>2. QED
    BY <2>1, InferredAssumption DEF Init, TypeOK
<1>2. QED
  BY <1>1, TypeStep, PTL DEF Spec

-----------------------------------------------------------------------------
(***************************************************************************)
(* The evidence of the search                                              *)
(***************************************************************************)

\* The trial without a and its dependents is on record and did not pass.
Recorded(a) == Without(a) \in DOMAIN cache /\ ~Passed(Without(a))

\* What ties the cache to the place of the search: the empty set failed; every
\* action a pass has put behind it is on record, all of them once the reduction
\* is over; cancelled trials come from a cancelled search, which has no report.
SearchInv ==
    /\ at \notin {"empty", "error"} => {} \in DOMAIN cache /\ cache[{}] = "stable_fail"
    /\ CurrentIsSufficient
    /\ at \in {"empty", "full", "subsets", "complements"} => tried = {}
    /\ at = "reduce" => \A a \in tried \cap current : Recorded(a)
    /\ at \in {"ablate", "final", "done"} => \A a \in current : Recorded(a)
    /\ NothingRemovable
    /\ (\E S \in DOMAIN cache : cache[S] = "cancelled") => cancelled
    /\ NoCancelledEvidence

\* An evaluation of a closed candidate answers for that very candidate and takes
\* no evidence away.
LEMMA EvidenceStays ==
    ASSUME TypeOK, SearchInv, NEW S \in SUBSET Actions, Closed(deps, S),
           NEW outcome \in Outcomes, Evaluate(S, outcome)
    PROVE  /\ S \in DOMAIN cache' /\ cache'[S] = outcome
           /\ S \in DOMAIN cache => outcome = cache[S]
           /\ \A T \in DOMAIN cache : T \in DOMAIN cache' /\ cache'[T] = cache[T]
           /\ (\E T \in DOMAIN cache' : cache'[T] = "cancelled") => cancelled
<1>1. Normalize(S) = S
  BY ClosureIsLeast DEF TypeOK, Normalize
<1>2. (\E T \in DOMAIN cache : cache[T] = "cancelled") => cancelled
  BY DEF SearchInv
<1>3. QED
  BY <1>1, <1>2, EvaluationIsCached

\* The set in hand without one of its actions is smaller, and closed.
LEMMA WithoutIsCandidate ==
    ASSUME TypeOK, Closed(deps, current), NEW a \in current
    PROVE  /\ Without(a) \in SUBSET Actions /\ Without(a) \subseteq current
           /\ Closed(deps, Without(a))
BY RemovalKeepsClosed DEF TypeOK, Without

\* What is on record stays so while the set in hand is the same.
LEMMA RecordStays ==
    ASSUME UNCHANGED <<deps, current>>, NEW a, Recorded(a),
           \A T \in DOMAIN cache : T \in DOMAIN cache' /\ cache'[T] = cache[T]
    PROVE  Recorded(a)'
<1>1. Without(a)' = Without(a)
  BY DEF Without
<1>2. QED
  BY <1>1 DEF Recorded, Passed

\* A candidate of ddmin that is closed and lies in the set in hand.
LEMMA DdminTryStep ==
    ASSUME TypeOK, SearchInv, at \in {"subsets", "complements"},
           NEW candidate \in SUBSET current, Closed(deps, candidate),
           DdminTry(candidate), UNCHANGED <<deps, cancelled, tried>>
    PROVE  SearchInv' /\ current' \subseteq current
<1>1. CurrentIsSufficient /\ tried = {} /\ Started
  BY DEF SearchInv, Started
<1>2. candidate \in SUBSET Actions
  BY DEF TypeOK
<1>3. CASE UNCHANGED <<cache, at, current>>
  <2>1. \A a \in current : Recorded(a) => Recorded(a)'
    BY <1>3 DEF Recorded, Without, Passed
  <2>2. QED
    BY <1>3, <2>1 DEF SearchInv, CurrentIsSufficient, Started, Passed, NothingRemovable,
                      NoCancelledEvidence
<1>4. ASSUME NEW outcome \in Outcomes, Evaluate(candidate, outcome),
             outcome = "stable_pass", current' = candidate, at' = Round(candidate)
      PROVE  SearchInv' /\ current' \subseteq current
  <2>1. /\ candidate \in DOMAIN cache' /\ cache'[candidate] = outcome
        /\ \A T \in DOMAIN cache : T \in DOMAIN cache' /\ cache'[T] = cache[T]
        /\ (\E T \in DOMAIN cache' : cache'[T] = "cancelled") => cancelled
    BY <1>2, <1>4, EvidenceStays
  <2>2. {} \in DOMAIN cache /\ cache[{}] = "stable_fail"
    BY DEF SearchInv
  <2>3. candidate # {}
    BY <1>4, <2>1, <2>2
  <2>4. CurrentIsSufficient'
    BY <1>4, <2>1, <2>3 DEF CurrentIsSufficient, Passed, Closed
  <2>5. at' \in {"subsets", "reduce"}
    BY <1>4 DEF Round
  <2>6. QED
    BY <1>1, <1>4, <2>1, <2>2, <2>4, <2>5 DEF SearchInv, NothingRemovable, NoCancelledEvidence
<1>5. ASSUME NEW outcome \in Outcomes, Evaluate(candidate, outcome), UNCHANGED <<at, current>>
      PROVE  SearchInv' /\ current' \subseteq current
  <2>1. /\ \A T \in DOMAIN cache : T \in DOMAIN cache' /\ cache'[T] = cache[T]
        /\ (\E T \in DOMAIN cache' : cache'[T] = "cancelled") => cancelled
    BY <1>2, <1>5, EvidenceStays
  <2>2. CurrentIsSufficient'
    BY <1>1, <1>5, <2>1 DEF CurrentIsSufficient, Started, Passed, Closed
  <2>3. QED
    BY <1>1, <1>5, <2>1, <2>2 DEF SearchInv, NothingRemovable, NoCancelledEvidence
<1>6. QED
  BY <1>3, <1>4, <1>5 DEF DdminTry

\* Every step keeps the evidence in order, and none lets the set in hand grow.
LEMMA SearchStep ==
    ASSUME TypeOK, SearchInv, [Next]_vars
    PROVE  SearchInv' /\ (Started => current' \subseteq current)
<1> USE DEF Ended
<1>1. CASE TryEmpty
  <2>1. PICK outcome \in Outcomes :
          Evaluate({}, outcome) /\ at' = IF outcome = "stable_fail" THEN "full" ELSE "error"
    BY <1>1 DEF TryEmpty
  <2>2. /\ {} \in DOMAIN cache' /\ cache'[{}] = outcome
        /\ (\E T \in DOMAIN cache' : cache'[T] = "cancelled") => cancelled
    BY <2>1, EvidenceStays, TrivialSetsClosed DEF TypeOK
  <2>3. QED
    BY <1>1, <2>1, <2>2 DEF TryEmpty, SearchInv, CurrentIsSufficient, Started,
                            NothingRemovable, NoCancelledEvidence
<1>2. CASE TryFull
  <2>1. PICK outcome \in Outcomes :
          /\ Evaluate(Actions, outcome)
          /\ IF outcome = "stable_pass"
             THEN at' = Round(Actions) /\ current' = Actions
             ELSE at' = "error" /\ UNCHANGED current
    BY <1>2 DEF TryFull
  <2>2. Closed(deps, Actions)
    BY TrivialSetsClosed DEF TypeOK
  <2>3. /\ Actions \in DOMAIN cache' /\ cache'[Actions] = outcome
        /\ \A T \in DOMAIN cache : T \in DOMAIN cache' /\ cache'[T] = cache[T]
        /\ (\E T \in DOMAIN cache' : cache'[T] = "cancelled") => cancelled
    BY <2>1, <2>2, EvidenceStays
  <2>4. {} \in DOMAIN cache /\ cache[{}] = "stable_fail" /\ tried = {}
    BY <1>2 DEF TryFull, SearchInv
  <2>5. ~Started
    BY <1>2 DEF TryFull, Started
  <2>6. CASE outcome = "stable_pass"
    <3>1. Actions # {}
      BY <2>3, <2>4, <2>6
    <3>2. CurrentIsSufficient'
      BY <1>2, <2>1, <2>2, <2>3, <2>6, <3>1 DEF TryFull, CurrentIsSufficient, Passed, Closed
    <3>3. at' \in {"subsets", "reduce"}
      BY <2>1, <2>6 DEF Round
    <3>4. QED
      BY <1>2, <2>1, <2>3, <2>4, <2>5, <3>2, <3>3
      DEF TryFull, SearchInv, NothingRemovable, NoCancelledEvidence
  <2>7. CASE outcome # "stable_pass"
    BY <1>2, <2>1, <2>3, <2>5, <2>7
    DEF TryFull, SearchInv, CurrentIsSufficient, Started, NothingRemovable, NoCancelledEvidence
  <2>8. QED
    BY <2>6, <2>7
<1>3. CASE TrySubset
  <2>1. Closed(deps, current)
    BY <1>3 DEF TrySubset, SearchInv, CurrentIsSufficient, Started
  <2>2. Partitions[index] \in SUBSET current
    BY <1>3, PartitionsAreParts DEF TrySubset
  <2>3. /\ Normalize(Partitions[index]) \in SUBSET current
        /\ Closed(deps, Normalize(Partitions[index]))
    BY <2>1, <2>2, ClosureIsLeast DEF Normalize, TypeOK
  <2>4. QED
    BY <1>3, <2>3, DdminTryStep DEF TrySubset
<1>4. CASE TryComplement
  <2>1. Closed(deps, current)
    BY <1>4 DEF TryComplement, SearchInv, CurrentIsSufficient, Started
  <2>2. current \ Partitions[index] \in SUBSET current
    OBVIOUS
  <2>3. /\ Normalize(current \ Partitions[index]) \in SUBSET current
        /\ Closed(deps, Normalize(current \ Partitions[index]))
    BY <2>1, <2>2, ClosureIsLeast DEF Normalize, TypeOK
  <2>4. QED
    BY <1>4, <2>3, DdminTryStep DEF TryComplement
<1>5. ASSUME UNCHANGED <<deps, cache, current>>, at \in {"subsets", "complements"},
             at' \in {"subsets", "complements", "reduce"}, UNCHANGED <<cancelled, tried>>
      PROVE  SearchInv' /\ (Started => current' \subseteq current)
  BY <1>5 DEF SearchInv, CurrentIsSufficient, Started, Passed, NothingRemovable,
              NoCancelledEvidence
<1>6. CASE SubsetsTried
  BY <1>5, <1>6 DEF SubsetsTried
<1>7. CASE ComplementsTried
  BY <1>5, <1>7 DEF ComplementsTried
<1>8. ASSUME NEW a \in Actions, Reduce(a) PROVE SearchInv' /\ current' \subseteq current
  <2>1. /\ at = "reduce" /\ a \in current /\ Started
        /\ Closed(deps, current)
    BY <1>8 DEF Reduce, IsNext, SearchInv, CurrentIsSufficient, Started
  <2>2. /\ Without(a) \in SUBSET Actions /\ Without(a) \subseteq current
        /\ Closed(deps, Without(a))
    BY <2>1, WithoutIsCandidate
  <2>3. PICK outcome \in Outcomes :
          /\ Evaluate(Without(a), outcome)
          /\ IF outcome = "stable_pass"
             THEN current' = Without(a) /\ tried' = {}
             ELSE tried' = tried \cup {a} /\ UNCHANGED current
    BY <1>8 DEF Reduce
  <2>4. /\ Without(a) \in DOMAIN cache' /\ cache'[Without(a)] = outcome
        /\ \A T \in DOMAIN cache : T \in DOMAIN cache' /\ cache'[T] = cache[T]
        /\ (\E T \in DOMAIN cache' : cache'[T] = "cancelled") => cancelled
    BY <2>2, <2>3, EvidenceStays
  <2>5. {} \in DOMAIN cache /\ cache[{}] = "stable_fail"
    BY <2>1 DEF SearchInv
  <2>6. UNCHANGED <<deps, cancelled, at>>
    BY <1>8 DEF Reduce
  <2>7. CASE outcome = "stable_pass"
    <3>1. Without(a) # {}
      BY <2>4, <2>5, <2>7
    <3>2. CurrentIsSufficient'
      BY <2>2, <2>3, <2>4, <2>6, <2>7, <3>1 DEF CurrentIsSufficient, Passed, Closed
    <3>3. QED
      BY <2>1, <2>2, <2>3, <2>4, <2>5, <2>6, <2>7, <3>2
      DEF SearchInv, NothingRemovable, NoCancelledEvidence
  <2>8. CASE outcome # "stable_pass"
    <3>1. UNCHANGED current /\ tried' = tried \cup {a}
      BY <2>3, <2>8
    <3>2. CurrentIsSufficient'
      BY <2>1, <2>4, <2>6, <3>1 DEF SearchInv, CurrentIsSufficient, Started, Passed, Closed
    <3>3. ASSUME NEW b \in tried' \cap current' PROVE Recorded(b)'
      <4>1. CASE b = a
        BY <2>4, <2>6, <2>8, <3>1, <4>1 DEF Recorded, Passed, Without
      <4>2. CASE b \in tried \cap current
        <5>1. Recorded(b)
          BY <2>1, <4>2 DEF SearchInv
        <5>2. QED
          BY <2>4, <2>6, <3>1, <5>1, RecordStays
      <4>3. QED
        BY <3>1, <3>3, <4>1, <4>2
    <3>4. QED
      BY <2>1, <2>4, <2>5, <2>6, <3>1, <3>2, <3>3
      DEF SearchInv, NothingRemovable, NoCancelledEvidence
  <2>9. QED
    BY <2>7, <2>8
<1>9. ASSUME NEW a \in Actions, Ablate(a) PROVE SearchInv' /\ current' \subseteq current
  <2>1. /\ at = "ablate" /\ a \in current /\ Started
        /\ Closed(deps, current) /\ Recorded(a)
    BY <1>9 DEF Ablate, IsNext, SearchInv, CurrentIsSufficient, Started
  <2>2. /\ Without(a) \in SUBSET Actions /\ Without(a) \subseteq current
        /\ Closed(deps, Without(a))
    BY <2>1, WithoutIsCandidate
  <2>3. PICK outcome \in Outcomes :
          /\ Evaluate(Without(a), outcome)
          /\ IF outcome = "stable_pass"
             THEN at' = "removable" /\ UNCHANGED tried
             ELSE tried' = tried \cup {a} /\ UNCHANGED at
    BY <1>9 DEF Ablate
  <2>4. /\ \A T \in DOMAIN cache : T \in DOMAIN cache' /\ cache'[T] = cache[T]
        /\ (\E T \in DOMAIN cache' : cache'[T] = "cancelled") => cancelled
        /\ Without(a) \in DOMAIN cache => outcome = cache[Without(a)]
    BY <2>2, <2>3, EvidenceStays
  <2>5. outcome # "stable_pass" /\ UNCHANGED at
    BY <2>1, <2>3, <2>4 DEF Recorded, Passed
  <2>6. UNCHANGED <<deps, cancelled, current>>
    BY <1>9 DEF Ablate
  <2>7. CurrentIsSufficient'
    BY <2>1, <2>4, <2>5, <2>6 DEF SearchInv, CurrentIsSufficient, Started, Passed, Closed
  <2>8. ASSUME NEW b \in current' PROVE Recorded(b)'
    <3>1. Recorded(b)
      BY <2>1, <2>6, <2>8 DEF SearchInv
    <3>2. QED
      BY <2>4, <2>6, <3>1, RecordStays
  <2>9. {} \in DOMAIN cache /\ cache[{}] = "stable_fail"
    BY <2>1 DEF SearchInv
  <2>10. QED
    BY <2>1, <2>4, <2>5, <2>6, <2>7, <2>8, <2>9
    DEF SearchInv, NothingRemovable, NoCancelledEvidence
<1>10. ASSUME UNCHANGED <<deps, cancelled, cache, current>>, at \notin {"empty", "full"},
              Started, NoCancelledEvidence', NothingRemovable',
              at' \in {"ablate", "final", "done"},
              \A a \in current : Recorded(a)
       PROVE  SearchInv' /\ (Started => current' \subseteq current)
  <2>1. ASSUME NEW a \in current' PROVE Recorded(a)'
    BY <1>10, <2>1, RecordStays
  <2>2. CurrentIsSufficient'
    BY <1>10 DEF SearchInv, CurrentIsSufficient, Started, Passed, Closed
  <2>3. QED
    BY <1>10, <2>1, <2>2 DEF SearchInv, Started
<1>11. CASE Reduced
  <2>1. \A a \in current : Recorded(a)
    BY <1>11 DEF Reduced, SearchInv
  <2>2. QED
    BY <1>10, <1>11, <2>1 DEF Reduced, Started, NothingRemovable, NoCancelledEvidence
<1>12. CASE Ablated
  <2>1. \A a \in current : Recorded(a)
    BY <1>12 DEF Ablated, SearchInv
  <2>2. QED
    BY <1>10, <1>12, <2>1 DEF Ablated, Started, NothingRemovable, NoCancelledEvidence
<1>13. ASSUME UNCHANGED <<deps, cancelled, cache, current>>, at' = "error"
       PROVE  SearchInv' /\ (Started => current' \subseteq current)
  BY <1>13 DEF SearchInv, CurrentIsSufficient, Started, NothingRemovable, NoCancelledEvidence
<1>14. CASE TryFinal
  <2>1. PICK outcome \in Outcomes :
          Trial(outcome) /\ at' = IF outcome = "stable_pass" THEN "done" ELSE "error"
    BY <1>14 DEF TryFinal
  <2>2. \A a \in current : Recorded(a)
    BY <1>14 DEF TryFinal, SearchInv
  <2>3. CASE outcome = "stable_pass"
    <3>1. ~cancelled
      BY <2>1, <2>3 DEF Trial
    <3>2. NoCancelledEvidence' /\ NothingRemovable'
      BY <1>14, <2>1, <2>3, <3>1 DEF TryFinal, SearchInv, NoCancelledEvidence, NothingRemovable
    <3>3. QED
      BY <1>10, <1>14, <2>1, <2>2, <2>3, <3>2 DEF TryFinal, Started
  <2>4. CASE outcome # "stable_pass"
    BY <1>13, <1>14, <2>1, <2>4 DEF TryFinal
  <2>5. QED
    BY <2>3, <2>4
<1>15. CASE TrialFails
  BY <1>13, <1>15 DEF TrialFails
<1>16. ASSUME UNCHANGED <<deps, cache, at, current, tried>>, cancelled' \in {cancelled, TRUE}
       PROVE  SearchInv' /\ (Started => current' \subseteq current)
  <2>1. \A a \in current : Recorded(a) => Recorded(a)'
    BY <1>16 DEF Recorded, Without, Passed
  <2>2. QED
    BY <1>16, <2>1 DEF SearchInv, CurrentIsSufficient, Started, Passed, NothingRemovable,
                       NoCancelledEvidence
<1>17. CASE Cancel \/ UNCHANGED vars
  BY <1>16, <1>17 DEF Cancel, vars
<1>18. QED
  BY <1>1, <1>2, <1>3, <1>4, <1>6, <1>7, <1>8, <1>9, <1>11, <1>12, <1>14, <1>15, <1>17
  DEF Next, Minimize

-----------------------------------------------------------------------------
(***************************************************************************)
(* The loops of the dependency graph.  Their functions are recursive: an   *)
(* explicit closed form shows that one exists, and a least counterexample  *)
(* that every one of them computes it.                                     *)
(***************************************************************************)

\* A set of objects with a natural measure has an element of least measure.
LEMMA LeastExists ==
    ASSUME NEW D, NEW m, \A d \in D : m[d] \in Nat, D # {}
    PROVE  \E d \in D : \A e \in D : m[d] <= m[e]
<1> DEFINE Values == {m[d] : d \in D}
           R      == {ss \in Nat \X Nat : ss[1] < ss[2]}
<1>1. Values \subseteq Nat /\ Values # {}
  OBVIOUS
<1>2. IsWellFoundedOn(R, Nat)
  BY NatLessThanWellFounded DEF OpToRel
<1>3. \E n \in Values : \A k \in Values : <<k, n>> \notin R
  <2> HIDE DEF R, Values
  <2>1. QED
    BY <1>1, <1>2, WFMin, Zenon
<1>4. PICK d \in D : \A e \in D : <<m[e], m[d]>> \notin R
  BY <1>3
<1>5. ASSUME NEW e \in D PROVE m[d] <= m[e]
  <2>1. m[d] \in Nat /\ m[e] \in Nat /\ <<m[e], m[d]>> \notin R
    BY <1>4
  <2>2. QED
    BY <2>1
<1>6. QED
  BY <1>5

\* The pairs <<closed, pending>> the closure loop runs through, the function it
\* computes, and what is reached from a pair: the least set that holds closed, the
\* dependencies of what is pending and those of all it adds to closed.
LoopStates == (SUBSET Actions) \X (SUBSET Actions)

IsCloseLoop(hard, f) ==
    f = [w \in LoopStates |->
            IF w[2] = {} THEN w[1]
            ELSE LET a   == CHOOSE x \in w[2] : TRUE
                     new == hard[a] \ w[1]
                 IN  f[<<w[1] \cup new, (w[2] \ {a}) \cup new>>]]

Reaches(hard, closed, pending, T) ==
    closed \subseteq T /\ \A y \in pending \cup (T \ closed) : hard[y] \subseteq T

Reach(hard, closed, pending) ==
    {x \in Actions : \A T \in SUBSET Actions : Reaches(hard, closed, pending, T) => x \in T}

\* One turn of the closure loop leaves what is reached as it is; with nothing
\* pending it is the set in hand.
LEMMA CloseTurn ==
    ASSUME NEW hard \in Graphs, NEW closed \in SUBSET Actions, NEW pending \in SUBSET Actions
    PROVE  /\ pending = {} => Reach(hard, closed, pending) = closed
           /\ \A a \in pending :
                  LET new == hard[a] \ closed
                  IN  Reach(hard, closed \cup new, (pending \ {a}) \cup new)
                          = Reach(hard, closed, pending)
<1>1. ASSUME pending = {} PROVE Reach(hard, closed, pending) = closed
  <2>1. Reaches(hard, closed, pending, closed)
    BY <1>1 DEF Reaches
  <2>2. QED
    BY <2>1 DEF Reach, Reaches
<1>2. ASSUME NEW a \in pending
      PROVE  LET new == hard[a] \ closed
             IN  Reach(hard, closed \cup new, (pending \ {a}) \cup new)
                     = Reach(hard, closed, pending)
  <2> DEFINE new == hard[a] \ closed
  <2>1. ASSUME NEW T \in SUBSET Actions
        PROVE  Reaches(hard, closed \cup new, (pending \ {a}) \cup new, T)
                   <=> Reaches(hard, closed, pending, T)
    <3>1. ASSUME Reaches(hard, closed, pending, T)
          PROVE  Reaches(hard, closed \cup new, (pending \ {a}) \cup new, T)
      <4>1. new \subseteq T \ closed
        BY <3>1 DEF Reaches
      <4>2. QED
        BY <3>1, <4>1 DEF Reaches
    <3>2. ASSUME Reaches(hard, closed \cup new, (pending \ {a}) \cup new, T)
          PROVE  Reaches(hard, closed, pending, T)
      <4>1. hard[a] \subseteq T /\ closed \subseteq T
        BY <3>2 DEF Reaches
      <4>2. ASSUME NEW y \in pending \cup (T \ closed) PROVE hard[y] \subseteq T
        BY <3>2, <4>1, <4>2 DEF Reaches
      <4>3. QED
        BY <4>1, <4>2 DEF Reaches
    <3>3. QED
      BY <3>1, <3>2
  <2>2. QED
    BY <2>1 DEF Reach
<1>3. QED
  BY <1>1, <1>2

\* The closure loop is well defined: what is reached satisfies its equation.
LEMMA CloseLoopExists ==
    ASSUME NEW hard \in Graphs
    PROVE  \E f : IsCloseLoop(hard, f)
<1> DEFINE f == [w \in LoopStates |-> Reach(hard, w[1], w[2])]
<1>1. ASSUME NEW w \in LoopStates
      PROVE  f[w] = IF w[2] = {} THEN w[1]
                    ELSE LET a   == CHOOSE x \in w[2] : TRUE
                             new == hard[a] \ w[1]
                         IN  f[<<w[1] \cup new, (w[2] \ {a}) \cup new>>]
  <2> DEFINE a   == CHOOSE x \in w[2] : TRUE
             new == hard[a] \ w[1]
             u   == <<w[1] \cup new, (w[2] \ {a}) \cup new>>
  <2>1. w[1] \in SUBSET Actions /\ w[2] \in SUBSET Actions
    BY DEF LoopStates
  <2>2. f[w] = Reach(hard, w[1], w[2])
    OBVIOUS
  <2>3. CASE w[2] = {}
    BY <2>1, <2>2, <2>3, CloseTurn
  <2>4. CASE w[2] # {}
    <3>1. a \in w[2]
      BY <2>4
    <3>2. u \in LoopStates
      BY <2>1, <3>1 DEF LoopStates, Graphs
    <3>3. f[u] = Reach(hard, w[1] \cup new, (w[2] \ {a}) \cup new)
      BY <3>2
    <3>4. Reach(hard, w[1] \cup new, (w[2] \ {a}) \cup new) = Reach(hard, w[1], w[2])
      <4> HIDE DEF a
      <4>1. QED
        BY <2>1, <3>1, CloseTurn
    <3>5. QED
      BY <2>2, <2>4, <3>3, <3>4
  <2>5. QED
    BY <2>3, <2>4
<1>2. IsCloseLoop(hard, f)
  BY <1>1 DEF IsCloseLoop
<1>3. QED
  BY <1>2

\* A turn of the closure loop brings it closer to its end: twice the actions not
\* yet in the closed set, and the pending ones.
Work(w) == 2 * Cardinality(Actions \ w[1]) + Cardinality(w[2])

LEMMA CloseLoopAdvances ==
    ASSUME NEW hard \in Graphs, NEW closed \in SUBSET Actions, NEW pending \in SUBSET Actions,
           NEW a \in pending
    PROVE  LET new == hard[a] \ closed
               u   == <<closed \cup new, (pending \ {a}) \cup new>>
           IN  /\ u \in LoopStates
               /\ Work(<<closed, pending>>) \in Nat /\ Work(u) \in Nat
               /\ Work(u) < Work(<<closed, pending>>)
<1> DEFINE new  == hard[a] \ closed
           rest == pending \ {a}
           u    == <<closed \cup new, rest \cup new>>
<1>1. new \subseteq Actions \ closed
  BY DEF Graphs
<1>2. u \in LoopStates
  BY <1>1 DEF LoopStates
<1>3. /\ IsFiniteSet(Actions \ closed) /\ IsFiniteSet(pending)
      /\ IsFiniteSet(new) /\ IsFiniteSet(rest) /\ IsFiniteSet(rest \cup new)
      /\ IsFiniteSet(Actions \ (closed \cup new))
  <2>1. /\ Actions \ closed \subseteq Actions /\ new \subseteq Actions /\ rest \subseteq Actions
        /\ rest \cup new \subseteq Actions /\ Actions \ (closed \cup new) \subseteq Actions
    BY <1>1
  <2> HIDE DEF new, rest
  <2>2. QED
    BY <2>1, ActionsAssumption, FS_Subset
<1>4. /\ Cardinality(Actions \ closed) \in Nat /\ Cardinality(pending) \in Nat
      /\ Cardinality(new) \in Nat /\ Cardinality(rest) \in Nat
      /\ Cardinality(rest \cup new) \in Nat /\ Cardinality(Actions \ (closed \cup new)) \in Nat
  <2> HIDE DEF new, rest
  <2>1. QED
    BY <1>3, FS_CardinalityType
<1>5. Cardinality(rest) = Cardinality(pending) - 1
  BY <1>3, FS_RemoveElement
<1>6. Cardinality(rest \cup new) <= Cardinality(rest) + Cardinality(new)
  <2>1. Cardinality(rest \cup new)
            = Cardinality(rest) + Cardinality(new) - Cardinality(rest \cap new)
    <3> HIDE DEF new, rest
    <3>1. QED
      BY <1>3, FS_Union
  <2>2. Cardinality(rest \cap new) \in Nat
    <3>1. rest \cap new \subseteq rest
      OBVIOUS
    <3> HIDE DEF new, rest
    <3>2. QED
      BY <1>3, <3>1, FS_Subset, FS_CardinalityType
  <2> HIDE DEF new, rest
  <2>3. QED
    BY <1>4, <2>1, <2>2
<1>7. Cardinality(Actions \ (closed \cup new)) = Cardinality(Actions \ closed) - Cardinality(new)
  <2>1. Actions \ (closed \cup new) = (Actions \ closed) \ new
    OBVIOUS
  <2>2. (Actions \ closed) \cap new = new
    BY <1>1
  <2> HIDE DEF new
  <2>3. QED
    BY <1>3, <2>1, <2>2, FS_Difference
<1>8. /\ Work(u) = 2 * Cardinality(Actions \ (closed \cup new)) + Cardinality(rest \cup new)
      /\ Work(<<closed, pending>>) = 2 * Cardinality(Actions \ closed) + Cardinality(pending)
  BY DEF Work
<1>9. Work(u) \in Nat /\ Work(<<closed, pending>>) \in Nat /\ Work(u) < Work(<<closed, pending>>)
  <2> HIDE DEF new, rest, u
  <2>1. QED
    BY <1>4, <1>5, <1>6, <1>7, <1>8
<1>10. QED
  BY <1>2, <1>9

\* Whatever function satisfies the equation of the closure loop computes what is
\* reached: a pair of least work on which it did not would have a successor with
\* less.
LEMMA CloseLoopComputes ==
    ASSUME NEW hard \in Graphs, NEW f, IsCloseLoop(hard, f)
    PROVE  \A w \in LoopStates : f[w] = Reach(hard, w[1], w[2])
<1> DEFINE Wrong == {w \in LoopStates : f[w] # Reach(hard, w[1], w[2])}
           m     == [w \in LoopStates |-> Work(w)]
<1>1. ASSUME Wrong # {} PROVE FALSE
  <2>1. \A w \in LoopStates : m[w] \in Nat
    <3>1. ASSUME NEW w \in LoopStates PROVE Work(w) \in Nat
      <4>1. IsFiniteSet(w[2]) /\ IsFiniteSet(Actions \ w[1])
        <5>1. w[2] \subseteq Actions /\ Actions \ w[1] \subseteq Actions
          BY DEF LoopStates
        <5>2. QED
          BY <5>1, ActionsAssumption, FS_Subset
      <4>2. QED
        BY <4>1, FS_CardinalityType DEF Work
    <3>2. QED
      BY <3>1
  <2>2. PICK w \in Wrong : \A v \in Wrong : m[w] <= m[v]
    <3>1. \A v \in Wrong : m[v] \in Nat
      BY <2>1
    <3> HIDE DEF Wrong, m
    <3>2. QED
      BY <1>1, <3>1, LeastExists
  <2> DEFINE a   == CHOOSE x \in w[2] : TRUE
             new == hard[a] \ w[1]
             u   == <<w[1] \cup new, (w[2] \ {a}) \cup new>>
  <2>3. /\ w \in LoopStates /\ w = <<w[1], w[2]>>
        /\ w[1] \in SUBSET Actions /\ w[2] \in SUBSET Actions
    BY DEF LoopStates
  <2>4. f[w] = IF w[2] = {} THEN w[1] ELSE f[u]
    BY <2>3 DEF IsCloseLoop
  <2>5. w[2] # {}
    BY <2>2, <2>3, <2>4, CloseTurn
  <2>6. a \in w[2]
    BY <2>5
  <2>7. u \in LoopStates /\ Work(u) < Work(w) /\ Work(u) \in Nat /\ Work(w) \in Nat
    BY <2>3, <2>6, CloseLoopAdvances
  <2>8. f[u] = Reach(hard, w[1], w[2])
    <3>1. u \notin Wrong
      <4> HIDE DEF Wrong, u
      <4>1. m[u] = Work(u) /\ m[w] = Work(w)
        BY <2>3, <2>7
      <4> HIDE DEF m
      <4>2. QED
        BY <2>2, <2>7, <4>1
    <3>2. f[u] = Reach(hard, u[1], u[2])
      <4> HIDE DEF u
      <4>1. QED
        BY <2>7, <3>1
    <3>3. Reach(hard, u[1], u[2]) = Reach(hard, w[1], w[2])
      <4>1. Reach(hard, u[1], u[2]) = Reach(hard, w[1] \cup new, (w[2] \ {a}) \cup new)
        OBVIOUS
      <4> HIDE DEF a
      <4>2. Reach(hard, w[1] \cup new, (w[2] \ {a}) \cup new) = Reach(hard, w[1], w[2])
        BY <2>3, <2>6, CloseTurn
      <4>3. QED
        BY <4>1, <4>2
    <3>4. QED
      BY <3>2, <3>3
  <2>9. QED
    BY <2>2, <2>4, <2>5, <2>8
<1>2. QED
  BY <1>1

\* The loop of closure computes the least closed set that holds the candidate.
LEMMA ClosureByLoopIsClosure ==
    ASSUME NEW hard \in Graphs, NEW S \in SUBSET Actions
    PROVE  ClosureByLoop(hard, S) = Closure(hard, S)
<1> DEFINE f == CHOOSE g : IsCloseLoop(hard, g)
<1>1. ClosureByLoop(hard, S) = f[<<S, S>>]
  BY DEF ClosureByLoop, IsCloseLoop, LoopStates
<1>2. IsCloseLoop(hard, f)
  BY CloseLoopExists
<1>3. f[<<S, S>>] = Reach(hard, S, S)
  <2>1. <<S, S>> \in LoopStates
    BY DEF LoopStates
  <2> HIDE DEF f
  <2>2. QED
    BY <1>2, <2>1, CloseLoopComputes
<1>4. ASSUME NEW T \in SUBSET Actions
      PROVE  Reaches(hard, S, S, T) <=> S \subseteq T /\ Closed(hard, T)
  BY DEF Reaches, Closed
<1>5. Reach(hard, S, S) = Closure(hard, S)
  BY <1>4 DEF Reach, Closure
<1>6. QED
  BY <1>1, <1>3, <1>5

\* The same for the loop of remove_with_dependents: its equation, and the least set
\* that holds what is removed and whatever of S requires a member of it.
IsTaintLoop(hard, S, f) ==
    f = [removed \in SUBSET Actions |->
            LET more == {x \in S \ removed : hard[x] \cap removed # {}}
            IN  IF more = {} THEN removed
                ELSE f[removed \cup {CHOOSE x \in more : TRUE}]]

Spreads(hard, S, removed, R) ==
    removed \subseteq R /\ \A x \in S : hard[x] \cap R # {} => x \in R

Tainted(hard, S, removed) ==
    {x \in Actions : \A R \in SUBSET Actions : Spreads(hard, S, removed, R) => x \in R}

\* One turn of the removal loop leaves what is tainted as it is; when nothing more
\* requires a removed action, it is the set in hand.
LEMMA TaintTurn ==
    ASSUME NEW hard \in Graphs, NEW S \in SUBSET Actions, NEW removed \in SUBSET Actions
    PROVE  LET more == {x \in S \ removed : hard[x] \cap removed # {}}
           IN  /\ more = {} => Tainted(hard, S, removed) = removed
               /\ \A x \in more :
                      Tainted(hard, S, removed \cup {x}) = Tainted(hard, S, removed)
<1> DEFINE more == {x \in S \ removed : hard[x] \cap removed # {}}
<1>1. ASSUME more = {} PROVE Tainted(hard, S, removed) = removed
  <2>1. Spreads(hard, S, removed, removed)
    BY <1>1 DEF Spreads
  <2>2. QED
    BY <2>1 DEF Tainted, Spreads
<1>2. ASSUME NEW x \in more
      PROVE  Tainted(hard, S, removed \cup {x}) = Tainted(hard, S, removed)
  <2>1. ASSUME NEW R \in SUBSET Actions
        PROVE  Spreads(hard, S, removed \cup {x}, R) <=> Spreads(hard, S, removed, R)
    <3>1. ASSUME Spreads(hard, S, removed, R) PROVE x \in R
      BY <3>1 DEF Spreads
    <3>2. QED
      BY <3>1 DEF Spreads
  <2>2. QED
    BY <2>1 DEF Tainted
<1>3. QED
  BY <1>1, <1>2

\* The removal loop is well defined: what is tainted satisfies its equation.
LEMMA TaintLoopExists ==
    ASSUME NEW hard \in Graphs, NEW S \in SUBSET Actions
    PROVE  \E f : IsTaintLoop(hard, S, f)
<1> DEFINE f == [removed \in SUBSET Actions |-> Tainted(hard, S, removed)]
<1>1. ASSUME NEW removed \in SUBSET Actions
      PROVE  f[removed] = LET more == {x \in S \ removed : hard[x] \cap removed # {}}
                          IN  IF more = {} THEN removed
                              ELSE f[removed \cup {CHOOSE x \in more : TRUE}]
  <2> DEFINE more == {x \in S \ removed : hard[x] \cap removed # {}}
             x    == CHOOSE y \in more : TRUE
  <2>1. CASE more = {}
    BY <2>1, TaintTurn
  <2>2. CASE more # {}
    <3>1. x \in more
      BY <2>2
    <3>2. removed \cup {x} \in SUBSET Actions
      BY <3>1
    <3>3. Tainted(hard, S, removed \cup {x}) = Tainted(hard, S, removed)
      <4> HIDE DEF x
      <4>1. QED
        BY <3>1, TaintTurn
    <3>4. QED
      BY <2>2, <3>2, <3>3
  <2>3. QED
    BY <2>1, <2>2
<1>2. IsTaintLoop(hard, S, f)
  BY <1>1 DEF IsTaintLoop
<1>3. QED
  BY <1>2

\* Whatever function satisfies the equation of the removal loop computes what is
\* tainted: a set with the fewest actions outside it on which it did not would
\* have a successor with fewer.
LEMMA TaintLoopComputes ==
    ASSUME NEW hard \in Graphs, NEW S \in SUBSET Actions, NEW f, IsTaintLoop(hard, S, f)
    PROVE  \A removed \in SUBSET Actions : f[removed] = Tainted(hard, S, removed)
<1> DEFINE Wrong == {removed \in SUBSET Actions : f[removed] # Tainted(hard, S, removed)}
           m     == [removed \in SUBSET Actions |-> Cardinality(Actions \ removed)]
<1>1. \A removed \in SUBSET Actions :
          IsFiniteSet(Actions \ removed) /\ Cardinality(Actions \ removed) \in Nat
  BY ActionsAssumption, FS_Difference, FS_CardinalityType
<1>2. ASSUME Wrong # {} PROVE FALSE
  <2>1. PICK removed \in Wrong : \A v \in Wrong : m[removed] <= m[v]
    <3>1. \A v \in Wrong : m[v] \in Nat
      BY <1>1
    <3> HIDE DEF Wrong, m
    <3>2. QED
      BY <1>2, <3>1, LeastExists
  <2> DEFINE more == {x \in S \ removed : hard[x] \cap removed # {}}
             x    == CHOOSE y \in more : TRUE
             next == removed \cup {x}
  <2>2. removed \in SUBSET Actions
    OBVIOUS
  <2>3. f[removed] = IF more = {} THEN removed ELSE f[next]
    BY <2>2 DEF IsTaintLoop
  <2>4. more # {}
    BY <2>1, <2>2, <2>3, TaintTurn
  <2>5. x \in more
    BY <2>4
  <2>6. next \in SUBSET Actions
    BY <2>5
  <2>7. Cardinality(Actions \ next) < Cardinality(Actions \ removed)
    <3>1. Actions \ next = (Actions \ removed) \ {x} /\ x \in Actions \ removed
      BY <2>5
    <3> HIDE DEF x, next
    <3>2. Cardinality(Actions \ next) = Cardinality(Actions \ removed) - 1
      <4>1. IsFiniteSet(Actions \ removed)
        BY <1>1, <2>2
      <4> HIDE DEF Wrong, more
      <4>2. Cardinality((Actions \ removed) \ {x}) = Cardinality(Actions \ removed) - 1
        BY ONLY <3>1, <4>1, FS_RemoveElement
      <4>3. QED
        BY <3>1, <4>2
    <3>3. Cardinality(Actions \ removed) \in Nat
      BY <1>1, <2>2
    <3>4. QED
      BY <3>2, <3>3
  <2>8. f[next] = Tainted(hard, S, removed)
    <3>1. next \notin Wrong
      <4> HIDE DEF Wrong, next
      <4>1. /\ m[next] = Cardinality(Actions \ next)
            /\ m[removed] = Cardinality(Actions \ removed)
        BY <2>2, <2>6
      <4>2. Cardinality(Actions \ next) \in Nat /\ Cardinality(Actions \ removed) \in Nat
        BY <1>1, <2>2, <2>6
      <4> HIDE DEF m
      <4>3. QED
        BY <2>1, <2>7, <4>1, <4>2
    <3>2. f[next] = Tainted(hard, S, next)
      <4> HIDE DEF next
      <4>1. QED
        BY <2>6, <3>1
    <3>3. Tainted(hard, S, next) = Tainted(hard, S, removed)
      <4> HIDE DEF x
      <4>1. QED
        BY <2>2, <2>5, TaintTurn
    <3>4. QED
      BY <3>2, <3>3
  <2>9. QED
    BY <2>1, <2>3, <2>4, <2>8
<1>3. QED
  BY <1>2

\* The loop of remove_with_dependents removes the action and all of S that
\* transitively requires it, and nothing else.
LEMMA RemoveByLoopRemoves ==
    ASSUME NEW hard \in Graphs, NEW S \in SUBSET Actions, NEW a \in S
    PROVE  RemoveByLoop(hard, S, a) = RemoveWithDependents(hard, S, a)
<1> DEFINE f == CHOOSE g : IsTaintLoop(hard, S, g)
<1>1. RemoveByLoop(hard, S, a) = S \ f[{a}]
  BY DEF RemoveByLoop, IsTaintLoop
<1>2. IsTaintLoop(hard, S, f)
  BY TaintLoopExists
<1>3. f[{a}] = Tainted(hard, S, {a})
  <2> HIDE DEF f
  <2>1. QED
    BY <1>2, TaintLoopComputes
<1>4. ASSUME NEW R \in SUBSET Actions
      PROVE  Spreads(hard, S, {a}, R) <=> Taints(hard, S, a, R)
  BY DEF Spreads, Taints
<1>5. S \ Tainted(hard, S, {a}) = RemoveWithDependents(hard, S, a)
  BY <1>4 DEF Tainted, RemoveWithDependents
<1>6. QED
  BY <1>1, <1>3, <1>5

-----------------------------------------------------------------------------
(***************************************************************************)
(* Theorems                                                                *)
(***************************************************************************)

\* The evidence is in order in every state.
LEMMA SearchIsSound == Spec => []SearchInv
<1>1. Init => SearchInv
  BY DEF Init, SearchInv, CurrentIsSufficient, Started, NothingRemovable, NoCancelledEvidence
<1>2. TypeOK /\ SearchInv /\ [Next]_vars => SearchInv'
  BY SearchStep
<1>3. QED
  BY <1>1, <1>2, TypeCorrect, PTL DEF Spec

\* Once the search has begun, the set in hand is closed, passed stably in some
\* trial and is not empty.
THEOREM SetIsSufficient == Spec => []CurrentIsSufficient
<1>1. SearchInv => CurrentIsSufficient
  BY DEF SearchInv
<1>2. QED
  BY <1>1, SearchIsSound, PTL

\* A report is dependency-constrained 1-minimal, as far as trials can tell.
THEOREM MinimalityIsRecorded == Spec => []ReportIsMinimal
<1>1. SearchInv => ReportIsMinimal
  BY DEF SearchInv, ReportIsMinimal, Recorded
<1>2. QED
  BY <1>1, SearchIsSound, PTL

\* The error "remained removable" is unreachable.
THEOREM AblationAgrees == Spec => []NothingRemovable
<1>1. SearchInv => NothingRemovable
  BY DEF SearchInv
<1>2. QED
  BY <1>1, SearchIsSound, PTL

\* No cancelled trial is part of a report.
THEOREM EvidenceIsNotCancelled == Spec => []NoCancelledEvidence
<1>1. SearchInv => NoCancelledEvidence
  BY DEF SearchInv
<1>2. QED
  BY <1>1, SearchIsSound, PTL

\* The set in hand never grows.
THEOREM SetShrinks == Spec => OnlyShrinks
<1>1. TypeOK /\ SearchInv /\ [Next]_vars => [Started => current' \subseteq current]_vars
  BY SearchStep
<1>2. QED
  BY <1>1, TypeCorrect, SearchIsSound, PTL DEF Spec, OnlyShrinks

\* closure and remove_with_dependents compute, for every graph and every candidate,
\* the least sets the minimizer is modelled with: their loops end, whatever order
\* they take the actions in, and neither keeps nor removes an action too many.
THEOREM LoopsCorrect == Spec => []LoopsComputeLeast
<1>1. LoopsComputeLeast
  BY ClosureByLoopIsClosure, RemoveByLoopRemoves DEF LoopsComputeLeast
<1>2. QED
  BY <1>1, PTL
=============================================================================
