------------------------------ MODULE Minimizer ------------------------------
(***************************************************************************)
(* minimize_with_graph: the trials of the empty and of the full action     *)
(* set, ddmin, the one-by-one reduction, the ablations and the final trial *)
(* without the cache.  One step evaluates one candidate or ends a loop.    *)
(* What a trial answers is the environment's choice, each time anew: only  *)
(* the cache makes two evaluations of one candidate agree.                 *)
(***************************************************************************)
EXTENDS DependencyGraph, Sequences

CONSTANT Inferred   \* the graphs DependencyGraph::infer may have found

ASSUME InferredAssumption == Inferred \subseteq Graphs

VARIABLES
    deps,         \* hard_dependencies
    cancelled,    \* the cancellation token
    cache,        \* TrialCache: the outcome of each candidate evaluated so far
    at,           \* where minimize_with_graph is
    current,      \* ddmin's current, then minimal
    granularity,
    index,        \* the next partition, in "subsets" and "complements"
    tried         \* the actions already tried, in "reduce" and "ablate"

vars == <<deps, cancelled, cache, at, current, granularity, index, tried>>

\* "flaky" stands for Unresolved too: nothing here tells the two apart.
Outcomes == {"stable_pass", "stable_fail", "flaky", "cancelled"}

Normalize(S) == Closure(deps, S)

\* Mutant of Without: the action is taken out of the full set.
WithoutInFull(a) == RemoveWithDependents(deps, Actions, a)

Without(a) == RemoveWithDependents(deps, current, a)

\* ordered_ids(S) in `count` runs of almost the same length, the longer first.
Partition(S, count) ==
    LET rank(x) == Cardinality({y \in S : y <= x})
        parts == IF count < Cardinality(S) THEN count ELSE Cardinality(S)
        base == Cardinality(S) \div parts
        extra == Cardinality(S) % parts
        End(i) == i * base + IF i < extra THEN i ELSE extra
    IN  [i \in 1..parts |-> {x \in S : rank(x) \in End(i - 1) + 1 .. End(i)}]

Init ==
    /\ deps \in Inferred
    /\ cancelled = FALSE
    /\ cache = <<>>
    /\ at = "empty"
    /\ current = {}
    /\ granularity = 2
    /\ index = 1
    /\ tried = {}

\* A trial that has not been run yet: it is cancelled if and only if the token is.
Trial(outcome) ==
    IF cancelled THEN outcome = "cancelled" ELSE outcome \in Outcomes \ {"cancelled"}

RunAndCache(S, outcome) ==
    /\ Trial(outcome)
    /\ cache' = [T \in DOMAIN cache \cup {S} |-> IF T = S THEN outcome ELSE cache[T]]

\* Mutant of Evaluate: the key of the cache counts the actions, it does not name them.
EvaluateByCount(candidate, outcome) ==
    \E S \in {Normalize(candidate)} :
        IF \E T \in DOMAIN cache : Cardinality(T) = Cardinality(S)
        THEN /\ \E T \in DOMAIN cache :
                    Cardinality(T) = Cardinality(S) /\ outcome = cache[T]
             /\ UNCHANGED cache
        ELSE RunAndCache(S, outcome)

\* evaluate: the cached outcome, or that of a trial which is then cached.
Evaluate(candidate, outcome) ==
    \E S \in {Normalize(candidate)} :
        IF S \in DOMAIN cache
        THEN outcome = cache[S] /\ UNCHANGED cache
        ELSE RunAndCache(S, outcome)

\* The empty set has to fail stably and the full set to pass stably.
TryEmpty ==
    /\ at = "empty"
    /\ \E outcome \in Outcomes :
        /\ Evaluate({}, outcome)
        /\ at' = IF outcome = "stable_fail" THEN "full" ELSE "error"
    /\ UNCHANGED <<deps, cancelled, current, granularity, index, tried>>

\* The head of ddmin's loop.
Round(S) == IF Cardinality(S) >= 2 THEN "subsets" ELSE "reduce"

TryFull ==
    /\ at = "full"
    /\ \E outcome \in Outcomes :
        /\ Evaluate(Actions, outcome)
        /\ IF outcome = "stable_pass"
           THEN at' = Round(Actions) /\ current' = Actions
           ELSE at' = "error" /\ UNCHANGED current
    /\ UNCHANGED <<deps, cancelled, granularity, index, tried>>

\* Mutant of DdminTry: a candidate passes unless it fails stably.
DdminAcceptsFlaky(candidate) ==
    IF Cardinality(candidate) >= Cardinality(current)
    THEN index' = index + 1 /\ UNCHANGED <<cache, at, current, granularity>>
    ELSE \E outcome \in Outcomes :
        /\ Evaluate(candidate, outcome)
        /\ IF outcome # "stable_fail"
           THEN /\ current' = candidate
                /\ granularity' = IF granularity > 2 THEN granularity - 1 ELSE 2
                /\ index' = 1
                /\ at' = Round(candidate)
           ELSE index' = index + 1 /\ UNCHANGED <<at, current, granularity>>

\* Mutant of DdminTry: the granularity has no lower bound.
DdminCoarsens(candidate) ==
    IF Cardinality(candidate) >= Cardinality(current)
    THEN index' = index + 1 /\ UNCHANGED <<cache, at, current, granularity>>
    ELSE \E outcome \in Outcomes :
        /\ Evaluate(candidate, outcome)
        /\ IF outcome = "stable_pass"
           THEN /\ current' = candidate
                /\ granularity' = granularity - 1
                /\ index' = 1
                /\ at' = Round(candidate)
           ELSE index' = index + 1 /\ UNCHANGED <<at, current, granularity>>

\* A candidate of ddmin: only a smaller one is evaluated, and one that passes
\* stably becomes the current set of the next round.
DdminTry(candidate) ==
    IF Cardinality(candidate) >= Cardinality(current)
    THEN index' = index + 1 /\ UNCHANGED <<cache, at, current, granularity>>
    ELSE \E outcome \in Outcomes :
        /\ Evaluate(candidate, outcome)
        /\ IF outcome = "stable_pass"
           THEN /\ current' = candidate
                /\ granularity' = IF granularity > 2 THEN granularity - 1 ELSE 2
                /\ index' = 1
                /\ at' = Round(candidate)
           ELSE index' = index + 1 /\ UNCHANGED <<at, current, granularity>>

Partitions == Partition(current, granularity)

TrySubset ==
    /\ at = "subsets"
    /\ index <= Len(Partitions)
    /\ \E S \in {Normalize(Partitions[index])} : DdminTry(S)
    /\ UNCHANGED <<deps, cancelled, tried>>

SubsetsTried ==
    /\ at = "subsets"
    /\ index > Len(Partitions)
    /\ at' = "complements"
    /\ index' = 1
    /\ UNCHANGED <<deps, cancelled, cache, current, granularity, tried>>

TryComplement ==
    /\ at = "complements"
    /\ index <= Len(Partitions)
    /\ \E S \in {Normalize(current \ Partitions[index])} : DdminTry(S)
    /\ UNCHANGED <<deps, cancelled, tried>>

\* Mutant of ComplementsTried: ddmin goes on at the finest granularity.
RefineForever ==
    /\ at = "complements"
    /\ index > Len(Partitions)
    /\ index' = 1
    /\ at' = "subsets"
    /\ granularity' = IF 2 * granularity < Cardinality(current)
                      THEN 2 * granularity ELSE Cardinality(current)
    /\ UNCHANGED <<deps, cancelled, cache, current, tried>>

\* A round without a reduction doubles the granularity, up to single actions.
ComplementsTried ==
    /\ at = "complements"
    /\ index > Len(Partitions)
    /\ index' = 1
    /\ IF granularity >= Cardinality(current)
       THEN at' = "reduce" /\ UNCHANGED granularity
       ELSE /\ at' = "subsets"
            /\ granularity' = IF 2 * granularity < Cardinality(current)
                              THEN 2 * granularity ELSE Cardinality(current)
    /\ UNCHANGED <<deps, cancelled, cache, current, tried>>

\* The next action of the pass, in the original order.
IsNext(a) == a \in current \ tried /\ \A b \in current \ tried : a <= b

\* The one-by-one pass starts over with what is left after a reduction.
Reduce(a) ==
    /\ at = "reduce"
    /\ IsNext(a)
    /\ \E outcome \in Outcomes, S \in {Without(a)} :
        /\ Evaluate(S, outcome)
        /\ IF outcome = "stable_pass"
           THEN current' = S /\ tried' = {}
           ELSE tried' = tried \cup {a} /\ UNCHANGED current
    /\ UNCHANGED <<deps, cancelled, at, granularity, index>>

Reduced ==
    /\ at = "reduce"
    /\ current \subseteq tried
    /\ at' = "ablate"
    /\ tried' = {}
    /\ UNCHANGED <<deps, cancelled, cache, current, granularity, index>>

\* Mutant of Ablate: the ablations are run anew, past the cache.
AblateAnew(a) ==
    /\ at = "ablate"
    /\ IsNext(a)
    /\ \E outcome \in Outcomes, S \in {Without(a)} :
        /\ RunAndCache(S, outcome)
        /\ IF outcome = "stable_pass"
           THEN at' = "removable" /\ UNCHANGED tried
           ELSE tried' = tried \cup {a} /\ UNCHANGED at
    /\ UNCHANGED <<deps, cancelled, current, granularity, index>>

\* An ablation that passes is an error: the action "remained removable".
Ablate(a) ==
    /\ at = "ablate"
    /\ IsNext(a)
    /\ \E outcome \in Outcomes, S \in {Without(a)} :
        /\ Evaluate(S, outcome)
        /\ IF outcome = "stable_pass"
           THEN at' = "removable" /\ UNCHANGED tried
           ELSE tried' = tried \cup {a} /\ UNCHANGED at
    /\ UNCHANGED <<deps, cancelled, current, granularity, index>>

Ablated ==
    /\ at = "ablate"
    /\ current \subseteq tried
    /\ at' = "final"
    /\ UNCHANGED <<deps, cancelled, cache, current, granularity, index, tried>>

\* Mutant of TryFinal: the final trial is not required to pass.
TryFinalUnchecked ==
    /\ at = "final"
    /\ \E outcome \in Outcomes : Trial(outcome)
    /\ at' = "done"
    /\ UNCHANGED <<deps, cancelled, cache, current, granularity, index, tried>>

\* The final trial is run anew and has to pass stably.
TryFinal ==
    /\ at = "final"
    /\ \E outcome \in Outcomes :
        /\ Trial(outcome)
        /\ at' = IF outcome = "stable_pass" THEN "done" ELSE "error"
    /\ UNCHANGED <<deps, cancelled, cache, current, granularity, index, tried>>

Ended == {"done", "error", "removable"}

\* A trial that cannot be run ends the minimization with its error.
TrialFails ==
    /\ at \notin Ended
    /\ at' = "error"
    /\ UNCHANGED <<deps, cancelled, cache, current, granularity, index, tried>>

\* task/cancel, a denied approval or Ctrl+C.
Cancel ==
    /\ ~cancelled
    /\ cancelled' = TRUE
    /\ UNCHANGED <<deps, cache, at, current, granularity, index, tried>>

Minimize ==
    \/ TryEmpty \/ TryFull
    \/ TrySubset \/ SubsetsTried \/ TryComplement \/ ComplementsTried
    \/ \E a \in Actions : Reduce(a) \/ Ablate(a)
    \/ Reduced \/ Ablated \/ TryFinal

Next == Minimize \/ TrialFails \/ Cancel

Spec == Init /\ [][Next]_vars

\* The future that runs minimize is polled until it is done.
FairSpec == Spec /\ WF_vars(Minimize)

-----------------------------------------------------------------------------
(***************************************************************************)
(* Properties                                                              *)
(***************************************************************************)

TypeOK ==
    /\ deps \in Graphs
    /\ cancelled \in BOOLEAN
    /\ DOMAIN cache \subseteq SUBSET Actions
    /\ \A S \in DOMAIN cache : cache[S] \in Outcomes
    /\ at \in {"empty", "full", "subsets", "complements", "reduce", "ablate", "final"} \cup Ended
    /\ current \subseteq Actions
    /\ granularity \in Nat \ {0, 1}
    /\ index \in Nat \ {0}
    /\ tried \subseteq Actions

Started == at \notin {"empty", "full", "error"}

Passed(S) == S \in DOMAIN cache /\ cache[S] = "stable_pass"

\* At every moment of the search the set in hand is closed under dependencies
\* and some trial of exactly that set passed stably; it is never empty, because
\* the empty set is remembered to fail.
CurrentIsSufficient ==
    Started => Closed(deps, current) /\ Passed(current) /\ current # {}

\* The report is dependency-constrained 1-minimal: for each of its actions, the
\* trial without it and its dependents is on record and did not pass stably.
ReportIsMinimal ==
    at = "done" =>
        \A a \in current : Without(a) \in DOMAIN cache /\ ~Passed(Without(a))

\* The search never meets its own error "remained removable", however flaky the
\* trials are: the ablations repeat the last reduction pass out of the cache.
NothingRemovable == at # "removable"

\* A cancelled trial is never evidence: a report has none.
NoCancelledEvidence ==
    at = "done" => \A S \in DOMAIN cache : cache[S] # "cancelled"

\* Once the search has begun, the set in hand only shrinks.
OnlyShrinks == [][Started => current' \subseteq current]_vars

\* The search ends, whatever the trials answer, if each of them answers: a process that
\* holds the pipes of a command can keep one, and so the search, for ever (HeldOpen of
\* Replay, where WorkEnds of Workbench excuses it).
Terminates == <>(at \in Ended)

\* The loops of the code compute the least sets this module uses.
LoopsComputeLeast ==
    at = "empty" =>
        \A graph \in Graphs, S \in SUBSET Actions :
            /\ ClosureByLoop(graph, S) = Closure(graph, S)
            /\ \A a \in S : RemoveByLoop(graph, S, a) = RemoveWithDependents(graph, S, a)
=============================================================================
