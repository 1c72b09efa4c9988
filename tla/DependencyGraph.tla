--------------------------- MODULE DependencyGraph ---------------------------
(***************************************************************************)
(* The hard dependencies between recorded actions, and the two operations  *)
(* the minimizer is built on.  The code computes both with a loop that     *)
(* runs until nothing changes; here they are the least sets those loops    *)
(* compute, and ClosureByLoop and RemoveByLoop are the loops.              *)
(***************************************************************************)
EXTENDS Integers, FiniteSets

CONSTANT Actions   \* action ids, numbered in their original order

ASSUME ActionsAssumption == Actions \subseteq Nat /\ IsFiniteSet(Actions)

\* deps[a]: the earlier actions that a directly requires.
Graphs == {deps \in [Actions -> SUBSET Actions] :
              \A a \in Actions : \A d \in deps[a] : d < a}

Closed(deps, S) == \A a \in S : deps[a] \subseteq S

\* Mutant of Closure: only the direct dependencies are added.
ClosureOnce(deps, S) == S \cup UNION {deps[a] : a \in S}

\* The least closed set that contains S.
Closure(deps, S) ==
    {x \in Actions : \A T \in SUBSET Actions : S \subseteq T /\ Closed(deps, T) => x \in T}

\* R holds a and every member of S that requires a member of R.
Taints(deps, S, a, R) ==
    /\ a \in R
    /\ \A x \in S : deps[x] \cap R # {} => x \in R

\* What is left of S without a and all that transitively requires a.
RemoveWithDependents(deps, S, a) ==
    S \ {x \in S : \A R \in SUBSET Actions : Taints(deps, S, a, R) => x \in R}

\* The loop of closure: the dependencies of each pending action, in whatever order.
ClosureByLoop(deps, S) ==
    LET Close[w \in (SUBSET Actions) \X (SUBSET Actions)] ==   \* <<closed, pending>>
            IF w[2] = {} THEN w[1]
            ELSE LET a   == CHOOSE x \in w[2] : TRUE
                     new == deps[a] \ w[1]
                 IN  Close[<<w[1] \cup new, (w[2] \ {a}) \cup new>>]
    IN  Close[<<S, S>>]

\* The loop of remove_with_dependents: whatever requires a removed action is removed,
\* until nothing changes.
RemoveByLoop(deps, S, a) ==
    LET Taint[removed \in SUBSET Actions] ==
            LET more == {x \in S \ removed : deps[x] \cap removed # {}}
            IN  IF more = {} THEN removed
                ELSE Taint[removed \cup {CHOOSE x \in more : TRUE}]
    IN  S \ Taint[{a}]
=============================================================================
