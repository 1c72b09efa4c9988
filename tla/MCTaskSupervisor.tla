-------------------------- MODULE MCTaskSupervisor --------------------------
(***************************************************************************)
(* Instances of TaskSupervisor for TLC: one session, so that its tasks     *)
(* contend; two operation ids, so that a second call is a retry of the     *)
(* first or another operation.                                             *)
(***************************************************************************)
EXTENDS TaskSupervisor, TLC

CONSTANTS s1, o1, o2, r1

Asked(s, o) == [session |-> s, operation |-> o, request |-> r1]

MCOneInput    == {Asked(s1, o1)}
MCInputs      == {Asked(s1, o1), Asked(s1, o2)}
MCMixedInputs == {Asked(s1, o1), Asked(NoSession, o2)}

\* Task ids, clients and operation ids are interchangeable in a safety run.
Symmetry == Permutations(Tasks) \cup Permutations(Clients) \cup Permutations(Operations)
=============================================================================
