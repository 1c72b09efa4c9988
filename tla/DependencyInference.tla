-------------------------- MODULE DependencyInference --------------------------
(***************************************************************************)
(* DependencyGraph::infer: what each recorded action requires of the       *)
(* earlier ones, and what an action does to the context it is replayed in  *)
(* (the working directory, the environment, the files written by patches). *)
(* A journal is the sequence of the recorded actions; an action is named   *)
(* by its place in it.  What a shell command does to files is opaque here, *)
(* as it is to the code.                                                   *)
(***************************************************************************)
EXTENDS DependencyGraph, Ordering, SequencesExt

CONSTANTS
    Root,       \* the empty path: the project itself
    Baseline,   \* the files the baseline has
    Unset       \* the value of a variable that is not set

\* kind: "cd" (to arg), "env" (arg becomes value, or Unset), "patch" (file arg is
\* written, or deleted if value = Unset), "shell" (reads variables and files).
ActionRecord(kind, arg, value, env, files) ==
    [kind |-> kind, arg |-> arg, value |-> value, env |-> env, files |-> files]

Fresh == [cwd |-> Root, env |-> <<>>, files |-> Baseline]

Bind(env, key, value) ==
    [k \in DOMAIN env \cup {key} |-> IF k = key THEN value ELSE env[k]]

\* The context after an action: ReplayState::environment, cwd, and the patched file.
Effect(context, a) ==
    CASE a.kind = "cd"    -> [context EXCEPT !.cwd = a.arg]
      [] a.kind = "env"   -> [context EXCEPT !.env = Bind(@, a.arg, a.value)]
      [] a.kind = "patch" -> [context EXCEPT !.files = IF a.value = Unset THEN @ \ {a.arg}
                                                                          ELSE @ \cup {a.arg}]
      [] a.kind = "shell" -> context

\* What actions S of a journal do to the directory, to a variable and to a file.
DirectoryChanges(journal, S) == {k \in S : journal[k].kind = "cd"}
Settings(journal, S, key) == {k \in S : journal[k].kind = "env" /\ journal[k].arg = key}
Patches(journal, S, path) == {k \in S : journal[k].kind = "patch" /\ journal[k].arg = path}
Deletions(journal, S, path) == {k \in Patches(journal, S, path) : journal[k].value = Unset}
Writes(journal, S, path) == Patches(journal, S, path) \ Deletions(journal, S, path)

\* The context that actions S leave, performed in their order: the last change of the
\* directory and of each variable holds, and a file is there unless a deletion is the
\* last that was done to it.  That this is one Effect after the other is AfterOne.
After(journal, S) ==
    LET cds == DirectoryChanges(journal, S)
        keys == {journal[k].arg : k \in {k \in S : journal[k].kind = "env"}}
        paths == {journal[k].arg : k \in {k \in S : journal[k].kind = "patch"}}
    IN  [cwd   |-> IF cds = {} THEN Root ELSE journal[LastOf(cds)].arg,
         env   |-> [key \in keys |-> journal[LastOf(Settings(journal, S, key))].value],
         files |-> {path \in Baseline \cup paths :
                       /\ path \in Baseline \/ Writes(journal, S, path) # {}
                       /\ \A d \in Deletions(journal, S, path) :
                             \E w \in Writes(journal, S, path) : d < w}]

\* The context in which action i was recorded.
Recorded(journal, i) == After(journal, 1..(i - 1))

CwdBefore(journal, i) == Recorded(journal, i).cwd

ValueOf(context, key) == IF key \in DOMAIN context.env THEN context.env[key] ELSE Unset

EnvironmentWriter(journal, i, key) == Latest(Settings(journal, 1..(i - 1), key))

\* Mutant of CwdWriter: the first change to that directory, not the last.
FirstCwdWriter(journal, i) ==
    Earliest({k \in DirectoryChanges(journal, 1..(i - 1)) :
                  journal[k].arg = CwdBefore(journal, i)})

\* cwd_writers.get(&action.cwd_before)
CwdWriter(journal, i) ==
    Latest({k \in DirectoryChanges(journal, 1..(i - 1)) : journal[k].arg = CwdBefore(journal, i)})

\* created_by.get(path): the first patch that wrote the file since a patch deleted
\* it.  Files of the baseline have no creator.
CreatedBy(journal, i, path) ==
    IF path \in Baseline THEN {}
    ELSE Earliest({k \in Writes(journal, 1..(i - 1), path) :
                      \A d \in Deletions(journal, 1..(i - 1), path) : d < k})

\* infer_resources: the variables, files and the directory an action reads.
ReadsEnvironment(a) == IF a.kind = "shell" THEN a.env ELSE {}

ReadsFiles(a) == CASE a.kind = "shell" -> a.files
                   [] a.kind \in {"cd", "patch"} -> {a.arg}
                   [] a.kind = "env" -> {}

ReadsDirectory(journal, i) == journal[i].kind = "shell" \/ CwdBefore(journal, i) # Root

Requires(journal, i) ==
    (UNION {EnvironmentWriter(journal, i, key) : key \in ReadsEnvironment(journal[i])})
    \cup (UNION {CreatedBy(journal, i, path) : path \in ReadsFiles(journal[i])})
    \cup (IF ReadsDirectory(journal, i) THEN CwdWriter(journal, i) ELSE {})

Infer(journal) == [i \in 1..Len(journal) |-> Requires(journal, i)]
================================================================================
