-------------------------------- MODULE Replay --------------------------------
(***************************************************************************)
(* One trial: TrialRunner::run, which replays a candidate in a sandbox     *)
(* once per repetition and asks the oracle, and run_shell_command, which   *)
(* runs a command and deals with its timeout, its cancellation and the     *)
(* processes it leaves behind.  What a command or the oracle answers, how  *)
(* long it takes and what it forks is the environment's choice.            *)
(***************************************************************************)
EXTENDS DependencyInference

CONSTANTS
    Plans,        \* the trials: [journal, chosen, forks], forks: commands may fork
    Repetitions

\* A trial is of actions of its journal, and has at least one repetition
\* (TrialRunner::new).  The minimizer closes its candidates under what they require;
\* the agent and RunTrial take what they are given.
ReplayAssumption ==
    /\ Repetitions \in Nat \ {0}
    /\ \A p \in Plans :
          /\ Len(p.journal) \in Nat /\ DOMAIN p.journal = 1..Len(p.journal)
          /\ \A i \in DOMAIN p.journal :
                p.journal[i].kind \in {"cd", "env", "patch", "shell"}
          /\ p.chosen \subseteq DOMAIN p.journal

VARIABLES
    plan,
    token,        \* the cancellation token
    stage,        \* where the runner is
    position,     \* how many of the chosen actions this attempt has dealt with
    context,      \* ReplayState
    attempts,     \* the attempts made: what ran, the oracle's evidence, the error
    shell,        \* the shell of the command under way
    descendant,   \* a process that a command has forked
    outcome

replayVars == <<plan, token, stage, position, context, attempts, shell, descendant, outcome>>

Nobody == [alive |-> FALSE, holds |-> FALSE, heeds |-> "nothing"]

\* holds: has the pipes open; heeds: SIGTERM, only SIGKILL, or nothing that is sent
\* to the group (it left the group, or its group is that of an earlier command).
Descendants == [alive : {TRUE}, holds : BOOLEAN, heeds : {"term", "kill", "nothing"}]

\* why: what ended the wait for the shell; code: how the shell ended.
NoShell == [state |-> "none", why |-> "exit", code |-> "zero"]

ShellStates == [state : {"none", "running", "terminating", "dead"},
           why : {"exit", "timeout", "cancel"}, code : {"zero", "other"}]

\* The i-th of the chosen actions, in their original order.
Chosen(i) == Nth(plan.chosen, i)

Size == Cardinality(plan.chosen)
Action == plan.journal[Chosen(position + 1)]
Expected == CwdBefore(plan.journal, Chosen(position + 1))

Init ==
    /\ plan \in Plans
    /\ token = FALSE
    /\ stage = "attempt"
    /\ position = 0
    /\ context = Fresh
    /\ attempts = <<>>
    /\ shell = NoShell
    /\ descendant = Nobody
    /\ outcome = "none"

\* Somebody cancels the task.
CancelToken ==
    /\ stage \notin {"done", "failed"}
    /\ token' = TRUE
    /\ UNCHANGED <<plan, stage, position, context, attempts, shell, descendant, outcome>>

\* A repetition begins with a copy of the baseline, unless the token stops it.
BeginAttempt ==
    /\ stage = "attempt" /\ ~token
    /\ stage' = "action"
    /\ position' = 0
    /\ context' = Fresh
    /\ UNCHANGED <<plan, token, attempts, shell, descendant, outcome>>

\* The copy fails or its hash is not the baseline's: there is no trial.
CopyFails ==
    /\ stage = "attempt" /\ ~token
    /\ stage' = "failed"
    /\ UNCHANGED <<plan, token, position, context, attempts, shell, descendant, outcome>>

\* The attempt's record, and the end of the loop on an error or a cancelled token.
Attempt(oracle, error) == [actions |-> position, oracle |-> oracle, error |-> error]

Record(attempt) ==
    /\ attempts' = Append(attempts, attempt)
    /\ stage' = IF token \/ attempt.error \/ Len(attempts) + 1 = Repetitions
                THEN "classify" ELSE "attempt"
    /\ UNCHANGED <<plan, token, position, context, descendant, outcome>>

\* replay_action refuses an action recorded in another directory, or a snapshot or a
\* step of it fails: the attempt has an error and no oracle.
ActionFails ==
    /\ stage = "action" /\ position < Size
    /\ Record(Attempt("none", TRUE))
    /\ UNCHANGED shell

\* The token is read before each action: a cancelled result, and the end of the loop.
ActionCancelled ==
    /\ stage = "action" /\ position < Size
    /\ Expected = context.cwd
    /\ token
    /\ Record(Attempt("none", FALSE))
    /\ UNCHANGED shell

\* cd, export, unset and patches happen in the runner itself.
PerformInternal ==
    /\ stage = "action" /\ position < Size
    /\ Expected = context.cwd
    /\ ~token
    /\ Action.kind # "shell"
    /\ context' = Effect(context, Action)
    /\ position' = position + 1
    /\ UNCHANGED <<plan, token, stage, attempts, shell, descendant, outcome>>

\* The child of a shell action, or of the oracle after the last action.
Spawn ==
    /\ stage = "action"
    /\ ~token
    /\ position < Size => Expected = context.cwd /\ Action.kind = "shell"
    /\ shell' = [NoShell EXCEPT !.state = "running"]
    /\ stage' = IF position < Size THEN "command" ELSE "oracle"
    /\ UNCHANGED <<plan, token, position, context, attempts, descendant, outcome>>

\* The token was cancelled between the last action and the oracle, or the oracle
\* could not be started.
NoOracle ==
    /\ stage = "action" /\ position = Size
    /\ \/ token /\ Record(Attempt("none", FALSE))
       \/ ~token /\ Record(Attempt("none", TRUE))
    /\ UNCHANGED shell

InCommand == stage \in {"command", "oracle"}

\* One descendant is followed at a time (the bound on forks).
Fork ==
    /\ InCommand /\ plan.forks /\ shell.state = "running"
    /\ ~descendant.alive
    /\ descendant' \in Descendants
    /\ UNCHANGED <<plan, token, stage, position, context, attempts, shell, outcome>>

DescendantExits ==
    /\ descendant.alive
    /\ stage \notin {"done", "failed"}
    /\ descendant' = Nobody
    /\ UNCHANGED <<plan, token, stage, position, context, attempts, shell, outcome>>

ShellExits ==
    /\ InCommand /\ shell.state = "running"
    /\ \E code \in {"zero", "other"} : shell' = [shell EXCEPT !.state = "dead", !.code = code]
    /\ UNCHANGED <<plan, token, stage, position, context, attempts, descendant, outcome>>

Kill(signals) ==
    descendant' = IF descendant.heeds \in signals THEN Nobody ELSE descendant

\* The select hears the token or the timeout: killpg(SIGTERM), and two seconds.
Terminate ==
    /\ InCommand /\ shell.state = "running"
    /\ \E why \in {"timeout"} \cup (IF token THEN {"cancel"} ELSE {}) :
           shell' = [shell EXCEPT !.state = "terminating", !.why = why]
    /\ Kill({"term"})
    /\ UNCHANGED <<plan, token, stage, position, context, attempts, outcome>>

\* The shell heeds SIGTERM within the grace period: nothing else is sent.
ShellHeeds ==
    /\ shell.state = "terminating"
    /\ shell' = [shell EXCEPT !.state = "dead", !.code = "other"]
    /\ UNCHANGED <<plan, token, stage, position, context, attempts, descendant, outcome>>

\* Mutant of GraceOver: the shell is waited for, and never killed.
GraceWaits ==
    /\ shell.state = "terminating"
    /\ UNCHANGED replayVars

\* It does not: killpg(SIGKILL).
GraceOver ==
    /\ shell.state = "terminating"
    /\ shell' = [shell EXCEPT !.state = "dead", !.code = "other"]
    /\ Kill({"term", "kill"})
    /\ UNCHANGED <<plan, token, stage, position, context, attempts, outcome>>

\* join_output: the pipes are read until nobody has them open, however long it takes.
\* A descendant that stays behind is out of reach of the next command's signals.
OutputRead == shell.state = "dead" /\ ~descendant.holds

LeftBehind == IF descendant.alive THEN [descendant EXCEPT !.heeds = "nothing"] ELSE Nobody

\* The evidence of a shell action: a cancelled one ends the attempt, a timeout does not.
CommandEnds ==
    /\ stage = "command" /\ OutputRead
    /\ IF shell.why = "cancel"
       THEN /\ attempts' = Append(attempts, Attempt("none", FALSE))
            /\ stage' = "classify"
            /\ UNCHANGED position
       ELSE /\ position' = position + 1
            /\ stage' = "action"
            /\ UNCHANGED attempts
    /\ shell' = NoShell
    /\ descendant' = LeftBehind
    /\ UNCHANGED <<plan, token, context, outcome>>

\* ProcessEvidence::passed, or why the evidence is no answer.
Evidence == CASE shell.why = "timeout" -> "timed_out"
              [] shell.why = "cancel" -> "cancelled"
              [] shell.why = "exit" -> IF shell.code = "zero" THEN "passed" ELSE "not_passed"

OracleEnds ==
    /\ stage = "oracle" /\ OutputRead
    /\ attempts' = Append(attempts, Attempt(Evidence, FALSE))
    /\ stage' = IF token \/ Len(attempts) + 1 = Repetitions THEN "classify" ELSE "attempt"
    /\ shell' = NoShell
    /\ descendant' = LeftBehind
    /\ UNCHANGED <<plan, token, position, context, outcome>>

\* The token was cancelled before a repetition.
StopRepeating ==
    /\ stage = "attempt" /\ token
    /\ stage' = "classify"
    /\ UNCHANGED <<plan, token, position, context, attempts, shell, descendant, outcome>>

All(answer) == \A i \in DOMAIN attempts : attempts[i].oracle = answer

\* Mutant of Outcome: an oracle that ran out of time has answered.
OutcomeWithTimeouts ==
    IF token THEN "cancelled"
    ELSE IF \E i \in DOMAIN attempts : attempts[i].oracle \in {"none", "cancelled"}
    THEN "unresolved"
    ELSE IF All("passed") THEN "stable_pass"
    ELSE IF \A i \in DOMAIN attempts : attempts[i].oracle # "passed" THEN "stable_fail" ELSE "flaky"

\* classify_outcome
Outcome ==
    IF token THEN "cancelled"
    ELSE IF \/ Len(attempts) # Repetitions
            \/ \E i \in DOMAIN attempts :
                  attempts[i].error \/ attempts[i].oracle \notin {"passed", "not_passed"}
    THEN "unresolved"
    ELSE IF All("passed") THEN "stable_pass"
    ELSE IF All("not_passed") THEN "stable_fail" ELSE "flaky"

Classify ==
    /\ stage = "classify"
    /\ outcome' = Outcome
    /\ stage' = "done"
    /\ UNCHANGED <<plan, token, position, context, attempts, shell, descendant>>

Runner == \/ BeginAttempt \/ ActionFails \/ ActionCancelled \/ PerformInternal \/ Spawn
          \/ NoOracle \/ GraceOver \/ CommandEnds \/ OracleEnds \/ StopRepeating \/ Classify

Environment == CopyFails \/ Fork \/ DescendantExits \/ ShellExits \/ ShellHeeds

Next == CancelToken \/ Runner \/ Terminate \/ Environment

\* The runner's future is polled, its timers fire; nothing makes a process exit.
Fairness == WF_replayVars(Runner) /\ WF_replayVars(Terminate)

Spec == Init /\ [][Next]_replayVars /\ Fairness

TypeOK ==
    /\ plan.chosen \subseteq DOMAIN plan.journal
    /\ token \in BOOLEAN
    /\ stage \in {"attempt", "action", "command", "oracle", "classify", "done", "failed"}
    /\ position \in 0..Size
    /\ context.files \subseteq Baseline \cup {a.arg : a \in ToSet(plan.journal)}
    /\ Len(attempts) <= Repetitions
    /\ shell \in ShellStates /\ (InCommand <=> shell.state # "none")
    /\ descendant \in Descendants \cup {Nobody}
    /\ outcome = "none" <=> stage # "done"

(***************************************************************************)
(* A candidate closed under the inferred dependencies replays what was     *)
(* recorded: each action finds its directory, each command the variables   *)
(* it names and the new files it names.  The one exception: an action in   *)
(* the project's root need not require the cd that led back to it, and is  *)
(* then refused (DependencyGraph::infer, replay_action).                   *)
(***************************************************************************)
ReplaySeesTheRecording ==
    stage = "action" /\ position < Size /\ Closed(Infer(plan.journal), plan.chosen) =>
        LET i == Chosen(position + 1)
            then == Recorded(plan.journal, i)
        IN  /\ \/ context.cwd = then.cwd
               \/ /\ then.cwd = Root
                  /\ ~ReadsDirectory(plan.journal, i)
                  /\ CwdWriter(plan.journal, i) \cap plan.chosen = {}
            /\ \A key \in ReadsEnvironment(Action) : ValueOf(context, key) = ValueOf(then, key)
            /\ Action.kind = "shell" =>
                   Action.files \cap (then.files \ Baseline) \subseteq context.files

(***************************************************************************)
(* A stable or flaky outcome rests on every repetition: each ran all of    *)
(* the candidate without an error, and its oracle ended by itself.  The    *)
(* outcome is cancelled exactly when the token is, which the minimizer     *)
(* relies on (TrialRunner::run, classify_outcome).                         *)
(***************************************************************************)
OutcomeIsEvidence ==
    stage = "done" =>
        /\ outcome = "cancelled" <=> token
        /\ outcome \in {"stable_pass", "stable_fail", "flaky"} =>
               /\ Len(attempts) = Repetitions
               /\ \A i \in DOMAIN attempts :
                     /\ attempts[i].actions = Size /\ ~attempts[i].error
                     /\ attempts[i].oracle \in {"passed", "not_passed"}
        /\ outcome = "flaky" =>
               \E i, j \in DOMAIN attempts : attempts[i].oracle # attempts[j].oracle

HeldOpen == shell.state = "dead" /\ descendant.holds

(***************************************************************************)
(* A cancelled trial ends, unless a process that outlived its shell keeps  *)
(* the pipe open for ever: neither the timeout nor the token is heard by   *)
(* join_output (run_shell_command, terminate_child).                       *)
(***************************************************************************)
CancelledTrialEnds ==
    (token ~> stage \in {"done", "failed"}) \/ <>[]HeldOpen
================================================================================
