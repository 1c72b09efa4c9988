------------------------------- MODULE AgentLoop -------------------------------
(***************************************************************************)
(* run_agent_with_prompt_and_steering: the rounds of one analysis by a     *)
(* language model.  A round asks for a completion, which a steering        *)
(* message of the user drops and asks for anew, then calls the tools the   *)
(* model wants or checks its diagnosis.  The conversation is counted in    *)
(* messages; a trial is a number, 0 that of the minimizer's report.        *)
(***************************************************************************)
EXTENDS Integers, FiniteSets

CONSTANTS
    MaxSteps,        \* config.model.max_agent_steps
    ContextLimit,    \* config.model.context_length, in messages
    Budget,          \* config.budget, in units of usage; max_cost_usd may be 0
    MaxCalls,        \* tool calls in one response
    MaxTrials,       \* trials the tools may run
    SessionActions,  \* the actions of the session
    OtherActions     \* ids a model may make up

AgentAssumption ==
    /\ {MaxSteps, ContextLimit, MaxCalls} \subseteq Nat \ {0}
    /\ {Budget, MaxTrials} \subseteq Nat
    /\ SessionActions # {}

ToolFailureLimit == 3
InitialMessages == 2

VARIABLES
    mode,        \* where the loop is
    step,
    halted,      \* the cancellation token
    size,        \* messages in the conversation
    unanswered,  \* tool calls of the last assistant message without a tool message
    tangled,     \* history: another message came before all its calls were answered
    spent,       \* the usage known to UsageSummary
    failures,    \* consecutive_tool_failures
    calls,       \* the calls of the response that are still to be made
    steering,    \* the receiver: "none", "open"
    steers,      \* messages waiting in it
    known,       \* AnalysisTools::trials
    saved,       \* trials in the database
    diagnosis,   \* the diagnosis saved, if any
    verdict      \* AgentStopReason, or "error"

agentVars == <<mode, step, halted, size, unanswered, tangled, spent, failures, calls,
               steering, steers, known, saved, diagnosis, verdict>>

Smaller(a, b) == IF a < b THEN a ELSE b
NoDiagnosis == [actions |-> {}, trials |-> {}]

Init ==
    /\ mode = "step" /\ step = 1
    /\ halted = FALSE
    /\ size = InitialMessages /\ unanswered = 0 /\ tangled = FALSE
    /\ spent = 0 /\ failures = 0 /\ calls = 0
    /\ steering \in {"none", "open"} /\ steers = 0
    /\ known = {0} /\ saved = {0}
    /\ diagnosis = NoDiagnosis
    /\ verdict = "none"

Conversation == <<size, unanswered, tangled>>
Steering == <<steering, steers>>
Evidence == <<known, saved, diagnosis>>

\* A message is added to the conversation; beyond the limit its length is no matter.
Push(isAnswer, newCalls) ==
    /\ size' = Smaller(size + 1, ContextLimit + 1)
    /\ unanswered' = IF isAnswer THEN unanswered - 1 ELSE newCalls
    /\ tangled' = (tangled \/ (~isAnswer /\ unanswered > 0))

Stop(reason) == mode' = "stopped" /\ verdict' = reason

\* The user cancels the task.
Halt ==
    /\ mode # "stopped"
    /\ halted' = TRUE
    /\ UNCHANGED <<mode, step, Conversation, spent, failures, calls, Steering, Evidence, verdict>>

\* The user steers it; one message waits at a time.
Steer ==
    /\ mode # "stopped" /\ steering = "open" /\ steers = 0
    /\ steers' = 1
    /\ UNCHANGED <<mode, step, halted, Conversation, spent, failures, calls, steering,
                   Evidence, verdict>>

\* The checks before a round, in their order.
StopBeforeStep ==
    /\ mode = "step"
    /\ \/ step > MaxSteps /\ Stop("max_steps")
       \/ step <= MaxSteps /\ halted /\ Stop("cancelled")
       \/ step <= MaxSteps /\ ~halted /\ size > ContextLimit /\ Stop("context_limit")
    /\ UNCHANGED <<step, halted, Conversation, spent, failures, calls, Steering, Evidence>>

Ask ==
    /\ mode = "step" /\ step <= MaxSteps /\ ~halted /\ size <= ContextLimit
    /\ mode' = "asking"
    /\ UNCHANGED <<step, halted, Conversation, spent, failures, calls, Steering, Evidence,
                   verdict>>

\* A steering message drops the completion under way; the request is made anew with it.
TakeSteering ==
    /\ mode = "asking" /\ steers > 0
    /\ steers' = steers - 1
    /\ Push(FALSE, 0)
    /\ UNCHANGED <<mode, step, halted, spent, failures, calls, steering, Evidence, verdict>>

\* Mutant of Account: the budget is compared before the response is recorded.
AccountLate(usage) ==
    /\ spent' = Smaller(spent + usage, Budget)
    /\ spent < Budget

\* UsageSummary::record and exceeds: FALSE if the budget is used up.  usage is 0 if
\* the response does not tell it.
Account(usage) ==
    /\ spent' = Smaller(spent + usage, Budget)
    /\ spent + usage < Budget

\* The select is biased: a waiting message goes before a finished completion.
Answered == mode = "asking" /\ steers = 0

\* LlmProvider::complete: the calls of a response, whether it has a text, and its usage.
Responses == [calls : 0..MaxCalls, text : BOOLEAN, usage : 0..Budget]

BudgetUsedUp ==
    /\ Answered
    /\ \E r \in Responses :
           spent' = Smaller(spent + r.usage, Budget) /\ ~Account(r.usage)
    /\ Stop("budget")
    /\ UNCHANGED <<step, halted, Conversation, failures, calls, Steering, Evidence>>

WantsTools ==
    /\ Answered
    /\ \E r \in Responses :
           r.calls > 0 /\ Account(r.usage) /\ calls' = r.calls /\ Push(FALSE, r.calls)
    /\ mode' = "tools"
    /\ UNCHANGED <<step, halted, failures, Steering, Evidence, verdict>>

Concludes ==
    /\ Answered
    /\ \E r \in Responses : r.calls = 0 /\ r.text /\ Account(r.usage)
    /\ Push(FALSE, 0)
    /\ mode' = "final"
    /\ UNCHANGED <<step, halted, failures, calls, Steering, Evidence, verdict>>

\* The request fails: by the token, a timeout, or an answer that makes no sense.
RequestFails ==
    /\ Answered
    /\ Stop(IF halted THEN "cancelled" ELSE "error")
    /\ UNCHANGED <<step, halted, Conversation, spent, failures, calls, Steering, Evidence>>

\* The response has neither calls nor a text.
SaysNothing ==
    /\ Answered
    /\ \E r \in Responses : r.calls = 0 /\ ~r.text /\ Account(r.usage)
    /\ Stop("error")
    /\ UNCHANGED <<step, halted, Conversation, failures, calls, Steering, Evidence>>

\* The result of a tool is its answer, an error too.
AnswerCall(failed) ==
    /\ calls' = calls - 1
    /\ Push(TRUE, 0)
    /\ failures' = IF failed THEN failures + 1 ELSE 0
    /\ IF failures' >= ToolFailureLimit
       THEN Stop("tool_failure_limit") /\ UNCHANGED step
       ELSE /\ mode' = IF calls = 1 THEN "step" ELSE "tools"
            /\ step' = IF calls = 1 THEN step + 1 ELSE step
            /\ UNCHANGED verdict
    /\ UNCHANGED <<halted, spent, Steering, diagnosis>>

\* A tool that reads, or one that fails: an unknown name, id or argument.
CallTool ==
    /\ mode = "tools"
    /\ \E failed \in BOOLEAN : AnswerCall(failed)
    /\ UNCHANGED <<known, saved>>

\* run_candidate and repeat_trial: a trial is under way, while the user may cancel or steer.
StartTrial ==
    /\ mode = "tools" /\ (1..MaxTrials) \ saved # {}
    /\ mode' = "trial"
    /\ UNCHANGED <<step, halted, Conversation, spent, failures, calls, Steering, Evidence,
                   verdict>>

\* Mutant of RunTrial: the trial is known before it is saved, and saving may fail.
RunTrialFirst ==
    /\ mode = "trial"
    /\ \E trial \in (1..MaxTrials) \ known : \E written \in BOOLEAN :
           /\ AnswerCall(~written)
           /\ known' = known \cup {trial}
           /\ saved' = IF written THEN saved \cup {trial} ELSE saved

\* The trial returns and is saved, then known.  A cancelled trial is one as well, and the
\* loop goes on.
RunTrial ==
    /\ mode = "trial"
    /\ \E trial \in (1..MaxTrials) \ saved : \E written \in BOOLEAN :
           /\ AnswerCall(~written)
           /\ saved' = IF written THEN saved \cup {trial} ELSE saved
           /\ known' = IF written THEN known \cup {trial} ELSE known

\* Diagnosis::validate: it names actions.
WellFormed(d) == d.actions # {}

\* validate_diagnosis: the actions and the trials it cites are known.
CitesKnown(d) == d.actions \subseteq SessionActions /\ d.trials \subseteq known

Claims == [actions : SUBSET (SessionActions \cup OtherActions), trials : SUBSET (0..MaxTrials)]

AcceptDiagnosis ==
    /\ mode = "final"
    /\ \E d \in Claims : WellFormed(d) /\ CitesKnown(d) /\ diagnosis' = d
    /\ Stop("completed")
    /\ UNCHANGED <<step, halted, Conversation, spent, failures, calls, Steering, known, saved>>

\* Its text is no diagnosis, one of the checks refuses it, or it cannot be saved.
RefuseDiagnosis ==
    /\ mode = "final"
    /\ Stop("error")
    /\ UNCHANGED <<step, halted, Conversation, spent, failures, calls, Steering, Evidence>>

\* AgentHistory::record fails: the loop ends at once with the error.
HistoryFails ==
    /\ mode \in {"tools", "asking"} \/ (mode = "step" /\ step = 1)
    /\ Stop("error")
    /\ UNCHANGED <<step, halted, Conversation, spent, failures, calls, Steering, Evidence>>

Loop == \/ StopBeforeStep \/ Ask \/ TakeSteering \/ BudgetUsedUp \/ WantsTools \/ Concludes
        \/ SaysNothing \/ RequestFails \/ CallTool \/ StartTrial
        \/ AcceptDiagnosis \/ RefuseDiagnosis

Next == Halt \/ Steer \/ Loop \/ RunTrial \/ HistoryFails

\* The loop is polled, and a request ends: the client has a timeout of three minutes.
\* Nothing makes a trial return, whose pipes may be held open (HeldOpen of Replay).
Fairness == WF_agentVars(Loop)

Spec == Init /\ [][Next]_agentVars /\ Fairness

TypeOK ==
    /\ mode \in {"step", "asking", "tools", "trial", "final", "stopped"}
    /\ step \in 1..(MaxSteps + 1)
    /\ halted \in BOOLEAN /\ tangled \in BOOLEAN
    /\ size \in InitialMessages..(ContextLimit + 1)
    /\ unanswered \in 0..MaxCalls /\ calls \in 0..MaxCalls
    /\ spent \in 0..Budget
    /\ failures \in 0..ToolFailureLimit
    /\ steering \in {"none", "open"} /\ steers \in 0..1
    /\ known \subseteq 0..MaxTrials /\ saved \subseteq 0..MaxTrials
    /\ diagnosis \in Claims
    /\ (verdict = "none") <=> (mode # "stopped")

(***************************************************************************)
(* While a request is under way the known usage is below the budget, the   *)
(* tools have not failed three times in a row, and the conversation is     *)
(* one a provider accepts: every call of an assistant message is answered  *)
(* before the next message, whatever failed and whenever the user steered. *)
(* A budget of nothing, which max_cost_usd = 0 is, lets the requests of    *)
(* the first step through: it is compared only after a response.           *)
(***************************************************************************)
RequestsAreJustified ==
    mode = "asking" =>
        /\ spent < Budget \/ (Budget = 0 /\ step = 1)
        /\ failures < ToolFailureLimit /\ step <= MaxSteps
        /\ unanswered = 0 /\ ~tangled

(***************************************************************************)
(* A diagnosis that is saved names actions of the session and cites only   *)
(* trials that are in the database, and is there exactly if the loop says  *)
(* that it completed (validate_diagnosis, run_ids).                        *)
(***************************************************************************)
DiagnosisIsGrounded ==
    /\ known \subseteq saved
    /\ (diagnosis # NoDiagnosis) <=> (verdict = "completed")
    /\ diagnosis.actions \subseteq SessionActions
    /\ diagnosis.trials \subseteq saved

(***************************************************************************)
(* The loop ends, with a cancel or without, unless the user steers for     *)
(* ever, where each message makes the request anew and takes no step, or a *)
(* trial of a tool never returns.                                          *)
(***************************************************************************)
AgentEnds ==
    <>(mode = "stopped") \/ []<><<TakeSteering>>_agentVars \/ <>[](mode = "trial")
================================================================================
