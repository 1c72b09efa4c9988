---------------------------- MODULE WorkbenchProofs ----------------------------
(***************************************************************************)
(* What is proved of the workbench, for every value of its constants.  A   *)
(* component that does not move keeps its state, so each property needs    *)
(* the inductive invariant of its own component only.  Those of the        *)
(* session history, of the timeline and of replay are proved in a module   *)
(* of the component; those of the agent loop, of the state directory, of   *)
(* the configuration, of the sandbox and of the in-process subscription    *)
(* are here.  The last theorem puts all their types together.              *)
(***************************************************************************)
EXTENDS Workbench, FiniteSetTheorems, SequenceTheorems, WellFoundedInduction, TLAPS

-----------------------------------------------------------------------------
(* The agent loop.                                                         *)

\* While the loop goes on it is below its limits, except that a budget of nothing lets a
\* first request through, and has no diagnosis; between two responses every call is
\* answered, and while tools run the calls still to be made are exactly the unanswered
\* ones (the for loop over response.tool_calls).
FirstForNothing == Budget = 0 /\ step = 1 /\ mode \in {"step", "asking"}

RoundInv ==
    /\ mode # "stopped" => /\ spent < Budget \/ FirstForNothing
                           /\ failures < A!ToolFailureLimit
                           /\ ~tangled
                           /\ diagnosis = A!NoDiagnosis
    /\ mode \in {"tools", "trial"} => calls = unanswered /\ calls > 0
    /\ mode \in {"step", "asking", "final"} => unanswered = 0
    /\ mode \in {"asking", "tools", "trial", "final"} => step <= MaxSteps

\* What the diagnosis of a finished loop is worth (validate_diagnosis).
EvidenceInv ==
    /\ known \subseteq evidence
    /\ (diagnosis # A!NoDiagnosis) <=> (verdict = "completed")
    /\ diagnosis.actions \subseteq SessionActions
    /\ diagnosis.trials \subseteq evidence

LoopInv == A!TypeOK /\ RoundInv /\ EvidenceInv

\* A new message keeps the conversation within its type, and tangles it exactly if a
\* call of the message before has no answer yet.
LEMMA PushTypes ==
    ASSUME A!AgentAssumption, A!TypeOK, NEW isAnswer \in BOOLEAN, NEW newCalls \in 0..MaxCalls,
           A!Push(isAnswer, newCalls), isAnswer => unanswered > 0
    PROVE  /\ size' \in A!InitialMessages..(ContextLimit + 1)
           /\ unanswered' \in 0..MaxCalls
           /\ unanswered' = IF isAnswer THEN unanswered - 1 ELSE newCalls
           /\ tangled' \in BOOLEAN
           /\ (~tangled /\ (isAnswer \/ unanswered = 0)) => ~tangled'
<1>1. /\ ContextLimit \in Nat \ {0} /\ MaxCalls \in Nat
      /\ size \in A!InitialMessages..(ContextLimit + 1) /\ unanswered \in 0..MaxCalls
      /\ tangled \in BOOLEAN
  BY DEF A!AgentAssumption, A!TypeOK
<1>2. size' \in A!InitialMessages..(ContextLimit + 1)
  BY <1>1, SMT DEF A!Push, A!Smaller, A!InitialMessages
<1>3. /\ unanswered' = IF isAnswer THEN unanswered - 1 ELSE newCalls
      /\ unanswered' \in 0..MaxCalls
  BY <1>1, SMT DEF A!Push
<1>4. /\ tangled' \in BOOLEAN
      /\ (~tangled /\ (isAnswer \/ unanswered = 0)) => ~tangled'
  BY <1>1, SMT DEF A!Push
<1> QED BY <1>2, <1>3, <1>4

\* The usage known after a response stays within the budget's units, below the budget
\* if the loop goes on (UsageSummary::exceeds).
LEMMA AccountTypes ==
    ASSUME A!AgentAssumption, A!TypeOK, NEW usage \in 0..Budget
    PROVE  /\ A!Smaller(spent + usage, Budget) \in 0..Budget
           /\ A!Account(usage) => spent' \in 0..Budget /\ spent' < Budget
<1>1. Budget \in Nat /\ spent \in 0..Budget
  BY DEF A!AgentAssumption, A!TypeOK
<1> QED BY <1>1, SMT DEF A!Account, A!Smaller

\* Each answer of a tool counts its call off, moves on after the last one, and stops at
\* the third failure in a row.
LEMMA AnswerStep ==
    ASSUME A!AgentAssumption, A!TypeOK, RoundInv, mode \in {"tools", "trial"},
           NEW failed \in BOOLEAN, A!AnswerCall(failed),
           known' \subseteq 0..MaxTrials, evidence' \subseteq 0..MaxTrials
    PROVE  A!TypeOK' /\ RoundInv' /\ diagnosis' = diagnosis /\ verdict' # "completed"
                   /\ verdict = "none"
<1>1. /\ calls = unanswered /\ calls > 0 /\ step <= MaxSteps
      /\ spent < Budget /\ failures < A!ToolFailureLimit /\ ~tangled
      /\ diagnosis = A!NoDiagnosis
      /\ verdict = "none"
  BY DEF FirstForNothing, RoundInv, A!TypeOK
<1>2. /\ size' \in A!InitialMessages..(ContextLimit + 1)
      /\ unanswered' \in 0..MaxCalls /\ unanswered' = unanswered - 1
      /\ tangled' \in BOOLEAN /\ ~tangled'
  <2>1. 0 \in 0..MaxCalls
    BY SMT DEF A!AgentAssumption
  <2>2. A!Push(TRUE, 0)
    BY DEF A!AnswerCall
  <2>3. unanswered > 0
    BY <1>1
  <2> QED BY <1>1, <2>1, <2>2, <2>3, PushTypes
<1>3. /\ failures \in 0..A!ToolFailureLimit /\ calls \in 0..MaxCalls
      /\ step \in 1..(MaxSteps + 1) /\ MaxSteps \in Nat /\ MaxCalls \in Nat
  BY DEF A!TypeOK, A!AgentAssumption
<1>4. /\ failures' \in 0..A!ToolFailureLimit
      /\ calls' = calls - 1 /\ calls' \in 0..MaxCalls
  BY <1>1, <1>3, SMT DEF A!AnswerCall, A!ToolFailureLimit
<1>5. /\ diagnosis' = diagnosis /\ spent' = spent /\ halted' = halted
      /\ steering' = steering /\ steers' = steers
  BY DEF A!AnswerCall, A!Steering
<1>6. CASE failures' >= A!ToolFailureLimit
  <2>1. mode' = "stopped" /\ verdict' = "tool_failure_limit" /\ step' = step
    BY <1>6 DEF A!AnswerCall, A!Stop
  <2> QED BY <1>2, <1>3, <1>4, <1>5, <1>1, <2>1 DEF A!TypeOK, RoundInv
<1>7. CASE ~(failures' >= A!ToolFailureLimit)
  <2>1. /\ mode' = IF calls = 1 THEN "step" ELSE "tools"
        /\ step' = IF calls = 1 THEN step + 1 ELSE step
        /\ verdict' = verdict
    BY <1>7 DEF A!AnswerCall
  <2>2. step' \in 1..(MaxSteps + 1) /\ (mode' = "tools" => step' <= MaxSteps)
    BY <1>1, <1>3, <2>1, SMT
  <2>3. failures' < A!ToolFailureLimit
    BY <1>4, <1>7, SMT DEF A!ToolFailureLimit
  <2>4. /\ mode' = "tools" => calls' = unanswered' /\ calls' > 0
        /\ mode' = "step" => unanswered' = 0
    BY <1>1, <1>2, <1>3, <1>4, <2>1, SMT
  <2>5. mode' \in {"step", "tools"}
    BY <2>1
  <2>6. A!TypeOK'
    BY <1>1, <1>2, <1>3, <1>4, <1>5, <2>1, <2>2, <2>5 DEF A!TypeOK
  <2>7. RoundInv'
    BY <1>1, <1>2, <1>5, <2>2, <2>3, <2>4, <2>5 DEF RoundInv
  <2> QED BY <1>1, <1>5, <2>1, <2>6, <2>7
<1> QED BY <1>6, <1>7

\* Every step of the loop, of its user and of its provider keeps the invariant.
LEMMA LoopStep ==
    ASSUME A!AgentAssumption, LoopInv, [A!Next]_(A!agentVars)
    PROVE  LoopInv'
<1> USE A!AgentAssumption DEF LoopInv
<1>1. CASE UNCHANGED A!agentVars
  <2>1. A!TypeOK' /\ RoundInv'
    BY <1>1 DEF A!agentVars, A!TypeOK, RoundInv, FirstForNothing
  <2>2. EvidenceInv'
    BY <1>1 DEF A!agentVars, EvidenceInv
  <2> QED BY <2>1, <2>2
<1>2. CASE A!Halt \/ A!Steer
  <2>1. steers' \in 0..1
    BY <1>2, SMT DEF A!Halt, A!Steer, A!Steering, A!TypeOK
  <2>2. /\ halted' \in BOOLEAN
        /\ UNCHANGED <<mode, step, A!Conversation, spent, failures, calls, steering, A!Evidence, verdict>>
    BY <1>2 DEF A!Halt, A!Steer, A!Steering, A!TypeOK
  <2>3. A!TypeOK'
    BY <2>1, <2>2 DEF A!TypeOK, A!Conversation, A!Evidence
  <2>4. RoundInv' /\ EvidenceInv'
    BY <2>2 DEF RoundInv, FirstForNothing, EvidenceInv, A!Conversation, A!Evidence
  <2> QED BY <2>3, <2>4
<1>3. CASE A!StopBeforeStep \/ A!RequestFails \/ A!RefuseDiagnosis \/ A!HistoryFails
  <2>1. /\ mode # "stopped" /\ mode' = "stopped"
        /\ verdict' \in {"max_steps", "cancelled", "context_limit", "error"}
        /\ UNCHANGED <<step, halted, A!Conversation, spent, failures, calls, A!Steering, A!Evidence>>
    BY <1>3, SMT DEF A!StopBeforeStep, A!RequestFails, A!RefuseDiagnosis, A!HistoryFails, A!Stop, A!Answered
  <2>2. verdict = "none" /\ diagnosis = A!NoDiagnosis
    BY <2>1 DEF A!TypeOK, RoundInv
  <2>3. A!TypeOK'
    BY <2>1, <2>2 DEF A!TypeOK, A!Conversation, A!Steering, A!Evidence
  <2>4. RoundInv' /\ EvidenceInv'
    BY <2>1, <2>2 DEF RoundInv, EvidenceInv, A!Conversation, A!Steering, A!Evidence
  <2> QED BY <2>3, <2>4
<1>4. CASE A!Ask
  <2>1. A!TypeOK'
    BY <1>4 DEF A!Ask, A!TypeOK, A!Conversation, A!Steering, A!Evidence
  <2>2. RoundInv' /\ EvidenceInv'
    BY <1>4 DEF A!Ask, RoundInv, FirstForNothing, EvidenceInv, A!Conversation, A!Steering, A!Evidence
  <2> QED BY <2>1, <2>2
<1>5. CASE A!TakeSteering
  <2>1. mode = "asking" /\ A!Push(FALSE, 0) /\ unanswered = 0 /\ ~tangled
    BY <1>5 DEF A!TakeSteering, RoundInv
  <2>2. 0 \in 0..MaxCalls
    BY SMT DEF A!AgentAssumption
  <2>3. /\ size' \in A!InitialMessages..(ContextLimit + 1)
        /\ unanswered' = 0 /\ unanswered' \in 0..MaxCalls
        /\ tangled' = FALSE
    BY <2>1, <2>2, PushTypes
  <2>4. steers' \in 0..1
    BY <1>5, SMT DEF A!TakeSteering, A!TypeOK
  <2>5. A!TypeOK'
    BY <1>5, <2>3, <2>4 DEF A!TakeSteering, A!TypeOK, A!Evidence
  <2>6. RoundInv' /\ EvidenceInv'
    BY <1>5, <2>1, <2>3 DEF A!TakeSteering, RoundInv, FirstForNothing, EvidenceInv, A!Evidence
  <2> QED BY <2>5, <2>6
<1>6. CASE A!BudgetUsedUp \/ A!SaysNothing
  <2>1. /\ mode = "asking" /\ mode' = "stopped" /\ verdict' \in {"budget", "error"}
        /\ UNCHANGED <<step, halted, A!Conversation, failures, calls, A!Steering, A!Evidence>>
    BY <1>6, SMT DEF A!BudgetUsedUp, A!SaysNothing, A!Stop, A!Answered
  <2>2. spent' \in 0..Budget
    <3>1. PICK r \in A!Responses : spent' = A!Smaller(spent + r.usage, Budget)
      BY <1>6 DEF A!BudgetUsedUp, A!SaysNothing, A!Account
    <3>2. r.usage \in 0..Budget
      BY DEF A!Responses
    <3> QED BY <3>1, <3>2, AccountTypes
  <2>3. verdict = "none" /\ diagnosis = A!NoDiagnosis
    BY <2>1 DEF A!TypeOK, RoundInv
  <2>4. A!TypeOK'
    BY <2>1, <2>2, <2>3 DEF A!TypeOK, A!Conversation, A!Steering, A!Evidence
  <2>5. RoundInv' /\ EvidenceInv'
    BY <2>1, <2>3 DEF RoundInv, EvidenceInv, A!Conversation, A!Steering, A!Evidence
  <2> QED BY <2>4, <2>5
<1>7. CASE A!WantsTools
  <2>1. PICK r \in A!Responses : /\ r.calls > 0 /\ A!Account(r.usage)
                               /\ calls' = r.calls /\ A!Push(FALSE, r.calls)
    BY <1>7 DEF A!WantsTools
  <2>2. r.calls \in 0..MaxCalls /\ r.usage \in 0..Budget
    BY DEF A!Responses
  <2>3. mode = "asking" /\ unanswered = 0 /\ ~tangled /\ step <= MaxSteps
    BY <1>7 DEF A!WantsTools, A!Answered, RoundInv
  <2>4. /\ size' \in A!InitialMessages..(ContextLimit + 1)
        /\ unanswered' = r.calls /\ unanswered' \in 0..MaxCalls
        /\ tangled' = FALSE
    BY <2>1, <2>2, <2>3, PushTypes
  <2>5. spent' \in 0..Budget /\ spent' < Budget
    BY <2>1, <2>2, AccountTypes
  <2>6. A!TypeOK'
    BY <1>7, <2>1, <2>2, <2>3, <2>4, <2>5 DEF A!WantsTools, A!TypeOK, A!Steering, A!Evidence
  <2>7. RoundInv' /\ EvidenceInv'
    BY <1>7, <2>1, <2>3, <2>4, <2>5
    DEF A!WantsTools, RoundInv, EvidenceInv, A!Steering, A!Evidence
  <2> QED BY <2>6, <2>7
<1>8. CASE A!Concludes
  <2>1. PICK r \in A!Responses : A!Account(r.usage)
    BY <1>8 DEF A!Concludes
  <2>2. r.usage \in 0..Budget /\ 0 \in 0..MaxCalls
    BY SMT DEF A!Responses, A!AgentAssumption
  <2>3. /\ mode = "asking" /\ unanswered = 0 /\ ~tangled /\ step <= MaxSteps
        /\ A!Push(FALSE, 0)
    BY <1>8 DEF A!Concludes, A!Answered, RoundInv
  <2>4. /\ size' \in A!InitialMessages..(ContextLimit + 1)
        /\ unanswered' = 0 /\ unanswered' \in 0..MaxCalls
        /\ tangled' = FALSE
    BY <2>2, <2>3, PushTypes
  <2>5. spent' \in 0..Budget /\ spent' < Budget
    BY <2>1, <2>2, AccountTypes
  <2>6. A!TypeOK'
    BY <1>8, <2>3, <2>4, <2>5 DEF A!Concludes, A!TypeOK, A!Steering, A!Evidence
  <2>7. RoundInv' /\ EvidenceInv'
    BY <1>8, <2>3, <2>4, <2>5 DEF A!Concludes, RoundInv, EvidenceInv, A!Steering, A!Evidence
  <2> QED BY <2>6, <2>7
<1>9. CASE A!CallTool
  <2>1. PICK failed \in BOOLEAN :
            A!AnswerCall(failed) /\ UNCHANGED <<known, evidence>> /\ mode = "tools"
    BY <1>9 DEF A!CallTool
  <2>2. known' \subseteq 0..MaxTrials /\ evidence' \subseteq 0..MaxTrials
    BY <2>1 DEF A!TypeOK
  <2>3. /\ A!TypeOK' /\ RoundInv' /\ diagnosis' = diagnosis
        /\ verdict' # "completed" /\ verdict = "none"
    BY <2>1, <2>2, AnswerStep
  <2>4. EvidenceInv'
    BY <2>1, <2>3 DEF EvidenceInv
  <2> QED BY <2>3, <2>4
<1>10. CASE A!RunTrial
  <2>1. PICK trial \in (1..MaxTrials) \ evidence, written \in BOOLEAN :
            /\ A!AnswerCall(~written) /\ mode = "trial"
            /\ evidence' = IF written THEN evidence \cup {trial} ELSE evidence
            /\ known' = IF written THEN known \cup {trial} ELSE known
    BY <1>10 DEF A!RunTrial
  <2>2. trial \in 0..MaxTrials
    BY SMT DEF A!AgentAssumption
  <2>3. known' \subseteq 0..MaxTrials /\ evidence' \subseteq 0..MaxTrials
    BY <2>1, <2>2 DEF A!TypeOK
  <2>4. /\ A!TypeOK' /\ RoundInv' /\ diagnosis' = diagnosis
        /\ verdict' # "completed" /\ verdict = "none"
    BY <2>1, <2>3, AnswerStep
  <2>5. known' \subseteq evidence' /\ evidence \subseteq evidence'
    BY <2>1 DEF EvidenceInv
  <2>6. EvidenceInv'
    BY <2>4, <2>5 DEF EvidenceInv
  <2> QED BY <2>4, <2>6
<1>11. CASE A!AcceptDiagnosis
  <2>1. PICK d \in A!Claims : A!WellFormed(d) /\ A!CitesKnown(d) /\ diagnosis' = d
    BY <1>11 DEF A!AcceptDiagnosis
  <2>2. /\ mode' = "stopped" /\ verdict' = "completed"
        /\ UNCHANGED <<step, halted, A!Conversation, spent, failures, calls, A!Steering, known, evidence>>
    BY <1>11 DEF A!AcceptDiagnosis, A!Stop
  <2>3. A!TypeOK'
    BY <2>1, <2>2 DEF A!TypeOK, A!Conversation, A!Steering
  <2>4. RoundInv'
    BY <2>2 DEF RoundInv
  <2>5. d # A!NoDiagnosis
    BY <2>1 DEF A!WellFormed, A!NoDiagnosis
  <2>6. EvidenceInv'
    BY <2>1, <2>2, <2>5 DEF EvidenceInv, A!CitesKnown
  <2> QED BY <2>3, <2>4, <2>6
<1>12. CASE A!StartTrial
  <2>1. /\ mode = "tools" /\ mode' = "trial"
        /\ UNCHANGED <<step, halted, A!Conversation, spent, failures, calls, A!Steering, A!Evidence,
                       verdict>>
    BY <1>12 DEF A!StartTrial
  <2>2. A!TypeOK'
    BY <2>1 DEF A!TypeOK, A!Conversation, A!Steering, A!Evidence
  <2>3. RoundInv' /\ EvidenceInv'
    BY <2>1 DEF RoundInv, FirstForNothing, EvidenceInv, A!Conversation, A!Steering, A!Evidence
  <2> QED BY <2>2, <2>3
<1> QED BY <1>1, <1>2, <1>3, <1>4, <1>5, <1>6, <1>7, <1>8, <1>9, <1>10, <1>11, <1>12
        DEF A!Next, A!Loop

\* The invariant holds at the start: two messages, no usage, and the minimizer's trial.
LEMMA LoopStart ==
    ASSUME A!AgentAssumption, A!Init
    PROVE  LoopInv
<1>1. /\ MaxSteps \in Nat \ {0} /\ ContextLimit \in Nat \ {0} /\ Budget \in Nat
      /\ MaxCalls \in Nat \ {0} /\ MaxTrials \in Nat
  BY DEF A!AgentAssumption
<1>2. /\ step \in 1..(MaxSteps + 1) /\ size \in A!InitialMessages..(ContextLimit + 1)
      /\ unanswered \in 0..MaxCalls /\ calls \in 0..MaxCalls /\ spent \in 0..Budget
      /\ failures \in 0..A!ToolFailureLimit /\ steers \in 0..1
      /\ (spent < Budget \/ Budget = 0) /\ failures < A!ToolFailureLimit
  BY <1>1, SMT DEF A!Init, A!InitialMessages, A!ToolFailureLimit
<1>3. known \subseteq 0..MaxTrials /\ evidence \subseteq 0..MaxTrials
  BY <1>1, SMT DEF A!Init
<1>4. diagnosis \in A!Claims
  BY DEF A!Init, A!NoDiagnosis, A!Claims
<1>5. A!TypeOK
  BY <1>2, <1>3, <1>4 DEF A!Init, A!TypeOK
<1>6. RoundInv
  BY <1>2 DEF A!Init, RoundInv, FirstForNothing
<1>7. EvidenceInv
  BY DEF A!Init, EvidenceInv, A!NoDiagnosis
<1> QED BY <1>5, <1>6, <1>7 DEF LoopInv

\* No model is asked with the budget used up, after three failures in a row, past the last
\* step or with a call that has no answer, whatever failed and whenever the user steered.  If
\* the budget is nothing, the requests of the first step are made with it used up (run_agent).
THEOREM RequestsCorrect == A!AgentAssumption => (Spec => []RequestsAreJustified)
<1> SUFFICES ASSUME A!AgentAssumption PROVE Spec => []RequestsAreJustified
  OBVIOUS
<1>1. Init => LoopInv
  BY LoopStart DEF Init
<1>2. LoopInv /\ [Next]_vars => LoopInv'
  <2>1. [Next]_vars => [A!Next]_(A!agentVars)
    BY DEF Next, vars, Only, agent, A!agentVars
  <2> QED BY <2>1, LoopStep
<1>3. LoopInv => RequestsAreJustified
  BY DEF LoopInv, RoundInv, FirstForNothing, A!RequestsAreJustified, RequestsAreJustified
<1> QED BY <1>1, <1>2, <1>3, PTL DEF Spec

\* A diagnosis cites only what the session has and the database keeps, and is there exactly
\* if the loop reports that it completed (validate_diagnosis).
THEOREM DiagnosisCorrect == A!AgentAssumption => (Spec => []DiagnosisIsGrounded)
<1> SUFFICES ASSUME A!AgentAssumption PROVE Spec => []DiagnosisIsGrounded
  OBVIOUS
<1>1. Init => LoopInv
  BY LoopStart DEF Init
<1>2. LoopInv /\ [Next]_vars => LoopInv'
  <2>1. [Next]_vars => [A!Next]_(A!agentVars)
    BY DEF Next, vars, Only, agent, A!agentVars
  <2> QED BY <2>1, LoopStep
<1>3. LoopInv => DiagnosisIsGrounded
  BY DEF LoopInv, EvidenceInv, A!DiagnosisIsGrounded, DiagnosisIsGrounded
<1> QED BY <1>1, <1>2, <1>3, PTL DEF Spec

-----------------------------------------------------------------------------
(* The session history.                                                    *)

\* Tasks never undo each other's saves: an archive, a late title, a shell or an analysis of
\* the command line has a part in each loss; and an action takes the id of another only where
\* shells are beside each other or beside tasks (session_tasks, save_session).
THEOREM LossesCorrect == H!HistoryAssumption => (Spec => []LossesAreKnown)
<1> SUFFICES ASSUME H!HistoryAssumption PROVE Spec => []LossesAreKnown
  OBVIOUS
<1>1. Init => H!HistoryInv
  BY H!HistoryStart DEF Init
<1>2. H!HistoryInv /\ [Next]_vars => H!HistoryInv'
  <2>1. [Next]_vars => [H!Next]_(H!historyVars)
    BY DEF Next, vars, Only, history, H!historyVars
  <2> QED BY <2>1, H!HistoryStep
<1>3. H!HistoryInv => LossesAreKnown
  BY DEF H!HistoryInv, LossesAreKnown
<1> QED BY <1>1, <1>2, <1>3, PTL DEF Spec

\* What may be analyzed was replayed as it stands, and so was what a finished copy came from,
\* unless a save was lost that was not an analysis' to another, or a shell stood beside a
\* task (repl::run, analyze_session, ForkSession, import_session).
THEOREM ReadyIsReplayed == H!HistoryAssumption => (Spec => []ReadyWasReplayed)
<1> SUFFICES ASSUME H!HistoryAssumption PROVE Spec => []ReadyWasReplayed
  OBVIOUS
<1>1. Init => H!HistoryInv /\ H!ReadyInv
  BY H!HistoryStart, H!ReadyAtFirst DEF Init
<1>2. H!HistoryInv /\ H!ReadyInv /\ [Next]_vars => H!HistoryInv' /\ H!ReadyInv'
  <2>1. [Next]_vars => [H!Next]_(H!historyVars)
    BY DEF Next, vars, Only, history, H!historyVars
  <2> QED BY <2>1, H!HistoryStep, H!ReadyNext
<1>3. H!HistoryInv /\ H!ReadyInv => ReadyWasReplayed
  BY H!ReadyMeans DEF ReadyWasReplayed
<1> QED BY <1>1, <1>2, <1>3, PTL DEF Spec

-----------------------------------------------------------------------------
(* The timeline of a piece of work.                                        *)

\* No item is completed twice and no text comes out of order or late, whatever is lost, and
\* while nothing is lost the timeline tells everything (coalesced_progress_payloads, emit).
THEOREM TimelineCorrect == Spec => []TimelineIsWhole
<1>1. Init => P!StreamInv
  BY P!StreamStart DEF Init
<1>2. P!StreamInv /\ [Next]_vars => P!StreamInv'
  <2>1. [Next]_vars => [P!Next]_(P!streamVars)
    BY DEF Next, vars, Only, stream, P!streamVars
  <2> QED BY <2>1, P!StreamStep
<1>3. P!StreamInv => TimelineIsWhole
  BY P!StreamMeans DEF TimelineIsWhole
<1> QED BY <1>1, <1>2, <1>3, PTL DEF Spec

-----------------------------------------------------------------------------
(* Replay.                                                                 *)

\* Finite means the same, inside and outside of the instance.
LEMMA FiniteActions == ReplayConstants => Actions \subseteq Nat /\ R!IsFiniteSet(Actions)
BY DEF ReplayConstants, IsFiniteSet, R!IsFiniteSet

\* A closed candidate replays what was recorded, for every journal, candidate and course of
\* the trial (DependencyGraph::infer, replay_action).
THEOREM RecordingIsSeen == ReplayConstants => (Spec => []ReplaySeesTheRecording)
<1> SUFFICES ASSUME ReplayConstants PROVE Spec => []ReplaySeesTheRecording
  OBVIOUS
<1>1. Init => R!ReplayInv
  BY FiniteActions, R!ReplayInitial DEF Init, ReplayConstants
<1>2. R!ReplayInv /\ [Next]_vars => R!ReplayInv'
  <2>1. [Next]_vars => [R!Next]_(R!replayVars)
    BY DEF Next, vars, Only, replay, R!replayVars
  <2> QED BY <2>1, FiniteActions, R!ReplayStep DEF ReplayConstants
<1>3. R!ReplayInv => ReplaySeesTheRecording
  BY FiniteActions, R!RecordingHolds DEF ReplaySeesTheRecording, ReplayConstants
<1> QED BY <1>1, <1>2, <1>3, PTL DEF Spec

\* A stable or flaky outcome rests on every repetition, and a trial is cancelled exactly
\* when its token is (TrialRunner::run, classify_outcome).
THEOREM OutcomeRestsOnEvidence == ReplayConstants => (Spec => []OutcomeIsEvidence)
<1> SUFFICES ASSUME ReplayConstants PROVE Spec => []OutcomeIsEvidence
  OBVIOUS
<1>1. Init => R!ReplayInv
  BY FiniteActions, R!ReplayInitial DEF Init, ReplayConstants
<1>2. R!ReplayInv /\ [Next]_vars => R!ReplayInv'
  <2>1. [Next]_vars => [R!Next]_(R!replayVars)
    BY DEF Next, vars, Only, replay, R!replayVars
  <2> QED BY <2>1, FiniteActions, R!ReplayStep DEF ReplayConstants
<1>3. R!ReplayInv => OutcomeIsEvidence
  BY FiniteActions, R!EvidenceHolds DEF OutcomeIsEvidence, ReplayConstants
<1> QED BY <1>1, <1>2, <1>3, PTL DEF Spec

-----------------------------------------------------------------------------
(* The state directory: what a start relies on, of the schema, of the      *)
(* backup of an older release's database, and of the tasks of servers that *)
(* run.                                                                    *)

\* Where a process is.
StartLabels == {"off", "connect", "backup", "copying", "one", "two", "create", "recover", "open"}

\* The shape of the processes and of the database.
StartShape ==
    /\ database \in [exists : BOOLEAN, version : 0..D!Newer, legacy : BOOLEAN]
    /\ procs \in [D!Processes -> [pc : StartLabels, existed : BOOLEAN, version : 0..D!Current]]
    /\ backup \in D!Missing..D!Current
    /\ disturbed \in BOOLEAN

\* A newer schema is refused by all, and nobody is done before the schema is.
SchemaInv ==
    /\ \A p \in D!Processes :
           /\ procs[p].pc \notin {"off", "connect"} => database.version <= D!Current
           /\ procs[p].pc \in {"recover", "open"} => database.version = D!Current
    /\ database.legacy => database.exists
    /\ \A p \in D!Processes : database.legacy /\ procs[p].pc # "off" => procs[p].existed

\* While one starts at a time, an old database has its whole copy before it is migrated.
BackupInv ==
    database.legacy /\ ~disturbed =>
        /\ \A p, q \in D!Processes : D!Starting(p) /\ D!Starting(q) => p = q
        /\ \A p \in D!Processes :
               /\ procs[p].pc \in {"backup", "copying"} => database.version < D!Current
               /\ procs[p].pc \in {"one", "two", "create"} => backup \in 0..(D!Current - 1)
        /\ database.version = D!Current => backup \in 0..(D!Current - 1)
        /\ backup = D!Partial => \E p \in D!Processes : procs[p].pc = "copying"
        /\ backup < D!Current

\* A server that runs holds the lock, so no other server interrupts its task.
WriterInv ==
    /\ \A s \in Servers : procs[s].pc # "off" => writer = s
    /\ harmed \subseteq Clis

StartInv == StartShape /\ SchemaInv /\ BackupInv /\ WriterInv

\* The process alone moves, and to where.
MovesTo(p, pc) ==
    /\ procs'[p].pc = pc
    /\ procs'[p].existed = procs[p].existed
    /\ \A q \in D!Processes \ {p} : procs'[q] = procs[q]

\* A process that goes on keeps its shape and leaves the others alone.
LEMMA GotoShape ==
    ASSUME StartShape, NEW p \in D!Processes, NEW pc \in StartLabels, D!Goto(p, pc)
    PROVE  /\ procs' \in [D!Processes -> [pc : StartLabels, existed : BOOLEAN,
                                       version : 0..D!Current]]
           /\ MovesTo(p, pc)
BY DEF StartShape, D!Goto, MovesTo

\* The end of a process, however it comes, frees nobody else's lock.
LEMMA EndShape ==
    ASSUME StartShape, NEW p \in D!Processes, D!End(p)
    PROVE  /\ procs' \in [D!Processes -> [pc : StartLabels, existed : BOOLEAN,
                                       version : 0..D!Current]]
           /\ procs'[p].pc = "off"
           /\ \A q \in D!Processes \ {p} : procs'[q] = procs[q]
           /\ writer = p => writer' = D!None
           /\ writer # p => writer' = writer
<1>1. D!Off \in [pc : StartLabels, existed : BOOLEAN, version : 0..D!Current]
  BY SMT DEF D!Off, StartLabels, D!Current
<1> QED BY <1>1 DEF StartShape, D!End, D!Off

\* A step that ends a process and writes nothing keeps the invariant, provided that a
\* backup cut short is known.
LEMMA EndKeeps ==
    ASSUME D!DirectoryAssumption, StartInv, NEW p \in D!Processes, D!End(p),
           UNCHANGED <<backup, harmed>>,
           database' \in [exists : BOOLEAN, version : 0..D!Newer, legacy : BOOLEAN],
           database'.version = database.version, database'.legacy = database.legacy,
           database.exists => database'.exists,
           disturbed' \in BOOLEAN, disturbed => disturbed',
           procs[p].pc = "copying" => disturbed'
    PROVE  StartInv'
<1>1. /\ procs' \in [D!Processes -> [pc : StartLabels, existed : BOOLEAN,
                                  version : 0..D!Current]]
      /\ procs'[p].pc = "off"
      /\ \A q \in D!Processes \ {p} : procs'[q] = procs[q]
      /\ writer = p => writer' = D!None
      /\ writer # p => writer' = writer
  BY EndShape DEF StartInv
<1>2. StartShape'
  BY <1>1 DEF StartInv, StartShape
<1>3. SchemaInv'
  BY <1>1 DEF StartInv, SchemaInv
<1>4. BackupInv'
  BY <1>1 DEF StartInv, BackupInv, D!Starting
<1>5. WriterInv'
  BY <1>1 DEF StartInv, WriterInv, D!Processes, D!DirectoryAssumption, D!None
<1> QED BY <1>2, <1>3, <1>4, <1>5 DEF StartInv

\* A process that starts has the lock if it is a server, and has not looked yet.
LEMMA LaunchKeeps ==
    ASSUME D!DirectoryAssumption, StartInv, NEW p \in D!Processes, D!Launch(p)
    PROVE  StartInv'
<1>1. /\ procs[p].pc = "off" /\ UNCHANGED <<database, backup, harmed>>
      /\ disturbed' = (disturbed \/ \E q \in D!Processes : D!Starting(q))
      /\ procs' = [procs EXCEPT
             ![p] = [D!Off EXCEPT !.pc = "connect", !.existed = database.exists]]
  BY DEF D!Launch
<1>2. /\ procs' \in [D!Processes -> [pc : StartLabels, existed : BOOLEAN,
                                  version : 0..D!Current]]
      /\ procs'[p].pc = "connect" /\ procs'[p].existed = database.exists
      /\ \A q \in D!Processes \ {p} : procs'[q] = procs[q]
  <2>1. database.exists \in BOOLEAN
    BY DEF StartInv, StartShape
  <2>2. D!Off \in [pc : StartLabels, existed : BOOLEAN, version : 0..D!Current]
    BY SMT DEF D!Off, StartLabels, D!Current
  <2> QED BY <1>1, <2>1, <2>2 DEF StartInv, StartShape, StartLabels
<1>3. StartShape'
  BY <1>1, <1>2 DEF StartInv, StartShape
<1>4. SchemaInv'
  BY <1>1, <1>2 DEF StartInv, SchemaInv
<1>5. BackupInv'
  BY <1>1, <1>2 DEF StartInv, BackupInv, D!Starting
<1>6. WriterInv'
  BY <1>1, <1>2
  DEF StartInv, WriterInv, D!Launch, D!Acquire, D!Processes, D!DirectoryAssumption, D!None
<1> QED BY <1>3, <1>4, <1>5, <1>6 DEF StartInv

\* Opening the database: a newer schema ends the process, an older one is backed up.
LEMMA ConnectKeeps ==
    ASSUME D!DirectoryAssumption, StartInv, NEW p \in D!Processes, D!Connect(p)
    PROVE  StartInv'
<1>1. /\ procs[p].pc = "connect" /\ UNCHANGED <<backup, disturbed, harmed>>
      /\ database' = [database EXCEPT !.exists = TRUE]
  BY DEF D!Connect
<1>2. /\ database' \in [exists : BOOLEAN, version : 0..D!Newer, legacy : BOOLEAN]
      /\ database'.version = database.version /\ database'.legacy = database.legacy
      /\ database'.exists
  BY <1>1 DEF StartInv, StartShape
<1>3. CASE database.version > D!Current
  <2>1. D!End(p)
    BY <1>3 DEF D!Connect
  <2> QED BY <1>1, <1>2, <2>1, EndKeeps DEF StartInv, StartShape
<1>4. CASE ~(database.version > D!Current)
  <2> DEFINE pc == IF D!NeedsBackup(procs[p].existed, database.version) THEN "backup" ELSE "one"
  <2>1. /\ procs' = [procs EXCEPT ![p].version = database.version, ![p].pc = pc]
        /\ UNCHANGED writer
    BY <1>4 DEF D!Connect
  <2>2. /\ pc \in {"backup", "one"}
        /\ procs[p].existed => (pc = "backup" <=> database.version < D!Current)
        /\ pc = "backup" => database.version < D!Current
    BY DEF D!NeedsBackup
  <2> HIDE DEF pc
  <2>3. database.version \in 0..D!Current
    BY <1>4, SMT DEF StartInv, StartShape, D!Newer, D!Current
  <2>4. /\ procs' \in [D!Processes -> [pc : StartLabels, existed : BOOLEAN,
                                    version : 0..D!Current]]
        /\ MovesTo(p, pc)
    BY <2>1, <2>2, <2>3 DEF StartInv, StartShape, StartLabels, MovesTo
  <2>5. StartShape'
    BY <1>1, <1>2, <2>4 DEF StartInv, StartShape
  <2>6. SchemaInv'
    BY <1>1, <1>2, <2>2, <2>3, <2>4, SMT DEF StartInv, SchemaInv, MovesTo, D!Current
  <2>7. BackupInv'
    <3> SUFFICES ASSUME database.legacy, ~disturbed PROVE BackupInv'
      BY <1>1, <1>2 DEF BackupInv
    <3>1. procs[p].existed
      BY <1>1 DEF StartInv, SchemaInv
    <3>2. pc = "one" => backup \in 0..(D!Current - 1)
      BY <2>2, <2>3, <3>1, SMT DEF StartInv, BackupInv, D!Current
    <3> QED BY <1>1, <1>2, <2>2, <2>4, <3>2 DEF StartInv, BackupInv, D!Starting, MovesTo
  <2>8. WriterInv'
    BY <1>1, <2>1, <2>4 DEF StartInv, WriterInv, MovesTo, D!Processes
  <2> QED BY <2>5, <2>6, <2>7, <2>8 DEF StartInv
<1> QED BY <1>3, <1>4

\* The backup is begun where there is none, and then holds an old version.
LEMMA BackupKeeps ==
    ASSUME D!DirectoryAssumption, StartInv, NEW p \in D!Processes,
           D!BeginBackup(p) \/ D!CopyBackup(p)
    PROVE  StartInv'
<1>1. /\ UNCHANGED <<database, writer, disturbed, harmed>>
      /\ procs[p].pc \in {"backup", "copying"}
  BY DEF D!BeginBackup, D!CopyBackup
<1>2. \/ /\ backup = D!Missing /\ backup' = D!Partial
         /\ procs[p].pc = "backup" /\ D!Goto(p, "copying")
      \/ backup # D!Missing /\ backup' = backup /\ procs[p].pc = "backup" /\ D!Goto(p, "one")
      \/ backup' = database.version /\ procs[p].pc = "copying" /\ D!Goto(p, "one")
  BY DEF D!BeginBackup, D!CopyBackup
<1>3. /\ procs' \in [D!Processes -> [pc : StartLabels, existed : BOOLEAN,
                                  version : 0..D!Current]]
      /\ MovesTo(p, procs'[p].pc) /\ procs'[p].pc \in {"copying", "one"}
      /\ procs'[p].pc = "copying" <=> D!Goto(p, "copying")
  <2>1. CASE D!Goto(p, "copying")
    BY <2>1, GotoShape DEF StartInv, MovesTo, StartLabels
  <2>2. CASE D!Goto(p, "one") /\ ~D!Goto(p, "copying")
    BY <2>2, GotoShape DEF StartInv, MovesTo, StartLabels
  <2> QED BY <1>2, <2>1, <2>2
<1>4. database.version \in 0..D!Current
  BY <1>1, SMT DEF StartInv, StartShape, SchemaInv, D!Newer, D!Current
<1>5. StartShape'
  <2>1. backup' \in D!Missing..D!Current
    BY <1>2, <1>4, SMT DEF StartInv, StartShape, D!Missing, D!Partial, D!Current
  <2> QED BY <1>1, <1>3, <2>1 DEF StartInv, StartShape
<1>6. SchemaInv'
  BY <1>1, <1>3 DEF StartInv, SchemaInv, MovesTo
<1>7. BackupInv'
  <2> SUFFICES ASSUME database.legacy, ~disturbed PROVE BackupInv'
    BY <1>1 DEF BackupInv
  <2>1. /\ \A q \in D!Processes : D!Starting(q) => q = p
        /\ database.version < D!Current
        /\ backup = D!Partial => procs[p].pc = "copying"
        /\ backup < D!Current
    BY <1>1 DEF StartInv, BackupInv, D!Starting
  <2>2. \A q \in D!Processes : D!Starting(q)' => q = p
    BY <1>3, <2>1 DEF MovesTo, D!Starting
  <2>3. procs'[p].pc = "one" => backup' \in 0..(D!Current - 1)
    BY <1>2, <1>3, <1>4, <2>1, SMT DEF StartInv, StartShape, D!Missing, D!Partial, D!Current
  <2>4. backup' = D!Partial => procs'[p].pc = "copying"
    BY <1>2, <1>3, <1>4, <2>1, SMT DEF D!Missing, D!Partial, D!Current
  <2>5. backup' < D!Current
    BY <1>2, <2>1, SMT DEF D!Missing, D!Partial, D!Current
  <2>6. \A q \in D!Processes :
            /\ procs'[q].pc \in {"backup", "copying"} => database'.version < D!Current
            /\ procs'[q].pc \in {"one", "two", "create"} => backup' \in 0..(D!Current - 1)
    <3> SUFFICES ASSUME NEW q \in D!Processes,
                        procs'[q].pc \in {"backup", "copying", "one", "two", "create"}
                 PROVE  q = p
      BY <1>1, <1>3, <2>1, <2>3
    <3> QED BY <2>2 DEF D!Starting
  <2>7. database'.version # D!Current
    BY <1>1, <1>4, <2>1, SMT DEF D!Current
  <2> QED BY <2>2, <2>4, <2>5, <2>6, <2>7 DEF BackupInv
<1>8. WriterInv'
  BY <1>1, <1>3 DEF StartInv, WriterInv, MovesTo, D!Processes
<1> QED BY <1>5, <1>6, <1>7, <1>8 DEF StartInv

\* The two versions: each is made by a process that has found the backup in place.
LEMMA MigrateKeeps ==
    ASSUME D!DirectoryAssumption, StartInv, NEW p \in D!Processes,
           D!MigrateOne(p) \/ D!CheckTwo(p) \/ D!CreateTables(p)
    PROVE  StartInv'
<1>1. /\ UNCHANGED <<backup, disturbed, harmed>>
      /\ procs[p].pc \in {"one", "two", "create"}
  BY DEF D!MigrateOne, D!CheckTwo, D!CreateTables
<1>2. CASE D!End(p) /\ UNCHANGED database
  <2>1. database' \in [exists : BOOLEAN, version : 0..D!Newer, legacy : BOOLEAN]
    BY <1>2 DEF StartInv, StartShape
  <2> QED BY <1>1, <1>2, <2>1, EndKeeps DEF StartInv, StartShape
<1>3. CASE ~(D!End(p) /\ UNCHANGED database)
  <2>1. /\ UNCHANGED writer
        /\ \/ /\ database' = [database EXCEPT !.version = IF @ < 1 THEN 1 ELSE @]
              /\ D!Goto(p, "two") /\ procs[p].pc = "one"
           \/ /\ UNCHANGED database /\ procs[p].pc = "two"
              /\ \/ D!Goto(p, "create")
                 \/ D!Goto(p, "recover") /\ ~(database.version < D!Current)
           \/ /\ database' = [database EXCEPT !.version = D!Current]
              /\ D!Goto(p, "recover") /\ procs[p].pc = "create"
    BY <1>3 DEF D!MigrateOne, D!CheckTwo, D!CreateTables
  <2>2. /\ procs' \in [D!Processes -> [pc : StartLabels, existed : BOOLEAN,
                                    version : 0..D!Current]]
        /\ MovesTo(p, procs'[p].pc) /\ procs'[p].pc \in {"two", "create", "recover"}
        /\ \A pc \in {"two", "create", "recover"} : D!Goto(p, pc) => procs'[p].pc = pc
    BY <2>1, GotoShape DEF StartInv, MovesTo, StartLabels
  <2>3. database.version \in 0..D!Current
    BY <1>1, SMT DEF StartInv, StartShape, SchemaInv, D!Newer, D!Current
  <2>4. /\ database' \in [exists : BOOLEAN, version : 0..D!Newer, legacy : BOOLEAN]
        /\ database'.exists = database.exists /\ database'.legacy = database.legacy
        /\ database'.version \in 0..D!Current
        /\ database.version = D!Current => database'.version = D!Current
        /\ procs'[p].pc = "recover" => database'.version = D!Current
    BY <2>1, <2>2, <2>3, SMT DEF StartInv, StartShape, D!Newer, D!Current
  <2>5. StartShape'
    BY <1>1, <2>2, <2>4 DEF StartInv, StartShape
  <2>6. SchemaInv'
    BY <1>1, <2>2, <2>4, SMT DEF StartInv, SchemaInv, MovesTo, D!Current
  <2>7. BackupInv'
    <3> SUFFICES ASSUME database.legacy, ~disturbed PROVE BackupInv'
      BY <1>1, <2>4 DEF BackupInv
    <3>1. /\ \A q \in D!Processes : D!Starting(q) => q = p
          /\ backup \in 0..(D!Current - 1)
      BY <1>1 DEF StartInv, BackupInv, D!Starting
    <3>2. \A q \in D!Processes : D!Starting(q)' => q = p
      BY <2>2, <3>1 DEF MovesTo, D!Starting
    <3>3. \A q \in D!Processes : procs'[q].pc \notin {"backup", "copying"}
      BY <2>2, <3>2 DEF D!Starting
    <3>4. backup # D!Partial /\ backup < D!Current
      BY <3>1, SMT DEF D!Partial, D!Current
    <3> QED BY <1>1, <3>1, <3>2, <3>3, <3>4 DEF BackupInv
  <2>8. WriterInv'
    BY <1>1, <2>1, <2>2 DEF StartInv, WriterInv, MovesTo, D!Processes
  <2> QED BY <2>5, <2>6, <2>7, <2>8 DEF StartInv
<1> QED BY <1>2, <1>3

\* interrupt_active_tasks by a server finds no other server at work.
LEMMA RecoverKeeps ==
    ASSUME D!DirectoryAssumption, StartInv, NEW p \in D!Processes, D!Recover(p)
    PROVE  StartInv'
<1>1. /\ procs[p].pc = "recover" /\ UNCHANGED <<database, backup, writer, disturbed>>
      /\ D!Goto(p, "open")
      /\ harmed' = IF \E s \in Servers : tasks[s] = "active" /\ D!Open(s) THEN harmed \cup {p}
                   ELSE harmed
  BY DEF D!Recover
<1>2. /\ procs' \in [D!Processes -> [pc : StartLabels, existed : BOOLEAN,
                                  version : 0..D!Current]]
      /\ MovesTo(p, "open")
  BY <1>1, GotoShape DEF StartInv, StartLabels
<1>3. StartShape'
  BY <1>1, <1>2 DEF StartInv, StartShape
<1>4. SchemaInv'
  BY <1>1, <1>2 DEF StartInv, SchemaInv, MovesTo
<1>5. BackupInv'
  BY <1>1, <1>2 DEF StartInv, BackupInv, D!Starting, MovesTo
<1>6. WriterInv'
  <2>1. ASSUME p \in Servers, NEW s \in Servers PROVE ~D!Open(s)
    BY <1>1, <2>1 DEF StartInv, WriterInv, D!Open
  <2>2. harmed' \subseteq Clis
    BY <1>1, <2>1 DEF StartInv, WriterInv, D!Processes
  <2> QED BY <1>1, <1>2, <2>2 DEF StartInv, WriterInv, MovesTo, D!Processes
<1> QED BY <1>3, <1>4, <1>5, <1>6 DEF StartInv

\* Every step of a start, a task or a death keeps what a start relies on.
LEMMA StartStep ==
    ASSUME D!DirectoryAssumption, StartInv, [D!Next]_(D!directoryVars)
    PROVE  StartInv'
<1>1. CASE UNCHANGED <<database, backup, writer, procs, disturbed, harmed>>
  BY <1>1 DEF StartInv, StartShape, SchemaInv, BackupInv, WriterInv, D!Starting
<1>2. ASSUME NEW p \in D!Processes, D!Launch(p) PROVE StartInv'
  BY <1>2, LaunchKeeps
<1>3. ASSUME NEW p \in D!Processes, D!Connect(p) PROVE StartInv'
  BY <1>3, ConnectKeeps
<1>4. ASSUME NEW p \in D!Processes, D!BeginBackup(p) \/ D!CopyBackup(p) PROVE StartInv'
  BY <1>4, BackupKeeps
<1>5. ASSUME NEW p \in D!Processes, D!MigrateOne(p) \/ D!CheckTwo(p) \/ D!CreateTables(p)
      PROVE  StartInv'
  BY <1>5, MigrateKeeps
<1>6. ASSUME NEW p \in D!Processes, D!Recover(p) PROVE StartInv'
  BY <1>6, RecoverKeeps
<1>7. ASSUME NEW p \in D!Processes, D!Die(p) PROVE StartInv'
  <2>1. /\ D!End(p) /\ disturbed' = (disturbed \/ procs[p].pc = "copying")
        /\ UNCHANGED <<database, backup, harmed>>
    BY <1>7 DEF D!Die
  <2>2. database' \in [exists : BOOLEAN, version : 0..D!Newer, legacy : BOOLEAN]
    BY <2>1 DEF StartInv, StartShape
  <2>3. disturbed \in BOOLEAN
    BY DEF StartInv, StartShape
  <2> QED BY <2>1, <2>2, <2>3, EndKeeps
<1>8. ASSUME NEW s \in Servers, D!StartTask(s) \/ D!FinishTask(s) PROVE StartInv'
  BY <1>1, <1>8 DEF D!StartTask, D!FinishTask
<1> QED BY <1>1, <1>2, <1>3, <1>4, <1>5, <1>6, <1>7, <1>8 DEF D!Next, D!directoryVars

\* It holds before any process has started.
LEMMA StartStart ==
    ASSUME D!Init
    PROVE  StartInv
<1>1. /\ backup = D!Missing /\ disturbed = FALSE /\ harmed = {}
      /\ procs = [p \in D!Processes |-> D!Off] /\ D!Off.pc = "off"
  BY DEF D!Init, D!Off
<1>2. /\ database \in [exists : BOOLEAN, version : 0..D!Newer, legacy : BOOLEAN]
      /\ database.legacy => database.exists /\ database.version # D!Current
  <2>1. /\ 0 \in 0..D!Newer /\ 1 \in 0..D!Newer /\ D!Newer \in 0..D!Newer
        /\ 0 # D!Current /\ 1 # D!Current /\ D!Newer # D!Current
    BY SMT DEF D!Newer, D!Current
  <2>2. CASE database \in [exists : {TRUE}, version : {0, 1}, legacy : {TRUE}]
    BY <2>1, <2>2
  <2>3. CASE database \in [exists : {FALSE}, version : {0}, legacy : {FALSE}]
    BY <2>1, <2>3
  <2>4. CASE database \in [exists : {TRUE}, version : {D!Newer}, legacy : {FALSE}]
    BY <2>1, <2>4
  <2> QED BY <2>2, <2>3, <2>4 DEF D!Init
<1>3. D!Off \in [pc : StartLabels, existed : BOOLEAN, version : 0..D!Current]
  BY SMT DEF D!Off, StartLabels, D!Current
<1>4. /\ backup \in D!Missing..D!Current /\ backup # D!Partial /\ backup < D!Current
  BY <1>1, SMT DEF D!Missing, D!Partial, D!Current
<1>5. StartShape
  BY <1>1, <1>2, <1>3, <1>4 DEF StartShape
<1>6. SchemaInv
  BY <1>1, <1>2 DEF SchemaInv
<1>7. BackupInv
  BY <1>1, <1>2, <1>4 DEF BackupInv, D!Starting
<1>8. WriterInv
  BY <1>1 DEF WriterInv, D!Processes
<1> QED BY <1>5, <1>6, <1>7, <1>8 DEF StartInv

\* What is left of the types: the tasks' rows, the processes started and the lock.
RowsInv ==
    /\ tasks \in [Servers -> {D!None, "active", "completed", "interrupted"}]
    /\ starts \in 0..MaxProcesses
    /\ writer \in Servers \cup {D!None}

\* A row is written by its server and by a recovery only.
LEMMA RowsStep ==
    ASSUME D!DirectoryAssumption, RowsInv, [D!Next]_(D!directoryVars)
    PROVE  RowsInv'
<1>1. CASE UNCHANGED <<writer, tasks, starts>>
  BY <1>1 DEF RowsInv
<1>2. ASSUME NEW p \in D!Processes, D!Launch(p) PROVE RowsInv'
  <2>1. starts' \in 0..MaxProcesses
    BY <1>2, SMT DEF D!Launch, RowsInv, D!DirectoryAssumption
  <2>2. writer' \in Servers \cup {D!None} /\ tasks' = tasks
    BY <1>2 DEF D!Launch, D!Acquire, RowsInv
  <2> QED BY <2>1, <2>2 DEF RowsInv
<1>3. ASSUME NEW p \in D!Processes, D!End(p), UNCHANGED <<tasks, starts>> PROVE RowsInv'
  BY <1>3 DEF D!End, RowsInv
<1>4. ASSUME NEW p \in D!Processes,
             \/ D!Connect(p) \/ D!BeginBackup(p) \/ D!CopyBackup(p) \/ D!MigrateOne(p)
             \/ D!CheckTwo(p) \/ D!CreateTables(p) \/ D!Die(p)
      PROVE  RowsInv'
  <2>1. /\ UNCHANGED <<tasks, starts>>
        /\ D!End(p) \/ UNCHANGED writer
    BY <1>4
    DEF D!Connect, D!BeginBackup, D!CopyBackup, D!MigrateOne, D!CheckTwo, D!CreateTables, D!Die
  <2> QED BY <1>1, <1>3, <2>1
<1>5. ASSUME NEW p \in D!Processes, D!Recover(p) PROVE RowsInv'
  BY <1>5 DEF D!Recover, RowsInv
<1>6. ASSUME NEW s \in Servers, D!StartTask(s) \/ D!FinishTask(s) PROVE RowsInv'
  BY <1>6 DEF D!StartTask, D!FinishTask, RowsInv
<1> QED BY <1>1, <1>2, <1>4, <1>5, <1>6 DEF D!Next, D!directoryVars

LEMMA RowsStart ==
    ASSUME D!DirectoryAssumption, D!Init
    PROVE  RowsInv
<1>1. 0 \in 0..MaxProcesses
  BY SMT DEF D!DirectoryAssumption
<1> QED BY <1>1 DEF D!Init, RowsInv

LEMMA DirectoryTypes ==
    ASSUME StartInv, RowsInv
    PROVE  D!TypeOK
BY DEF StartInv, StartShape, RowsInv, D!TypeOK

\* Whatever starts and dies when, whoever is open has the newest schema, a migrated
\* database has its backup unless one was cut short or two started at once, and no server
\* takes a task from a server (migrate, create_backup, interrupt_active_tasks).
THEOREM StartupCorrect == D!DirectoryAssumption => (Spec => []StartupIsSafe)
<1> SUFFICES ASSUME D!DirectoryAssumption PROVE Spec => []StartupIsSafe
  OBVIOUS
<1>1. Init => StartInv
  BY StartStart DEF Init
<1>2. StartInv /\ [Next]_vars => StartInv'
  <2>1. [Next]_vars => [D!Next]_(D!directoryVars)
    BY DEF Next, vars, Only, directory, D!directoryVars
  <2> QED BY <2>1, StartStep
<1>3. StartInv => StartupIsSafe
  BY DEF StartInv, SchemaInv, BackupInv, WriterInv, D!StartupIsSafe, StartupIsSafe
<1> QED BY <1>1, <1>2, <1>3, PTL DEF Spec

-----------------------------------------------------------------------------
(* The configuration.                                                      *)

Settings == Keys \X (Values \cup {Invalid})

Actor == [pc : {"off", "idle", "set", "truncate", "write"},
          config : C!Configs, clone : C!Configs, queue : Seq(Settings)]

\* The shape of the file and of the actors.
ConfigShape ==
    /\ config \in C!Configs \cup {C!Broken}
    /\ actors \in [Actors -> Actor]
    /\ asked \in [Actors -> Seq(Settings)] /\ before \in [Actors -> C!Configs]

\* While a key is saved, the clone is the configuration with it; nothing is asked of a
\* process that does not run; and the configuration is what is promised of it.
ActorInv(a) ==
    /\ actors[a].pc \in {"truncate", "write"} =>
           /\ actors[a].queue # <<>>
           /\ actors[a].clone = C!Assign(actors[a].config, Head(actors[a].queue))
    /\ actors[a].pc = "off" => asked[a] = <<>>
    /\ actors[a].pc # "off" =>
           /\ ~torn /\ a \notin foreign => actors[a].config = config
           /\ actors[a].config = C!Applied(before[a], asked[a])

ConfigInv == ConfigShape /\ \A a \in Actors : ActorInv(a)

\* A process that does not run holds the defaults.
LEMMA OffShape ==
    ASSUME C!ConfigurationAssumption
    PROVE  C!Off \in Actor /\ C!Defaults \in C!Configs
<1>1. C!Defaults \in C!Configs
  BY DEF C!Configs, C!Defaults, C!ConfigurationAssumption
<1> QED BY <1>1 DEF C!Off, Actor

\* No setting changes nothing.
LEMMA AppliedNothing ==
    ASSUME NEW c \in C!Configs
    PROVE  C!Applied(c, <<>>) = c
BY DEF C!Applied, C!Configs

\* A set of naturals has a last one if it is bounded.
LEMMA LastExists ==
    ASSUME NEW n \in Nat, NEW S \in SUBSET (0..n), S # {}
    PROVE  \E x \in S : \A y \in S : y <= x
<1> DEFINE Less == {ss \in Nat \X Nat : ss[1] < ss[2]}
           T == {n - x : x \in S}
<1>1. IsWellFoundedOn(Less, Nat)
  BY NatLessThanWellFounded DEF OpToRel
<1>2. T \subseteq Nat /\ T # {}
  <2>1. \A x \in S : x \in Nat /\ n - x \in Nat
    OBVIOUS
  <2>2. T \subseteq Nat
    BY <2>1
  <2>3. PICK x \in S : TRUE
    OBVIOUS
  <2>4. n - x \in T
    BY <2>3
  <2> QED BY <2>2, <2>4
<1>3. PICK z \in T : \A y \in T : <<y, z>> \notin Less
  <2> HIDE DEF Less, T
  <2> QED BY <1>1, <1>2, WFMin, Zenon
<1>4. PICK x \in S : z = n - x
  BY <1>3
<1>5. ASSUME NEW y \in S PROVE y <= x
  <2>1. n - y \in Nat /\ n - x \in Nat /\ x \in Nat /\ y \in Nat
    OBVIOUS
  <2>2. ~(n - y < n - x)
    BY <1>3, <1>4, <2>1
  <2> QED BY <2>1, <2>2
<1> QED BY <1>4, <1>5

\* One more setting is assigned to what the others have made.
LEMMA AppliedAppend ==
    ASSUME NEW c \in C!Configs, NEW given \in Seq(Settings), NEW x \in Settings
    PROVE  C!Applied(c, Append(given, x)) = C!Assign(C!Applied(c, given), x)
<1> DEFINE more == Append(given, x)
           N == Len(given)
           Of(s, k) == {n \in DOMAIN s : s[n][1] = k}
           Value(s, k) == IF Of(s, k) = {} THEN c[k] ELSE s[C!LastOf(Of(s, k))][2]
<1>1. /\ N \in Nat /\ DOMAIN given = 1..N /\ DOMAIN more = 1..(N + 1)
      /\ \A n \in 1..N : more[n] = given[n]
      /\ more[N + 1] = x
  OBVIOUS
<1>2. x[1] \in Keys
  BY DEF Settings
<1>3. /\ C!Applied(c, more) = [k \in Keys |-> Value(more, k)]
      /\ C!Applied(c, given) = [k \in Keys |-> Value(given, k)]
  BY Zenon DEF C!Applied
<1> HIDE DEF more, N
<1>4. ASSUME NEW k \in Keys, k # x[1]
      PROVE  Value(more, k) = Value(given, k)
  <2>1. Of(more, k) = Of(given, k)
    BY <1>1, <1>4
  <2>2. Of(given, k) # {} => C!LastOf(Of(given, k)) \in 1..N
    <3>1. Of(given, k) \in SUBSET (0..N)
      BY <1>1
    <3>2. Of(given, k) # {} => \E n \in Of(given, k) : \A m \in Of(given, k) : m <= n
      BY <1>1, <3>1, LastExists
    <3>3. Of(given, k) # {} => \E n \in Of(given, k) : C!Latest(Of(given, k)) = {n}
      BY <1>1, <3>2 DEF C!Latest
    <3> QED BY <1>1, <3>2, <3>3 DEF C!LastOf
  <2> QED BY <1>1, <2>1, <2>2
<1>5. Value(more, x[1]) = x[2]
  <2>1. N + 1 \in Of(more, x[1]) /\ \A n \in Of(more, x[1]) : n \in 1..(N + 1)
    BY <1>1
  <2>2. C!Latest(Of(more, x[1])) = {N + 1}
    BY <1>1, <2>1 DEF C!Latest
  <2> QED BY <1>1, <2>1, <2>2 DEF C!LastOf
<1> HIDE DEF Value
<1>6. C!Assign(C!Applied(c, given), x)
         = [k \in Keys |-> IF k = x[1] THEN x[2] ELSE Value(given, k)]
  BY <1>2, <1>3 DEF C!Assign
<1> QED BY <1>3, <1>4, <1>5, <1>6 DEF more

\* A step of one process leaves the others as they are, and what was the file's is so still.
Alone(a) ==
    \A b \in Actors \ {a} :
        /\ actors'[b] = actors[b] /\ asked'[b] = asked[b] /\ before'[b] = before[b]
        /\ b \notin foreign' /\ ~torn' => b \notin foreign /\ ~torn /\ config' = config

\* Every step of a process or of its end keeps the invariant.
LEMMA ConfigStep ==
    ASSUME C!ConfigurationAssumption, ConfigInv, [C!Next]_(C!configVars)
    PROVE  ConfigInv'
<1>1. ASSUME NEW a \in Actors, ConfigShape', Alone(a), ActorInv(a)'
      PROVE  ConfigInv'
  <2>1. ASSUME NEW b \in Actors, b # a PROVE ActorInv(b)'
    BY <1>1, <2>1 DEF ConfigInv, ActorInv, Alone
  <2> QED BY <1>1, <2>1 DEF ConfigInv
<1>2. CASE UNCHANGED C!configVars
  BY <1>2 DEF C!configVars, ConfigInv, ConfigShape, Actor, ActorInv, ActorInv
<1>3. ASSUME NEW a \in Actors, C!Start(a) PROVE ConfigInv'
  <2>1. config \in C!Configs
    BY <1>3 DEF C!Start, ConfigInv, ConfigShape, Actor
  <2>2. asked[a] = <<>>
    BY <1>3 DEF C!Start, ConfigInv, ActorInv
  <2>3. /\ actors'[a].pc = "idle" /\ actors'[a].config = config
        /\ asked' = asked /\ before'[a] = config /\ config' = config
    BY <1>3 DEF C!Start, ConfigInv, ConfigShape, Actor
  <2>4. ConfigShape'
    <3>1. [C!Off EXCEPT !.pc = "idle", !.config = config] \in Actor
      BY <2>1, OffShape DEF Actor
    <3>2. actors' \in [Actors -> Actor]
      BY <1>3, <3>1 DEF C!Start, ConfigInv, ConfigShape, Actor
    <3>3. asked' \in [Actors -> Seq(Settings)] /\ before' \in [Actors -> C!Configs]
      BY <1>3, <2>1 DEF C!Start, ConfigInv, ConfigShape, Actor
    <3> QED BY <2>1, <2>3, <3>2, <3>3 DEF ConfigShape
  <2>5. Alone(a)
    BY <1>3 DEF C!Start, ConfigInv, ConfigShape, Actor, Alone
  <2>6. ActorInv(a)'
    BY <2>1, <2>2, <2>3, AppliedNothing DEF ActorInv
  <2> QED BY <1>1, <2>4, <2>5, <2>6
<1>4. ASSUME NEW a \in Actors, C!Update(a) PROVE ConfigInv'
  <2>1. PICK change \in Changes :
            actors' = [actors EXCEPT ![a].pc = "set", ![a].queue = change]
    BY <1>4 DEF C!Update
  <2>2. change \in Seq(Settings) /\ actors[a].config \in C!Configs
    BY DEF C!ConfigurationAssumption, Settings, ConfigInv, ConfigShape, Actor
  <2>3. ConfigShape'
    <3>1. actors' \in [Actors -> Actor]
      BY <2>1, <2>2 DEF ConfigInv, ConfigShape, Actor
    <3>2. asked' \in [Actors -> Seq(Settings)] /\ before' \in [Actors -> C!Configs]
      BY <1>4, <2>2 DEF C!Update, ConfigInv, ConfigShape, Actor
    <3> QED BY <1>4, <3>1, <3>2 DEF C!Update, ConfigInv, ConfigShape, Actor
  <2>4. Alone(a)
    BY <1>4, <2>1 DEF C!Update, ConfigInv, ConfigShape, Actor, Alone
  <2>5. /\ actors'[a].pc = "set" /\ actors'[a].config = actors[a].config
        /\ asked'[a] = <<>> /\ before'[a] = actors[a].config
        /\ actors[a].pc # "off" /\ UNCHANGED <<config, foreign, torn>>
    BY <1>4, <2>1 DEF C!Update, ConfigInv, ConfigShape, Actor
  <2>6. ActorInv(a)'
    BY <2>2, <2>5, AppliedNothing DEF ConfigInv, ActorInv
  <2> QED BY <1>1, <2>3, <2>4, <2>6
<1>5. ASSUME NEW a \in Actors, C!SetKey(a) PROVE ConfigInv'
  <2> DEFINE x == Head(actors[a].queue)
  <2>1. /\ actors[a].queue \in Seq(Settings) /\ actors[a].queue # <<>>
        /\ actors[a].config \in C!Configs /\ actors[a].pc = "set"
        /\ UNCHANGED <<config, overlaid, asked, before, foreign, torn>>
    BY <1>5 DEF C!SetKey, ConfigInv, ConfigShape, Actor
  <2>2. x \in Settings
    BY <2>1
  <2> HIDE DEF x
  <2>3. CASE ~C!Valid(x)
    <3>1. actors' = [actors EXCEPT ![a].pc = "idle", ![a].queue = <<>>]
      BY <1>5, <2>3 DEF C!SetKey, C!Idle, x
    <3>2. ConfigShape'
      BY <2>1, <3>1 DEF ConfigInv, ConfigShape, Actor
    <3>3. Alone(a) /\ ActorInv(a)'
      BY <2>1, <3>1 DEF ConfigInv, ConfigShape, Actor, ActorInv, Alone
    <3> QED BY <1>1, <3>2, <3>3
  <2>4. CASE C!Valid(x)
    <3>1. actors' = [actors EXCEPT ![a].pc = "truncate",
                                   ![a].clone = C!Assign(actors[a].config, x)]
      BY <1>5, <2>4 DEF C!SetKey, x
    <3>2. C!Assign(actors[a].config, x) \in C!Configs
      BY <2>1, <2>2, <2>4 DEF C!Assign, C!Configs, C!Valid, Settings
    <3>3. ConfigShape'
      BY <2>1, <3>1, <3>2 DEF ConfigInv, ConfigShape, Actor
    <3>4. /\ actors'[a].pc = "truncate" /\ actors'[a].queue = actors[a].queue
          /\ actors'[a].config = actors[a].config
          /\ actors'[a].clone = C!Assign(actors[a].config, x)
      BY <3>1 DEF ConfigInv, ConfigShape, Actor
    <3>5. ActorInv(a)'
      BY <2>1, <3>4 DEF ConfigInv, ActorInv, x
    <3>6. Alone(a)
      BY <2>1, <3>1 DEF ConfigInv, ConfigShape, Actor, Alone
    <3> QED BY <1>1, <3>3, <3>5, <3>6
  <2> QED BY <2>3, <2>4
<1>6. ASSUME NEW a \in Actors, C!Truncate(a) PROVE ConfigInv'
  <2>1. ConfigShape'
    BY <1>6 DEF C!Truncate, ConfigInv, ConfigShape, Actor, C!Configs, C!Defaults,
       C!ConfigurationAssumption
  <2>2. Alone(a) /\ ActorInv(a)'
    BY <1>6 DEF C!Truncate, ConfigInv, ConfigShape, Actor, ActorInv, Alone
  <2> QED BY <1>1, <2>1, <2>2
<1>7. ASSUME NEW a \in Actors, C!WriteAndAdopt(a) PROVE ConfigInv'
  <2> DEFINE x == Head(actors[a].queue)
             now == IF Len(actors[a].queue) = 1 THEN "idle" ELSE "set"
  <2>1. /\ actors[a].pc = "write"
        /\ actors[a].queue \in Seq(Settings) /\ actors[a].queue # <<>>
        /\ actors[a].clone \in C!Configs
        /\ actors[a].clone = C!Assign(actors[a].config, x)
        /\ actors[a].config = C!Applied(before[a], asked[a])
        /\ before[a] \in C!Configs /\ asked[a] \in Seq(Settings)
    BY <1>7 DEF C!WriteAndAdopt, ConfigInv, ConfigShape, Actor, ActorInv
  <2>2. /\ x \in Settings /\ Tail(actors[a].queue) \in Seq(Settings)
        /\ now \in {"idle", "set"}
    BY <2>1
  <2>3. /\ config' \in {actors[a].clone, C!Broken}
        /\ torn' = (config' = C!Broken)
        /\ foreign' = foreign \cup (Actors \ {a})
        /\ asked' = [asked EXCEPT ![a] = Append(asked[a], x)]
        /\ actors' = [actors EXCEPT ![a].config = actors[a].clone,
                                    ![a].queue = Tail(actors[a].queue), ![a].pc = now]
        /\ before' = before
    BY <1>7 DEF C!WriteAndAdopt, ConfigInv, ConfigShape, Actor
  <2> HIDE DEF x, now
  <2>4. Append(asked[a], x) \in Seq(Settings)
    BY <2>1, <2>2
  <2>5. ConfigShape'
    BY <2>1, <2>2, <2>3, <2>4 DEF ConfigInv, ConfigShape, Actor
  <2>6. Alone(a)
    BY <2>3 DEF ConfigInv, ConfigShape, Actor, Alone
  <2>7. actors'[a].config = C!Applied(before[a], Append(asked[a], x))
    BY <2>1, <2>2, <2>3, AppliedAppend DEF ConfigInv, ConfigShape, Actor
  <2>8. /\ actors'[a].pc \in {"idle", "set"} /\ actors'[a].config = actors[a].clone
        /\ asked'[a] = Append(asked[a], x)
    BY <2>2, <2>3 DEF ConfigInv, ConfigShape, Actor
  <2>9. ~torn' => config' = actors[a].clone
    BY <2>3
  <2>10. ActorInv(a)'
    BY <2>3, <2>7, <2>8, <2>9 DEF ActorInv
  <2> QED BY <1>1, <2>5, <2>6, <2>10
<1>8. ASSUME NEW a \in Actors, C!WriteFails(a) \/ C!Die(a) PROVE ConfigInv'
  <2>1. /\ config' \in C!Configs \cup {C!Broken}
        /\ \/ UNCHANGED <<config, torn>>
           \/ torn' = TRUE
        /\ UNCHANGED foreign
    <3>1. C!WritePart(a) /\ UNCHANGED foreign
      BY <1>8 DEF C!WriteFails, C!Die
    <3>2. CASE actors[a].pc = "write"
      <4>1. C!Prefixes(actors[a].clone) \subseteq C!Configs \cup {C!Broken}
        BY DEF C!Prefixes, C!Configs, ConfigInv, ConfigShape, Actor, C!ConfigurationAssumption
      <4> QED BY <3>1, <3>2, <4>1 DEF C!WritePart
    <3>3. CASE actors[a].pc # "write"
      BY <3>1, <3>3 DEF C!WritePart, ConfigInv, ConfigShape, Actor
    <3> QED BY <3>2, <3>3
  <2>2. CASE C!WriteFails(a)
    <3>1. /\ actors' = [actors EXCEPT ![a].pc = "idle", ![a].queue = <<>>]
          /\ actors[a].pc # "off" /\ UNCHANGED <<asked, before>>
      BY <2>2 DEF C!WriteFails, C!Idle
    <3>2. ConfigShape'
      <4>1. actors[a] \in Actor
        BY DEF ConfigInv, ConfigShape
      <4>2. [actors[a] EXCEPT !.pc = "idle", !.queue = <<>>] \in Actor
        BY <4>1, <<>> \in Seq(Settings) DEF Actor
      <4>3. actors' \in [Actors -> Actor]
        BY <3>1, <4>2 DEF ConfigInv, ConfigShape
      <4> QED BY <2>1, <3>1, <4>3 DEF ConfigInv, ConfigShape
    <3>3. Alone(a) /\ ActorInv(a)'
      BY <2>1, <3>1 DEF ConfigInv, ConfigShape, Actor, ActorInv, Alone
    <3> QED BY <1>1, <3>2, <3>3
  <2>3. CASE C!Die(a)
    <3>1. /\ actors' = [actors EXCEPT ![a] = C!Off]
          /\ asked' = [asked EXCEPT ![a] = <<>>]
          /\ before' = [before EXCEPT ![a] = C!Defaults]
      BY <2>3 DEF C!Die
    <3>2. ConfigShape'
      <4>1. actors' \in [Actors -> Actor] /\ before' \in [Actors -> C!Configs]
        BY <3>1, OffShape DEF ConfigInv, ConfigShape
      <4>2. asked' \in [Actors -> Seq(Settings)]
        BY <3>1 DEF ConfigInv, ConfigShape, Actor
      <4> QED BY <2>1, <4>1, <4>2 DEF ConfigShape
    <3>3. Alone(a) /\ ActorInv(a)'
      BY <2>1, <3>1 DEF ConfigInv, ConfigShape, Actor, C!Off, Alone, ActorInv
    <3> QED BY <1>1, <3>2, <3>3
  <2> QED BY <1>8, <2>2, <2>3
<1> QED BY <1>2, <1>3, <1>4, <1>5, <1>6, <1>7, <1>8 DEF C!Next

\* No file yet, and no process.
LEMMA ConfigStart ==
    ASSUME C!ConfigurationAssumption, C!Init
    PROVE  ConfigInv
<1>1. C!Defaults \in C!Configs
  BY DEF C!Configs, C!Defaults, C!ConfigurationAssumption
<1>2. ConfigShape
  BY <1>1, OffShape DEF C!Init, ConfigShape
<1>3. \A a \in Actors : actors[a].pc = "off" /\ asked[a] = <<>>
  BY DEF C!Init, C!Off
<1> QED BY <1>2, <1>3 DEF ConfigInv, ActorInv

\* What the service answers by is what a restart reads, unless the last write did not end
\* or another process saved since; and it is what the answered settings have made, one
\* after the other, whatever failed in between (SetConfig, FixTraceConfig::set and save).
THEOREM RestartCorrect == C!ConfigurationAssumption => (Spec => []RestartReadsSaved)
<1> SUFFICES ASSUME C!ConfigurationAssumption PROVE Spec => []RestartReadsSaved
  OBVIOUS
<1>1. Init => ConfigInv
  BY ConfigStart DEF Init
<1>2. ConfigInv /\ [Next]_vars => ConfigInv'
  <2>1. [Next]_vars => [C!Next]_(C!configVars)
    BY DEF Next, vars, Only, settings, C!configVars
  <2> QED BY <2>1, ConfigStep
<1>3. ConfigInv => RestartReadsSaved
  BY DEF ConfigInv, ActorInv, C!RestartReadsSaved, RestartReadsSaved
<1> QED BY <1>1, <1>2, <1>3, PTL DEF Spec

-----------------------------------------------------------------------------
(* The sandbox.                                                            *)

\* The files the patch writes.
Written == B!Writes(project, worktree)

\* What is in the tree of a trial: a file of the patch, what the project has, or a
\* directory made for a file of the patch.
Placed(p) ==
    \/ p \in Written /\ sandbox[p] = worktree[p]
    \/ p \in DOMAIN project /\ sandbox[p] = project[p]
    \/ /\ p \in B!Of(worktree, "directory") \ DOMAIN project
       /\ sandbox[p] = B!NewDirectory

\* The project, its baseline and its worktree, and the patch that a checkpoint has made.
SourceInv ==
    /\ project \in B!Trees
    /\ phase \notin {"start", "refused"} => base = B!Protected(project) /\ worktree \in B!Trees
    /\ phase \notin {"start", "recording", "edited", "refused"} =>
           /\ B!Changed(project, worktree) \cap B!Of(worktree, "symlink") = {}
           /\ patch = [writes |-> [p \in Written |-> worktree[p]],
                       deletes |-> B!Deletes(project, worktree)]

\* The tree of a trial.
TreeInv ==
    phase \in {"write", "delete", "replayed"} =>
        /\ B!Of(project, "symlink") = {}
        /\ DOMAIN sandbox \subseteq Paths
        /\ \A p \in DOMAIN sandbox : B!IsDirectory(sandbox, Parent[p]) /\ Placed(p)
        /\ DOMAIN project \cap DOMAIN worktree \subseteq DOMAIN sandbox

\* The writes come before the deletions.
DoneInv ==
    /\ phase \in {"delete", "replayed"} =>
           \A p \in Written : p \in DOMAIN sandbox /\ sandbox[p] = worktree[p]
    /\ phase = "replayed" => DOMAIN sandbox \cap DOMAIN project \subseteq DOMAIN worktree

EditInv == SourceInv /\ TreeInv /\ DoneInv /\ B!EditIsRepeated

\* A node is a file, a directory or a link, and is its type, its data and its mode.
LEMMA NodeParts ==
    ASSUME NEW node \in B!Nodes
    PROVE  /\ node = [type |-> node.type, data |-> node.data, mode |-> node.mode]
           /\ node.type \in {"regular", "directory", "symlink"} /\ node.mode \in B!Modes
           /\ node.type = "directory" => node.data = RootPath
BY DEF B!Nodes, B!Regulars, B!Directories, B!Symlinks, B!Modes

LEMMA TreeParts ==
    ASSUME NEW tree \in B!Trees
    PROVE  /\ DOMAIN tree \subseteq Paths /\ tree = [p \in DOMAIN tree |-> tree[p]]
           /\ \A p \in DOMAIN tree : tree[p] \in B!Nodes /\ B!IsDirectory(tree, Parent[p])
BY DEF B!Trees

\* What did not change is the same on both sides.
LEMMA Unchanged ==
    ASSUME NEW old \in B!Trees, NEW new \in B!Trees, NEW p \in B!Both(old, new),
           p \notin B!Changed(old, new)
    PROVE  old[p] = new[p]
<1>1. old[p] \in B!Nodes /\ new[p] \in B!Nodes
  BY TreeParts DEF B!Both
<1>2. /\ old[p].type = new[p].type /\ old[p].data = new[p].data
      /\ old[p].mode = new[p].mode
  BY DEF B!Changed, B!ContentModified, B!PermissionModified
<1> QED BY <1>1, <1>2, NodeParts

\* A file of the patch is a file of the worktree, in a directory of the worktree.
LEMMA WrittenParts ==
    ASSUME B!SandboxAssumption, worktree \in B!Trees, NEW p \in Written
    PROVE  /\ p \in DOMAIN worktree /\ p \in Paths /\ worktree[p].type = "regular"
           /\ Parent[p] = RootPath \/ Parent[p] \in B!Of(worktree, "directory")
           /\ Parent[p] \notin Written /\ Parent[p] # p
<1>1. p \in DOMAIN worktree /\ worktree[p].type = "regular"
  BY DEF Written, B!Writes, B!Of
<1>2. p \in Paths /\ B!IsDirectory(worktree, Parent[p])
  BY <1>1, TreeParts
<1>3. Parent[p] = RootPath \/ Parent[p] \in B!Of(worktree, "directory")
  BY <1>2 DEF B!IsDirectory, B!Of
<1>4. Parent[p] \notin Written /\ Parent[p] # p
  BY <1>1, <1>2, <1>3, TreeParts DEF Written, B!Writes, B!Of, B!SandboxAssumption
<1> QED BY <1>1, <1>2, <1>3, <1>4

\* A directory of the trial's tree is the project's, or was made for a file.
LEMMA DirectoryPlaced ==
    ASSUME B!SandboxAssumption, SourceInv, TreeInv, phase \in {"write", "delete", "replayed"},
           NEW d \in DOMAIN sandbox, sandbox[d].type = "directory"
    PROVE  \/ d \in DOMAIN project /\ sandbox[d] = project[d]
           \/ sandbox[d] = B!NewDirectory
<1>1. d \in Written => sandbox[d] # worktree[d]
  BY WrittenParts DEF SourceInv
<1> QED BY <1>1 DEF TreeInv, Placed

\* Unless a kind changes or something is read-only, a file of the patch can be written,
\* and what was deleted can be removed.
LEMMA CanWriteHere ==
    ASSUME B!SandboxAssumption, SourceInv, TreeInv, phase \in {"write", "delete", "replayed"},
           ~B!ReadOnly, NEW d, d = RootPath \/ d \in DOMAIN sandbox,
           B!IsDirectory(sandbox, d)
    PROVE  B!CanWriteIn(sandbox, d)
<1>1. CASE d = RootPath
  BY <1>1 DEF B!CanWriteIn
<1>2. CASE d # RootPath
  <2>1. d \in DOMAIN sandbox /\ sandbox[d].type = "directory"
    BY <1>2 DEF B!IsDirectory
  <2>2. d \in DOMAIN project => project[d].mode = "rw"
    <3>1. d \in DOMAIN project => project[d].mode \in B!Modes
      BY TreeParts, NodeParts DEF SourceInv
    <3> QED BY <3>1 DEF B!ReadOnly, B!Modes
  <2> QED BY <2>1, <2>2, DirectoryPlaced DEF B!CanWriteIn, B!NewDirectory
<1> QED BY <1>1, <1>2

LEMMA WritesPossible ==
    ASSUME B!SandboxAssumption, SourceInv, TreeInv, phase = "write", ~B!ReadOnly, ~B!ChangesKind,
           NEW p \in Written, p \in DOMAIN sandbox => sandbox[p] # worktree[p]
    PROVE  B!CanPut(sandbox, p)
<1>1. worktree \in B!Trees /\ project \in B!Trees
  BY DEF SourceInv
<1>2. /\ p \in DOMAIN worktree /\ p \in Paths /\ worktree[p].type = "regular"
      /\ Parent[p] = RootPath \/ Parent[p] \in B!Of(worktree, "directory")
  BY <1>1, WrittenParts
<1>3. CASE p \in DOMAIN sandbox
  <2>1. p \in DOMAIN project /\ sandbox[p] = project[p]
    BY <1>2, <1>3 DEF TreeInv, Placed, B!Of
  <2>2. project[p].type = "regular"
    BY <1>2, <2>1 DEF B!ChangesKind, B!Both
  <2>3. project[p].mode = "rw"
    <3>1. project[p].mode \in B!Modes
      BY <1>1, <2>1, TreeParts, NodeParts
    <3> QED BY <2>1, <3>1 DEF B!ReadOnly, B!Modes
  <2> QED BY <1>3, <2>1, <2>2, <2>3 DEF B!CanPut
<1>4. CASE p \notin DOMAIN sandbox /\ Parent[p] \in DOMAIN sandbox
  <2>1. Parent[p] \in B!Of(worktree, "directory")
    BY <1>2, <1>4 DEF TreeInv, B!SandboxAssumption
  <2>2. sandbox[Parent[p]].type = "directory"
    <3>1. Parent[p] \notin Written
      BY <1>1, WrittenParts
    <3>2. CASE Parent[p] \in DOMAIN project /\ sandbox[Parent[p]] = project[Parent[p]]
      BY <2>1, <3>2 DEF B!ChangesKind, B!Both, B!Of
    <3>3. CASE sandbox[Parent[p]] = B!NewDirectory
      BY <3>3 DEF B!NewDirectory
    <3> QED BY <1>4, <3>1, <3>2, <3>3 DEF TreeInv, Placed
  <2>3. B!IsDirectory(sandbox, Parent[p])
    BY <1>4, <2>2 DEF B!IsDirectory
  <2> QED BY <1>4, <2>3, CanWriteHere DEF B!CanPut
<1>5. CASE p \notin DOMAIN sandbox /\ Parent[p] \notin DOMAIN sandbox
  <2>1. CASE Parent[p] = RootPath
    BY <1>5, <2>1 DEF B!CanPut, B!IsDirectory, B!CanWriteIn
  <2>2. CASE Parent[p] # RootPath
    <3>1. Parent[p] \in Paths
      BY <1>2, <2>2 DEF B!SandboxAssumption
    <3> QED BY <1>5, <3>1 DEF B!CanPut
  <2> QED BY <2>1, <2>2
<1> QED BY <1>3, <1>4, <1>5

LEMMA RemovalsPossible ==
    ASSUME B!SandboxAssumption, SourceInv, TreeInv, phase = "delete", ~B!ReadOnly,
           NEW p \in DOMAIN sandbox
    PROVE  B!CanRemove(sandbox, p)
<1>1. B!CanWriteIn(sandbox, Parent[p])
  <2>1. B!IsDirectory(sandbox, Parent[p])
    BY DEF TreeInv
  <2> QED BY <2>1, CanWriteHere DEF B!IsDirectory
<1>2. ASSUME B!InDirectory(sandbox, p) # {p} PROVE B!CanWriteIn(sandbox, p)
  <2>1. PICK q \in DOMAIN sandbox : Parent[q] = p
    BY <1>2 DEF B!InDirectory
  <2>2. B!IsDirectory(sandbox, p)
    BY <2>1 DEF TreeInv
  <2> QED BY <2>2, CanWriteHere
<1> QED BY <1>1, <1>2 DEF B!CanRemove

\* A trial's tree does not depend on anything else that a step changes.
LEMMA PlacedSame ==
    ASSUME UNCHANGED <<project, worktree>>
    PROVE  /\ Written' = Written
           /\ \A p : sandbox'[p] = sandbox[p] => Placed(p)' = Placed(p)
BY
DEF Written, B!Writes, B!Changed, B!Created, B!ContentModified, B!PermissionModified,
    B!Both, B!Of, Placed

LEMMA FilesSame ==
    ASSUME UNCHANGED <<project, worktree, sandbox>>
    PROVE  /\ B!Without(B!FilesOf(sandbox), B!Emptied)' = B!Without(B!FilesOf(sandbox), B!Emptied)
           /\ B!FilesOf(worktree)' = B!FilesOf(worktree)
<1>1. B!Emptied' = B!Emptied
  BY DEF B!Emptied, B!Of, B!IsDirectory
<1>2. B!FilesOf(sandbox)' = B!FilesOf(sandbox) /\ B!FilesOf(worktree)' = B!FilesOf(worktree)
  BY DEF B!FilesOf, B!Of
<1> QED BY <1>1, <1>2 DEF B!Without

LEMMA SourceSame ==
    ASSUME SourceInv, UNCHANGED <<project, base, worktree, patch>>,
           phase \notin {"start", "recording", "edited", "refused"}
    PROVE  SourceInv'
<1>1. Written' = Written
  BY PlacedSame
<1> QED BY <1>1 DEF SourceInv

LEMMA InitializeKeeps ==
    ASSUME B!SandboxAssumption, EditInv, B!Initialize
    PROVE  EditInv'
BY DEF EditInv, SourceInv, TreeInv, DoneInv, B!EditIsRepeated, B!Initialize

LEMMA EditKeeps ==
    ASSUME B!SandboxAssumption, EditInv, B!EditOutside
    PROVE  EditInv'
BY DEF EditInv, SourceInv, TreeInv, DoneInv, B!EditIsRepeated, B!EditOutside

LEMMA CheckpointKeeps ==
    ASSUME B!SandboxAssumption, EditInv, B!Checkpoint
    PROVE  EditInv'
<1>1. Written' = Written
  BY PlacedSame DEF B!Checkpoint
<1>2. SourceInv'
  BY <1>1 DEF EditInv, SourceInv, B!Checkpoint, Written
<1>3. TreeInv' /\ DoneInv' /\ B!EditIsRepeated'
  BY DEF TreeInv, DoneInv, B!EditIsRepeated, B!Checkpoint
<1> QED BY <1>2, <1>3 DEF EditInv

\* The copy of the baseline with the modes of the manifest is the project; a link makes it
\* fail.
LEMMA CopyKeeps ==
    ASSUME B!SandboxAssumption, EditInv, B!Copy
    PROVE  EditInv'
<1>1. /\ phase = "recorded" /\ project \in B!Trees /\ base = B!Protected(project)
      /\ UNCHANGED <<project, base, worktree, patch>>
  BY DEF B!Copy, EditInv, SourceInv
<1>2. SourceInv'
  BY <1>1, SourceSame DEF EditInv
<1>3. /\ DOMAIN base = DOMAIN project /\ DOMAIN project \subseteq Paths
      /\ \A p \in DOMAIN project : /\ base[p].type = project[p].type
                                   /\ [base[p] EXCEPT !.mode = project[p].mode] = project[p]
  <2>1. ASSUME NEW p \in DOMAIN project
        PROVE  /\ base[p].type = project[p].type
               /\ [base[p] EXCEPT !.mode = project[p].mode] = project[p]
    <3>1. project[p] = [type |-> project[p].type, data |-> project[p].data,
                        mode |-> project[p].mode]
      BY <1>1, TreeParts, NodeParts
    <3>2. \E m : base[p] = [project[p] EXCEPT !.mode = m]
      BY <1>1 DEF B!Protected
    <3> QED BY <3>1, <3>2
  <2> QED BY <1>1, <2>1, TreeParts DEF B!Protected
<1>4. CASE B!CanCopy(base, FALSE) /\ \A p \in DOMAIN base : B!SafeToWrite(base, p)
  <2>1. /\ sandbox' = [p \in DOMAIN base |-> [base[p] EXCEPT !.mode = project[p].mode]]
        /\ phase' = "write"
    BY <1>4 DEF B!Copy
  <2>2. DOMAIN sandbox' = DOMAIN project /\ \A p \in DOMAIN project : sandbox'[p] = project[p]
    BY <1>3, <2>1
  <2>3. B!Of(project, "symlink") = {}
    BY <1>3, <1>4 DEF B!SafeToWrite, B!Of
  <2>4. \A p \in DOMAIN sandbox' : B!IsDirectory(sandbox', Parent[p])
    BY <1>1, <2>2, TreeParts DEF B!IsDirectory
  <2>5. \A p \in DOMAIN sandbox' : Placed(p)'
    BY <1>1, <2>2 DEF Placed
  <2>6. TreeInv'
    BY <1>1, <1>3, <2>2, <2>3, <2>4, <2>5 DEF TreeInv, B!Of
  <2>7. DoneInv' /\ B!EditIsRepeated'
    BY <2>1 DEF DoneInv, B!EditIsRepeated
  <2> QED BY <1>2, <2>6, <2>7 DEF EditInv
<1>5. CASE ~(B!CanCopy(base, FALSE) /\ \A p \in DOMAIN base : B!SafeToWrite(base, p))
  <2>1. phase' = "unreplayable"
    BY <1>5 DEF B!Copy
  <2>2. \E p \in DOMAIN base : base[p].type = "symlink"
    BY <1>5 DEF B!CanCopy, B!SafeToWrite, B!Of
  <2>3. B!Of(project, "symlink") # {}
    BY <1>3, <2>2 DEF B!Of
  <2>4. TreeInv' /\ DoneInv' /\ B!EditIsRepeated'
    BY <1>1, <2>1, <2>3 DEF TreeInv, DoneInv, B!EditIsRepeated, B!Of
  <2> QED BY <1>2, <2>4 DEF EditInv
<1> QED BY <1>4, <1>5

\* A step of the trial that fails does so for a reason.
LEMMA FailureKeeps ==
    ASSUME EditInv, phase \in {"write", "delete"}, phase' = "failed",
           UNCHANGED <<project, base, worktree, patch, sandbox>>, B!ChangesKind \/ B!ReadOnly
    PROVE  EditInv'
<1>1. SourceInv'
  BY SourceSame DEF EditInv
<1>2. TreeInv' /\ DoneInv'
  BY DEF TreeInv, DoneInv
<1>3. B!EditIsRepeated'
  BY DEF B!EditIsRepeated, B!ChangesKind, B!ReadOnly, B!Both
<1> QED BY <1>1, <1>2, <1>3 DEF EditInv

\* What the checkpoint has put into the patch.
LEMMA PatchParts ==
    ASSUME SourceInv, phase \in {"write", "delete"}
    PROVE  /\ project \in B!Trees /\ worktree \in B!Trees
           /\ DOMAIN patch.writes = Written
           /\ \A p \in Written : patch.writes[p] = worktree[p]
           /\ patch.deletes = B!Deletes(project, worktree)
           /\ B!Changed(project, worktree) \cap B!Of(worktree, "symlink") = {}
BY DEF SourceInv

\* A file that is put has its directory, its own or one made for it.
LEMMA PutKeeps ==
    ASSUME B!SandboxAssumption, EditInv, phase = "write", NEW p \in Written,
           B!CanPut(sandbox, p), sandbox' = B!Put(sandbox, p, worktree[p]),
           UNCHANGED <<phase, project, base, worktree, patch>>
    PROVE  EditInv'
<1> DEFINE d == Parent[p]
<1>1. /\ SourceInv /\ TreeInv /\ project \in B!Trees /\ worktree \in B!Trees
  BY PatchParts DEF EditInv
<1>2. /\ p \in DOMAIN worktree /\ p \in Paths /\ worktree[p].type = "regular"
      /\ d = RootPath \/ d \in B!Of(worktree, "directory")
      /\ d \notin Written /\ d # p
  BY <1>1, WrittenParts
<1>3. /\ DOMAIN sandbox \subseteq Paths
      /\ \A q \in DOMAIN sandbox : B!IsDirectory(sandbox, Parent[q]) /\ Placed(q)
      /\ DOMAIN project \cap DOMAIN worktree \subseteq DOMAIN sandbox
  BY <1>1 DEF TreeInv
<1>4. /\ DOMAIN sandbox' = DOMAIN sandbox \cup {p} \cup ({d} \ {RootPath})
      /\ sandbox'[p] = worktree[p]
      /\ \A q \in DOMAIN sandbox \ {p} : sandbox'[q] = sandbox[q]
      /\ d \notin DOMAIN sandbox \cup {RootPath} => sandbox'[d] = B!NewDirectory
  BY <1>2 DEF B!Put
<1>5. d \in DOMAIN sandbox => sandbox[d].type = "directory" \/ d = RootPath
  BY <1>3 DEF B!CanPut, B!IsDirectory
<1>6. p \in DOMAIN sandbox => sandbox[p].type = "regular"
  BY DEF B!CanPut
<1>7. DOMAIN sandbox' \subseteq Paths
  BY <1>2, <1>3, <1>4 DEF B!SandboxAssumption
<1>8. ASSUME NEW q \in DOMAIN sandbox' PROVE B!IsDirectory(sandbox', Parent[q])
  <2>1. CASE q = p
    <3>1. CASE d \in DOMAIN sandbox
      BY <1>2, <1>4, <1>5, <2>1, <3>1 DEF B!IsDirectory
    <3>2. CASE d \notin DOMAIN sandbox
      BY <1>4, <2>1, <3>2 DEF B!IsDirectory, B!NewDirectory
    <3> QED BY <3>1, <3>2
  <2>2. CASE q = d /\ q \notin DOMAIN sandbox
    BY <1>2, <1>4, <2>2 DEF B!IsDirectory, B!SandboxAssumption
  <2>3. CASE q \in DOMAIN sandbox
    <3>1. B!IsDirectory(sandbox, Parent[q])
      BY <1>3, <2>3
    <3>2. Parent[q] # p
      BY <1>2, <1>6, <3>1 DEF B!IsDirectory, B!SandboxAssumption
    <3> QED BY <1>4, <3>1, <3>2 DEF B!IsDirectory
  <2> QED BY <1>4, <2>1, <2>2, <2>3
<1>9. ASSUME NEW q \in DOMAIN sandbox' PROVE Placed(q)'
  <2>1. CASE q = p
    BY <1>4, <2>1, PlacedSame DEF Placed
  <2>2. CASE q = d /\ q \notin DOMAIN sandbox
    <3>1. q # RootPath /\ sandbox'[q] = B!NewDirectory
      BY <1>2, <1>4, <2>2, <1>7
    <3>2. q \in B!Of(worktree, "directory")
      BY <1>2, <1>4, <1>7, <2>2 DEF B!SandboxAssumption
    <3>3. q \notin DOMAIN project
      BY <1>3, <2>2, <3>2 DEF B!Of
    <3> QED BY <3>1, <3>2, <3>3 DEF Placed, B!Of
  <2>3. CASE q \in DOMAIN sandbox /\ q # p
    BY <1>3, <1>4, <2>3, PlacedSame
  <2> QED BY <1>4, <2>1, <2>2, <2>3
<1>10. TreeInv'
  BY <1>1, <1>3, <1>4, <1>7, <1>8, <1>9 DEF TreeInv, B!Of
<1>11. SourceInv'
  BY <1>1, SourceSame
<1>12. DoneInv' /\ B!EditIsRepeated'
  BY DEF DoneInv, B!EditIsRepeated
<1> QED BY <1>10, <1>11, <1>12 DEF EditInv

LEMMA WriteKeeps ==
    ASSUME B!SandboxAssumption, EditInv, B!WriteFile
    PROVE  EditInv'
<1> DEFINE todo == {p \in Written : p \notin DOMAIN sandbox \/ sandbox[p] # worktree[p]}
<1>1. /\ phase = "write" /\ SourceInv /\ TreeInv
      /\ UNCHANGED <<project, base, worktree, patch>>
  BY DEF B!WriteFile, EditInv
<1>2. IF todo = {} THEN phase' = "delete" /\ UNCHANGED sandbox
      ELSE \E p \in todo : IF B!CanPut(sandbox, p)
                           THEN sandbox' = B!Put(sandbox, p, worktree[p]) /\ UNCHANGED phase
                           ELSE phase' = "failed" /\ UNCHANGED sandbox
  <2>1. {p \in DOMAIN patch.writes : p \notin DOMAIN sandbox
                                       \/ sandbox[p] # patch.writes[p]} = todo
    BY <1>1, PatchParts
  <2>2. \A p \in todo : patch.writes[p] = worktree[p]
    BY <1>1, PatchParts
  <2> HIDE DEF todo
  <2> QED BY <2>1, <2>2 DEF B!WriteFile
<1>3. CASE todo = {}
  <2>1. phase' = "delete" /\ UNCHANGED sandbox
    BY <1>2, <1>3
  <2>2. \A p \in Written : p \in DOMAIN sandbox /\ sandbox[p] = worktree[p]
    BY <1>3
  <2>3. SourceInv'
    BY <1>1, SourceSame
  <2>4. DoneInv' /\ B!EditIsRepeated'
    BY <1>1, <2>1, <2>2, PlacedSame DEF DoneInv, B!EditIsRepeated
  <2>5. TreeInv'
    BY <1>1, <2>1, PlacedSame DEF TreeInv, B!Of
  <2> QED BY <2>3, <2>4, <2>5 DEF EditInv
<1>4. CASE todo # {}
  <2>1. PICK p \in todo : IF B!CanPut(sandbox, p)
                          THEN sandbox' = B!Put(sandbox, p, worktree[p]) /\ UNCHANGED phase
                          ELSE phase' = "failed" /\ UNCHANGED sandbox
    BY <1>2, <1>4
  <2>2. CASE B!CanPut(sandbox, p)
    BY <1>1, <2>1, <2>2, PutKeeps
  <2>3. CASE ~B!CanPut(sandbox, p)
    <3>1. B!ChangesKind \/ B!ReadOnly
      BY <1>1, <2>3, WritesPossible
    <3> QED BY <1>1, <2>1, <2>3, <3>1, FailureKeeps
  <2> QED BY <2>2, <2>3
<1> QED BY <1>3, <1>4

\* The files of the trial are those of the worktree once all is written and deleted.
LEMMA Repeated ==
    ASSUME B!SandboxAssumption, SourceInv, TreeInv, phase = "delete",
           \A p \in Written : p \in DOMAIN sandbox /\ sandbox[p] = worktree[p],
           DOMAIN sandbox \cap DOMAIN project \subseteq DOMAIN worktree
    PROVE  B!Without(B!FilesOf(sandbox), B!Emptied) = B!FilesOf(worktree)
<1>1. /\ project \in B!Trees /\ worktree \in B!Trees
      /\ B!Changed(project, worktree) \cap B!Of(worktree, "symlink") = {}
  BY PatchParts
<1>2. ASSUME NEW p \in B!Of(worktree, "regular")
      PROVE  p \in B!Of(sandbox, "regular") \ B!Emptied /\ sandbox[p] = worktree[p]
  <2>1. p \in DOMAIN worktree /\ p \in Paths /\ worktree[p].type = "regular"
    BY <1>1, TreeParts DEF B!Of
  <2>2. p \notin B!Emptied
    BY <2>1 DEF B!Emptied, B!IsDirectory, B!SandboxAssumption
  <2>3. CASE p \in Written
    BY <2>1, <2>2, <2>3 DEF B!Of
  <2>4. CASE p \notin Written
    <3>1. p \in B!Both(project, worktree) /\ p \notin B!Changed(project, worktree)
      BY <1>2, <2>1, <2>4 DEF Written, B!Writes, B!Changed, B!Created, B!Both
    <3>2. project[p] = worktree[p]
      BY <1>1, <3>1, Unchanged
    <3>3. p \in DOMAIN sandbox
      BY <3>1 DEF TreeInv, B!Both
    <3>4. sandbox[p] = project[p]
      BY <2>4, <3>1, <3>3 DEF TreeInv, Placed, B!Both
    <3> QED BY <2>1, <2>2, <3>2, <3>3, <3>4 DEF B!Of
  <2> QED BY <2>3, <2>4
<1>3. ASSUME NEW p \in B!Of(sandbox, "regular") \ B!Emptied
      PROVE  p \in B!Of(worktree, "regular")
  <2>1. p \in DOMAIN sandbox /\ sandbox[p].type = "regular" /\ Placed(p)
    BY DEF B!Of, TreeInv
  <2>2. CASE p \in Written
    BY <2>2 DEF Written, B!Writes
  <2>3. CASE p \notin Written
    <3>1. p \in DOMAIN project /\ sandbox[p] = project[p]
      BY <2>1, <2>3 DEF Placed, B!NewDirectory
    <3>2. p \in B!Both(project, worktree)
      BY <2>1, <3>1 DEF B!Both
    <3>3. worktree[p].type \in {"regular", "directory", "symlink"}
      BY <1>1, <3>2, TreeParts, NodeParts DEF B!Both
    <3>4. worktree[p].type # "directory"
      BY <1>3, <2>1, <3>1, <3>2 DEF B!Emptied, B!IsDirectory, B!Of, B!Both
    <3>5. worktree[p].type # "symlink"
      BY <1>1, <2>1, <3>1, <3>2 DEF B!Changed, B!ContentModified, B!Of, B!Both
    <3> QED BY <3>2, <3>3, <3>4, <3>5 DEF B!Of, B!Both
  <2> QED BY <2>2, <2>3
<1>4. B!Of(sandbox, "regular") \ B!Emptied = B!Of(worktree, "regular")
  BY <1>2, <1>3
<1>5. /\ B!FilesOf(worktree) = [p \in B!Of(worktree, "regular") |-> worktree[p]]
      /\ B!Without(B!FilesOf(sandbox), B!Emptied)
           = [p \in B!Of(sandbox, "regular") \ B!Emptied |-> sandbox[p]]
  BY DEF B!FilesOf, B!Without
<1> QED BY <1>2, <1>4, <1>5

\* What is removed is not in the worktree, nor is anything in it.
LEMMA RemoveKeeps ==
    ASSUME B!SandboxAssumption, EditInv, phase = "delete",
           NEW p \in DOMAIN sandbox, p \in Paths \ DOMAIN worktree,
           sandbox' = B!Without(sandbox, B!InDirectory(sandbox, p)),
           UNCHANGED <<phase, project, base, worktree, patch>>
    PROVE  EditInv'
<1> DEFINE gone == B!InDirectory(sandbox, p)
<1>1. /\ SourceInv /\ TreeInv /\ DoneInv /\ project \in B!Trees /\ worktree \in B!Trees
  BY PatchParts DEF EditInv
<1>2. /\ DOMAIN sandbox \subseteq Paths
      /\ \A q \in DOMAIN sandbox : B!IsDirectory(sandbox, Parent[q]) /\ Placed(q)
      /\ DOMAIN project \cap DOMAIN worktree \subseteq DOMAIN sandbox
  BY <1>1 DEF TreeInv
<1>3. /\ DOMAIN sandbox' = DOMAIN sandbox \ gone
      /\ \A q \in DOMAIN sandbox \ gone : sandbox'[q] = sandbox[q]
  BY DEF B!Without
<1>4. \A q \in gone : q = p \/ Parent[q] = p
  BY DEF B!InDirectory
<1>5. gone \cap DOMAIN worktree = {}
  <2>1. ASSUME NEW q \in DOMAIN worktree, Parent[q] = p PROVE FALSE
    BY <1>1, <2>1, TreeParts DEF B!IsDirectory, B!SandboxAssumption
  <2> QED BY <1>4, <2>1
<1>6. ASSUME NEW q \in DOMAIN sandbox' PROVE B!IsDirectory(sandbox', Parent[q])
  <2>1. CASE Parent[q] = RootPath
    BY <2>1 DEF B!IsDirectory
  <2>2. CASE Parent[q] # RootPath
    <3>1. /\ q \in DOMAIN sandbox /\ q \notin gone /\ q \in Paths
          /\ Parent[q] \in DOMAIN sandbox /\ sandbox[Parent[q]].type = "directory"
      BY <1>2, <1>3, <2>2 DEF B!IsDirectory
    <3>2. Parent[q] # p
      BY <3>1 DEF B!InDirectory
    <3>3. Parent[Parent[q]] = RootPath /\ p # RootPath
      BY <2>2, <3>1 DEF B!SandboxAssumption
    <3>4. Parent[q] \notin gone
      BY <1>4, <3>2, <3>3
    <3> QED BY <1>3, <3>1, <3>4 DEF B!IsDirectory
  <2> QED BY <2>1, <2>2
<1> HIDE DEF gone
<1>7. \A q \in DOMAIN sandbox' : Placed(q)'
  BY <1>2, <1>3, PlacedSame
<1>8. TreeInv'
  BY <1>1, <1>2, <1>3, <1>5, <1>6, <1>7 DEF TreeInv, B!Of
<1>9. SourceInv'
  BY <1>1, SourceSame
<1>10. Written \subseteq DOMAIN worktree
  BY DEF Written, B!Writes, B!Of
<1>11. DoneInv' /\ B!EditIsRepeated'
  BY <1>1, <1>3, <1>5, <1>10, PlacedSame DEF DoneInv, B!EditIsRepeated
<1> QED BY <1>8, <1>9, <1>11 DEF EditInv

LEMMA DeleteKeeps ==
    ASSUME B!SandboxAssumption, EditInv, B!DeleteFile
    PROVE  EditInv'
<1> DEFINE todo == B!Deletes(project, worktree) \cap DOMAIN sandbox
<1>1. /\ phase = "delete" /\ SourceInv /\ TreeInv /\ DoneInv
      /\ patch.deletes \cap DOMAIN sandbox = todo
      /\ UNCHANGED <<project, base, worktree, patch>>
  BY PatchParts DEF B!DeleteFile, EditInv
<1>2. IF todo = {} THEN phase' = "replayed" /\ UNCHANGED sandbox
      ELSE \E p \in todo : IF B!CanRemove(sandbox, p)
                           THEN /\ sandbox' = B!Without(sandbox, B!InDirectory(sandbox, p))
                                /\ UNCHANGED phase
                           ELSE phase' = "failed" /\ UNCHANGED sandbox
  <2> HIDE DEF todo
  <2> QED BY <1>1 DEF B!DeleteFile
<1>3. CASE todo = {}
  <2>1. phase' = "replayed" /\ UNCHANGED sandbox
    BY <1>2, <1>3
  <2>2. DOMAIN sandbox \cap DOMAIN project \subseteq DOMAIN worktree
    BY <1>1, <1>3 DEF B!Deletes, B!Deleted, TreeInv
  <2>3. \A p \in Written : p \in DOMAIN sandbox /\ sandbox[p] = worktree[p]
    BY <1>1 DEF DoneInv
  <2>4. B!Without(B!FilesOf(sandbox), B!Emptied) = B!FilesOf(worktree)
    BY <1>1, <2>2, <2>3, Repeated
  <2>5. SourceInv'
    BY <1>1, SourceSame
  <2>6. TreeInv'
    BY <1>1, <2>1, PlacedSame DEF TreeInv, B!Of
  <2>7. DoneInv'
    BY <1>1, <2>1, <2>2, <2>3, PlacedSame DEF DoneInv
  <2>8. B!EditIsRepeated'
    BY <1>1, <2>1, <2>4, FilesSame DEF B!EditIsRepeated
  <2> QED BY <2>5, <2>6, <2>7, <2>8 DEF EditInv
<1>4. CASE todo # {}
  <2>1. PICK p \in todo : IF B!CanRemove(sandbox, p)
                          THEN /\ sandbox' = B!Without(sandbox, B!InDirectory(sandbox, p))
                               /\ UNCHANGED phase
                          ELSE phase' = "failed" /\ UNCHANGED sandbox
    BY <1>2, <1>4
  <2>2. CASE B!CanRemove(sandbox, p)
    <3>1. p \in DOMAIN sandbox /\ p \in Paths \ DOMAIN worktree
      BY <1>1 DEF B!Deletes, B!Deleted, TreeInv
    <3> QED BY <1>1, <2>1, <2>2, <3>1, RemoveKeeps
  <2>3. CASE ~B!CanRemove(sandbox, p)
    <3>1. B!ReadOnly
      BY <1>1, <2>3, RemovalsPossible
    <3> QED BY <1>1, <2>1, <2>3, <3>1, FailureKeeps
  <2> QED BY <2>2, <2>3
<1> QED BY <1>3, <1>4

\* Every step from the project to the trial keeps the invariant.
LEMMA EditStep ==
    ASSUME B!SandboxAssumption, EditInv, [B!Next]_(B!sandboxVars)
    PROVE  EditInv'
<1>1. CASE UNCHANGED B!sandboxVars
  <2>1. UNCHANGED <<phase, project, base, worktree, patch, sandbox>>
    BY <1>1 DEF B!sandboxVars
  <2>2. SourceInv'
    BY <2>1, PlacedSame DEF EditInv, SourceInv
  <2>3. TreeInv'
    BY <2>1, PlacedSame DEF EditInv, TreeInv, B!Of
  <2>4. DoneInv'
    BY <2>1, PlacedSame DEF EditInv, DoneInv
  <2>5. B!EditIsRepeated'
    BY <2>1, FilesSame DEF EditInv, B!EditIsRepeated, B!ChangesKind, B!ReadOnly, B!Both, B!Of
  <2> QED BY <2>2, <2>3, <2>4, <2>5 DEF EditInv
<1> QED BY <1>1, InitializeKeeps, EditKeeps, CheckpointKeeps, CopyKeeps, WriteKeeps,
           DeleteKeeps DEF B!Next

LEMMA EditStart ==
    ASSUME B!Init
    PROVE  EditInv
BY DEF B!Init, EditInv, SourceInv, TreeInv, DoneInv, B!EditIsRepeated

\* All the trees are trees.
TreesInv ==
    /\ {project, base, worktree, sandbox} \subseteq B!Trees
    /\ phase \in {"start", "recording", "edited", "recorded", "write", "delete", "replayed",
                  "failed", "refused", "unreplayable"}

LEMMA TreeMade ==
    ASSUME NEW S \in SUBSET Paths, NEW tree \in [S -> B!Nodes],
           \A p \in S : B!IsDirectory(tree, Parent[p])
    PROVE  tree \in B!Trees
BY DEF B!Trees

\* A copy with other modes, and no tree at all.
LEMMA ProtectedIsTree ==
    ASSUME NEW tree \in B!Trees
    PROVE  B!Protected(tree) \in B!Trees
<1> DEFINE copy == B!Protected(tree)
<1>1. /\ DOMAIN tree \in SUBSET Paths
      /\ \A p \in DOMAIN tree : tree[p] \in B!Nodes /\ B!IsDirectory(tree, Parent[p])
  BY TreeParts
<1>2. ASSUME NEW p \in DOMAIN tree
      PROVE  copy[p] \in B!Nodes /\ copy[p].type = tree[p].type
  <2>1. tree[p] \in B!Nodes
    BY <1>1
  <2>2. copy[p] = [tree[p] EXCEPT !.mode = IF tree[p].type = "symlink" THEN tree[p].mode ELSE "ro"]
    BY DEF B!Protected
  <2> HIDE DEF copy
  <2> QED BY <2>1, <2>2 DEF B!Nodes, B!Regulars, B!Directories, B!Symlinks, B!Modes
<1>3. copy \in [DOMAIN tree -> B!Nodes]
  <2>1. copy = [p \in DOMAIN tree |-> copy[p]]
    BY DEF B!Protected
  <2> HIDE DEF copy
  <2> QED BY <1>2, <2>1
<1>4. \A p \in DOMAIN tree : B!IsDirectory(copy, Parent[p])
  <2>1. DOMAIN copy = DOMAIN tree
    BY <1>3
  <2> HIDE DEF copy
  <2> QED BY <1>1, <1>2, <2>1 DEF B!IsDirectory
<1> HIDE DEF copy
<1>5. copy \in B!Trees
  BY <1>1, <1>3, <1>4, TreeMade
<1> QED BY <1>5 DEF copy

LEMMA NothingIsTree == <<>> \in B!Trees
<1>1. {} \in SUBSET Paths /\ <<>> \in [{} -> B!Nodes]
  OBVIOUS
<1> QED BY <1>1, TreeMade

\* A tree whose nodes are those of two other trees and new directories is a tree.
LEMMA TrialIsTree ==
    ASSUME NEW old \in B!Trees, NEW new \in B!Trees, NEW tree,
           tree = [p \in DOMAIN tree |-> tree[p]], DOMAIN tree \subseteq Paths,
           \A p \in DOMAIN tree : /\ B!IsDirectory(tree, Parent[p])
                                  /\ \/ p \in DOMAIN old /\ tree[p] = old[p]
                                     \/ p \in DOMAIN new /\ tree[p] = new[p]
                                     \/ tree[p] = B!NewDirectory
    PROVE  tree \in B!Trees
<1>1. B!NewDirectory \in B!Nodes
  BY DEF B!NewDirectory, B!Nodes, B!Directories, B!Modes
<1>2. \A p \in DOMAIN tree : tree[p] \in B!Nodes
  BY <1>1, TreeParts
<1>3. tree \in [DOMAIN tree -> B!Nodes]
  BY <1>2
<1> QED BY <1>3, TreeMade

LEMMA TreesStep ==
    ASSUME B!SandboxAssumption, EditInv, TreesInv, [B!Next]_(B!sandboxVars)
    PROVE  TreesInv'
<1>1. EditInv'
  BY EditStep
<1>2. CASE UNCHANGED <<phase, project, base, worktree, sandbox>>
  BY <1>2 DEF TreesInv
<1>3. CASE B!Initialize
  BY <1>3, ProtectedIsTree DEF B!Initialize, TreesInv
<1>4. CASE B!EditOutside
  BY <1>4 DEF B!EditOutside, TreesInv
<1>5. CASE B!Checkpoint
  BY <1>5 DEF B!Checkpoint, TreesInv
<1>6. CASE B!Copy \/ B!WriteFile \/ B!DeleteFile
  <2>1. /\ UNCHANGED <<project, base, worktree>>
        /\ phase' \in {"write", "delete", "replayed", "failed", "unreplayable"}
        /\ \/ UNCHANGED sandbox
           \/ /\ phase' \in {"write", "delete", "replayed"}
              /\ sandbox' = [p \in DOMAIN sandbox' |-> sandbox'[p]]
    BY <1>6 DEF B!Copy, B!WriteFile, B!DeleteFile, B!Put, B!Without
  <2>2. sandbox' \in B!Trees
    <3>1. CASE UNCHANGED sandbox
      BY <3>1 DEF TreesInv
    <3>2. CASE ~UNCHANGED sandbox
      <4>1. /\ DOMAIN sandbox' \subseteq Paths
            /\ \A p \in DOMAIN sandbox' : B!IsDirectory(sandbox', Parent[p]) /\ Placed(p)'
        BY <1>1, <2>1, <3>2 DEF EditInv, TreeInv
      <4>2. \A p \in DOMAIN sandbox' : \/ p \in DOMAIN project /\ sandbox'[p] = project[p]
                                       \/ p \in DOMAIN worktree /\ sandbox'[p] = worktree[p]
                                       \/ sandbox'[p] = B!NewDirectory
        BY <2>1, <4>1 DEF Placed, Written, B!Writes, B!Of
      <4>3. project \in B!Trees /\ worktree \in B!Trees
        BY DEF TreesInv
      <4> QED BY <2>1, <3>2, <4>1, <4>2, <4>3, TrialIsTree
    <3> QED BY <3>1, <3>2
  <2> QED BY <2>1, <2>2 DEF TreesInv
<1> QED BY <1>2, <1>3, <1>4, <1>5, <1>6 DEF B!Next, B!sandboxVars

LEMMA TreesStart ==
    ASSUME B!Init
    PROVE  TreesInv
BY NothingIsTree DEF B!Init, TreesInv

\* A checkpoint that replays repeats the edit, a replay that fails does so because of a
\* changed kind or of something read-only, and one that never begins because of a link, for
\* all paths and contents (replacements_between, apply_file_replacement,
\* restore_manifest_permissions).
THEOREM EditCorrect == B!SandboxAssumption => (Spec => []EditIsRepeated)
<1> SUFFICES ASSUME B!SandboxAssumption PROVE Spec => []EditIsRepeated
  OBVIOUS
<1>1. Init => EditInv
  BY EditStart DEF Init
<1>2. EditInv /\ [Next]_vars => EditInv'
  <2>1. [Next]_vars => [B!Next]_(B!sandboxVars)
    BY DEF Next, vars, Only, trees, B!sandboxVars
  <2> QED BY <2>1, EditStep
<1>3. EditInv => EditIsRepeated
  BY DEF EditInv, EditIsRepeated
<1> QED BY <1>1, <1>2, <1>3, PTL DEF Spec

-----------------------------------------------------------------------------
(* The in-process subscription.                                            *)

\* A set of naturals has a least one.
LEMMA LeastExists ==
    ASSUME NEW S \in SUBSET Nat, S # {}
    PROVE  \E x \in S : \A y \in S : x <= y
<1> DEFINE Less == {ss \in Nat \X Nat : ss[1] < ss[2]}
<1>1. IsWellFoundedOn(Less, Nat)
  BY NatLessThanWellFounded DEF OpToRel
<1>2. \E x \in S : \A y \in S : <<y, x>> \notin Less
  <2> HIDE DEF Less
  <2> QED BY <1>1, WFMin, Zenon
<1>3. ASSUME NEW x \in S, NEW y \in S, <<y, x>> \notin Less PROVE x <= y
  BY <1>3
<1> HIDE DEF Less
<1> QED BY <1>2, <1>3

\* Numbers of elements are the same, inside and outside of the instance.
LEMMA CardinalityIs == \A S : L!Cardinality(S) = Cardinality(S)
BY DEF L!Cardinality, Cardinality, L!IsFiniteSet, IsFiniteSet

LEMMA RanksAre == \A S, n : L!Rank(S, n) = Cardinality({m \in S : m <= n})
BY CardinalityIs, Zenon DEF L!Rank

\* In a bounded set of naturals every rank is taken.
LEMMA RankExists ==
    ASSUME NEW S, S \subseteq Nat, NEW n \in Nat, \A s \in S : s <= n,
           NEW k \in 1..Cardinality(S)
    PROVE  \E x \in S : L!Rank(S, x) = k
<1> DEFINE Below(x) == {m \in S : m <= x}
           T == {x \in Nat : Cardinality(Below(x)) >= k}
<1>1. ASSUME NEW x \in Nat
      PROVE  IsFiniteSet(Below(x)) /\ Cardinality(Below(x)) \in Nat
  <2>1. Below(x) \in SUBSET Nat /\ \A s \in Below(x) : s <= x
    OBVIOUS
  <2> QED BY <2>1, FS_BoundedSetOfNaturals, FS_CardinalityType
<1>2. n \in T
  <2>1. Below(n) = S
    OBVIOUS
  <2> QED BY <2>1, <1>1
<1>3. PICK x \in Nat : Cardinality(Below(x)) >= k /\ \A y \in T : x <= y
  <2>1. T \in SUBSET Nat /\ T # {}
    BY <1>2
  <2>2. \E x \in T : \A y \in T : x <= y
    <3> HIDE DEF T
    <3> QED BY <2>1, LeastExists
  <2> QED BY <2>2
<1>4. CASE x = 0
  <2>1. Below(x) \subseteq {0}
    <3>1. \A m \in S : m <= x => m = 0
      BY <1>4
    <3> QED BY <3>1
  <2>2. Below(x) # {}
    BY <1>3, FS_EmptySet
  <2>3. Below(x) = {0} /\ 0 \in S
    BY <2>1, <2>2
  <2>4. Cardinality(Below(x)) = 1
    BY <2>3, FS_Singleton
  <2>5. Cardinality(Below(x)) = k
    BY <2>4, <1>3
  <2> QED BY <2>3, <2>5, <1>4, RanksAre
<1>5. CASE x # 0
  <2> DEFINE y == x - 1
  <2>1. y \in Nat /\ ~(x <= y)
    BY <1>5
  <2>2. Cardinality(Below(y)) < k
    <3>1. y \notin T
      BY <1>3, <2>1
    <3> HIDE DEF y
    <3> QED BY <2>1, <3>1, <1>1
  <2>3. Below(x) = IF x \in S THEN Below(y) \cup {x} ELSE Below(y)
    <3>1. \A m \in S : m <= x <=> m <= y \/ m = x
      BY <2>1
    <3> QED BY <3>1
  <2>4. x \notin Below(y)
    BY <2>1
  <2> HIDE DEF y
  <2>5. x \in S
    BY <2>3, <2>2, <1>3, <1>1, <2>1
  <2>6. Cardinality(Below(x)) = Cardinality(Below(y)) + 1
    <3> HIDE DEF Below
    <3> QED BY <2>3, <2>4, <2>5, <1>1, <2>1, FS_AddElement
  <2>7. Cardinality(Below(x)) = k
    <3> HIDE DEF Below
    <3> QED BY <2>2, <2>6, <1>1, <2>1, <1>3
  <2> QED BY <2>5, <2>7, RanksAre
<1> QED BY <1>4, <1>5

\* What load_after returns are rows after the one it is given, and it returns none
\* only if there is none.
LEMMA LoadShape ==
    ASSUME FeedConstants, NEW a \in Nat, appended \in Nat, rows \subseteq 1..appended
    PROVE  /\ L!LoadAfter(a) \in Seq({n \in rows : n > a})
           /\ L!LoadAfter(a) = <<>> <=> {n \in rows : n > a} = {}
<1> DEFINE found == {n \in rows : n > a}
           amount == IF Cardinality(found) < Batch THEN Cardinality(found) ELSE Batch
<1>1. found \subseteq Nat /\ \A n \in found : n <= appended
  <2>1. \A n \in rows : n \in Nat /\ n <= appended
    OBVIOUS
  <2> QED BY <2>1
<1>2. IsFiniteSet(found) /\ Cardinality(found) \in Nat
  BY <1>1, FS_BoundedSetOfNaturals, FS_CardinalityType
<1>3. /\ amount \in Nat /\ amount <= Cardinality(found)
      /\ amount = 0 <=> Cardinality(found) = 0
  BY <1>2 DEF FeedConstants
<1>4. L!LoadAfter(a) = [k \in 1..amount |-> L!Nth(found, k)]
  BY CardinalityIs DEF L!LoadAfter
<1> HIDE DEF found, amount
<1>5. ASSUME NEW k \in 1..amount PROVE L!Nth(found, k) \in found
  <2>1. k \in 1..Cardinality(found)
    BY <1>2, <1>3
  <2>2. \E x \in found : L!Rank(found, x) = k
    <3>1. \A s \in found : s <= appended
      BY <1>1
    <3>2. found \subseteq Nat
      BY <1>1
    <3> QED BY <3>1, <3>2, <2>1, RankExists, Zenon
  <2> QED BY <2>2 DEF L!Nth
<1>6. L!LoadAfter(a) \in Seq(found) /\ Len(L!LoadAfter(a)) = amount
  BY <1>3, <1>4, <1>5
<1>7. L!LoadAfter(a) = <<>> <=> amount = 0
  BY <1>6
<1>8. Cardinality(found) = 0 <=> found = {}
  BY <1>2, FS_EmptySet
<1> QED BY <1>3, <1>6, <1>7, <1>8 DEF found

\* Nothing has happened to a reader that has not subscribed.
LocalInv == L!TypeOK /\ (joined <=> at # "idle") /\ (~joined => read = 0 /\ ~told)

\* A publisher's step, or the loss of a row.
LEMMA LocalLogKeeps ==
    ASSUME FeedConstants, LocalInv, L!LogNext, UNCHANGED L!localVars
    PROVE  LocalInv'
<1>0. /\ UNCHANGED <<at, receiver, target, loaded, pending, gap, joined, read, told, lagged>>
      /\ appended \in Nat /\ sent \in Seq(1..appended) /\ pending \in Seq(1..appended)
  BY DEF L!localVars, LocalInv, L!TypeOK, FeedConstants
<1>1. CASE L!AppendEvent
  <2>1. /\ appended' = appended + 1 /\ appended' \in 0..MaxEvents
        /\ rows' = rows \cup {appended + 1} /\ unsent' = unsent \cup {appended + 1}
        /\ sent' = sent
    BY <1>1 DEF L!AppendEvent, LocalInv, L!TypeOK, FeedConstants
  <2>2. /\ 1..appended \subseteq 1..appended' /\ 0..appended \subseteq 0..appended'
        /\ appended + 1 \in 1..appended'
    BY <1>0, <2>1
  <2>3. sent \in Seq(1..appended') /\ pending \in Seq(1..appended')
    BY <1>0, <2>2, SeqMonotonic, Zenon
  <2> QED BY <1>0, <2>1, <2>2, <2>3 DEF LocalInv, L!TypeOK
<1>2. ASSUME NEW n \in 1..MaxEvents, L!Send(n)
      PROVE  LocalInv'
  <2>1. /\ n \in 1..appended /\ unsent' = unsent \ {n} /\ sent' = Append(sent, n)
        /\ UNCHANGED <<appended, rows>>
    BY <1>2 DEF L!Send, LocalInv, L!TypeOK
  <2>2. sent' \in Seq(1..appended) /\ Len(sent') = Len(sent) + 1 /\ Len(sent) \in Nat
    BY <1>0, <2>1, AppendProperties
  <2>3. receiver \in 0..Len(sent')
    BY <2>2 DEF LocalInv, L!TypeOK
  <2> QED BY <1>0, <2>1, <2>2, <2>3 DEF LocalInv, L!TypeOK
<1>3. ASSUME NEW n \in 1..MaxEvents, L!LoseRow(n)
      PROVE  LocalInv'
  <2>1. rows' = rows \ {n} /\ UNCHANGED <<appended, unsent, sent>>
    BY <1>3 DEF L!LoseRow
  <2> QED BY <1>0, <2>1 DEF LocalInv, L!TypeOK
<1> QED BY <1>1, <1>2, <1>3 DEF L!LogNext

\* subscribe and its catch-up.
LEMMA LocalCatchUpKeeps ==
    ASSUME FeedConstants, LocalInv,
           (\E a \in 0..MaxEvents : L!Register(a)) \/ L!ReadWatermark \/ L!LoadBatch
    PROVE  LocalInv'
<1>0. /\ appended \in 0..appended /\ appended \in Nat /\ Len(sent) \in Nat
      /\ rows \subseteq 1..appended /\ loaded \in 0..appended /\ loaded \in Nat
      /\ pending \in Seq(1..appended)
  BY DEF LocalInv, L!TypeOK, FeedConstants
<1>1. ASSUME NEW a \in 0..MaxEvents, L!Register(a)
      PROVE  LocalInv'
  BY <1>0, <1>1 DEF L!Register, L!logVars, LocalInv, L!TypeOK
<1>2. CASE L!ReadWatermark
  BY <1>0, <1>2 DEF L!ReadWatermark, L!logVars, LocalInv, L!TypeOK
<1>3. CASE L!LoadBatch
  <2> DEFINE found == L!LoadAfter(loaded)
             last == IF found = <<>> THEN loaded ELSE L!Last(found)
  <2>1. found \in Seq({n \in rows : n > loaded})
    BY <1>0, LoadShape
  <2>0. found = L!LoadAfter(loaded)
    OBVIOUS
  <2> HIDE DEF found
  <2>2. found \in Seq(1..appended)
    <3>1. {n \in rows : n > loaded} \subseteq 1..appended
      BY <1>0
    <3> QED BY <2>1, <3>1, SeqMonotonic, Zenon
  <2>3. last \in 0..appended
    <3>1. CASE found = <<>>
      BY <1>0, <3>1
    <3>2. CASE found # <<>>
      <4>1. Len(found) \in 1..Len(found)
        BY <2>2, <3>2
      <4>2. found[Len(found)] \in 1..appended
        BY <2>2, <4>1, ElementOfSeq
      <4> QED BY <1>0, <3>2, <4>2 DEF L!Last
    <3> QED BY <3>1, <3>2
  <2>4. /\ at \in {"first", "more"} /\ at' \in {"live", "more"} /\ gap' \in BOOLEAN
        /\ pending' = pending \o found /\ loaded' = last
        /\ UNCHANGED <<appended, rows, unsent, sent, receiver, target, joined, read, told, lagged>>
    <3>1. /\ at \in {"first", "more"}
          /\ pending' = pending \o L!LoadAfter(loaded)
          /\ loaded' = IF L!LoadAfter(loaded) = <<>> THEN loaded
                       ELSE L!Last(L!LoadAfter(loaded))
          /\ UNCHANGED <<L!logVars, receiver, target, joined, read, told, lagged>>
      BY <1>3, Zenon DEF L!LoadBatch, L!Last
    <3>2. gap' \in BOOLEAN
      BY <1>3, Zenon DEF L!LoadBatch
    <3>3. at' \in {"live", "more"}
      BY <1>3, Zenon DEF L!LoadBatch
    <3> QED BY <2>0, <3>1, <3>2, <3>3, Zenon DEF L!logVars
  <2>5. pending' \in Seq(1..appended)
    BY <1>0, <2>2, <2>4, ConcatProperties
  <2> HIDE DEF last
  <2> QED BY <2>3, <2>4, <2>5 DEF LocalInv, L!TypeOK
<1> QED BY <1>1, <1>2, <1>3

\* accept takes only the next event; anything else is a gap.
LEMMA AcceptShape ==
    ASSUME appended \in Nat, read \in Nat, told \in BOOLEAN,
           NEW event \in 1..appended, L!Accept(event)
    PROVE  /\ (read' = read + 1 /\ read < appended /\ UNCHANGED told) \/ read' = read
           /\ told' \in BOOLEAN
<1>1. CASE event = read + 1
  <2>1. read' = event /\ UNCHANGED told
    BY <1>1, Zenon DEF L!Accept
  <2>2. read' = read + 1 /\ read < appended
    BY <1>1, <2>1
  <2> QED BY <2>1, <2>2, Zenon
<1>2. CASE event # read + 1
  BY <1>2, Zenon DEF L!Accept
<1> QED BY <1>1, <1>2

\* What a reader's step may do to what it has read and been told.
LEMMA LocalReceiveShape ==
    ASSUME FeedConstants, LocalInv, L!Receive
    PROVE  /\ at = "live" /\ ~told /\ joined
           /\ UNCHANGED <<appended, rows, unsent, sent, at, target, loaded, joined>>
           /\ (read' = read + 1 /\ read < appended /\ UNCHANGED told) \/ read' = read
           /\ told' \in BOOLEAN
           /\ pending' \in Seq(1..appended) /\ receiver' \in 0..Len(sent)
           /\ gap' \in BOOLEAN /\ lagged' \in BOOLEAN
<1>1. /\ appended \in Nat /\ read \in Nat /\ Len(sent) \in Nat
      /\ sent \in Seq(1..appended) /\ pending \in Seq(1..appended) /\ receiver \in 0..Len(sent)
  BY DEF LocalInv, L!TypeOK, FeedConstants
<1>2. told \in BOOLEAN /\ gap \in BOOLEAN /\ lagged \in BOOLEAN
  BY DEF LocalInv, L!TypeOK
<1>3. /\ at = "live" /\ ~told
      /\ UNCHANGED <<appended, rows, unsent, sent, at, target, loaded, joined>>
  BY DEF L!Receive, L!ReceiveGap, L!ReceivePending, L!ReceiveLive,
         L!logVars
<1>4. joined
  BY <1>3 DEF LocalInv
<1>5. CASE L!ReceiveGap
  <2>1. gap' = FALSE /\ told' = TRUE /\ UNCHANGED <<receiver, pending, read, lagged>>
    BY <1>5 DEF L!ReceiveGap
  <2> QED BY <1>1, <1>2, <1>3, <1>4, <2>1, Zenon
<1>6. CASE L!ReceivePending
  <2>1. /\ pending # <<>> /\ pending' = Tail(pending) /\ L!Accept(Head(pending))
        /\ UNCHANGED <<receiver, gap, lagged>>
    BY <1>6, Zenon DEF L!ReceivePending
  <2>2. Head(pending) \in 1..appended /\ pending' \in Seq(1..appended)
    BY <1>1, <2>1, HeadTailProperties
  <2>3. /\ (read' = read + 1 /\ read < appended /\ UNCHANGED told) \/ read' = read
        /\ told' \in BOOLEAN
    BY <1>1, <1>2, <2>1, <2>2, AcceptShape
  <2> QED BY <1>1, <1>2, <1>3, <1>4, <2>1, <2>2, <2>3, Zenon
<1>7. CASE L!ReceiveLive
  <2>1. receiver < Len(sent) /\ UNCHANGED <<pending, gap>>
    BY <1>7 DEF L!ReceiveLive, L!HasNext
  <2>2. sent[receiver + 1] \in 1..appended
    BY <1>1, <2>1, ElementOfSeq
  <2>3. CASE L!HasLagged(receiver)
    <3>1. /\ receiver' = Len(sent) - Buffer /\ lagged' = TRUE /\ told' = TRUE /\ read' = read
      BY <1>7, <2>3 DEF L!ReceiveLive, L!OldestKept
    <3>2. receiver' \in 0..Len(sent)
      <4>1. receiver' = Len(sent) - Buffer /\ Buffer \in Nat
        BY <3>1 DEF FeedConstants
      <4>2. Len(sent) - receiver > Buffer
        BY <2>3 DEF L!HasLagged
      <4>3. receiver \in Nat /\ Len(sent) \in Nat
        BY <1>1
      <4>4. \A n, p, b \in Nat : n - p > b => n - b \in 0..n
        OBVIOUS
      <4> QED BY <4>1, <4>2, <4>3, <4>4, Zenon
    <3> QED BY <1>1, <1>2, <1>3, <1>4, <2>1, <3>1, <3>2, Zenon
  <2>4. CASE ~L!HasLagged(receiver)
    <3>1. /\ receiver' = receiver + 1 /\ lagged' = lagged
          /\ IF sent[receiver + 1] <= read
             THEN UNCHANGED <<read, told>>
             ELSE L!Accept(sent[receiver + 1])
      BY <1>7, <2>4 DEF L!ReceiveLive
    <3>2. receiver' \in 0..Len(sent)
      BY <1>1, <2>1, <3>1
    <3>3. /\ (read' = read + 1 /\ read < appended /\ UNCHANGED told) \/ read' = read
          /\ told' \in BOOLEAN
      <4>1. CASE sent[receiver + 1] <= read
        BY <1>2, <3>1, <4>1, Zenon
      <4>2. CASE ~(sent[receiver + 1] <= read)
        <5>1. L!Accept(sent[receiver + 1])
          BY <3>1, <4>2
        <5> QED BY <1>1, <1>2, <2>2, <5>1, AcceptShape
      <4> QED BY <4>1, <4>2
    <3> QED BY <1>1, <1>2, <1>3, <1>4, <2>1, <3>1, <3>2, <3>3, Zenon
  <2> QED BY <2>3, <2>4
<1> QED BY <1>5, <1>6, <1>7 DEF L!Receive

LEMMA LocalReceiveKeeps ==
    ASSUME FeedConstants, LocalInv, L!Receive
    PROVE  LocalInv'
<1>1. /\ at = "live" /\ joined
      /\ UNCHANGED <<appended, rows, unsent, sent, at, target, loaded, joined>>
      /\ told' \in BOOLEAN
      /\ pending' \in Seq(1..appended) /\ receiver' \in 0..Len(sent)
      /\ gap' \in BOOLEAN /\ lagged' \in BOOLEAN
  BY LocalReceiveShape
<1>2. read' \in 0..appended
  <2>1. appended \in Nat /\ read \in 0..appended
    BY DEF LocalInv, L!TypeOK, FeedConstants
  <2>2. (read' = read + 1 /\ read < appended) \/ read' = read
    BY LocalReceiveShape
  <2> QED BY <2>1, <2>2
<1> QED BY <1>1, <1>2 DEF LocalInv, L!TypeOK

LEMMA LocalStart ==
    ASSUME FeedConstants, L!Init
    PROVE  LocalInv
<1>1. /\ appended = 0 /\ rows = {} /\ unsent = {} /\ sent = <<>> /\ at = "idle"
      /\ receiver = 0 /\ target = 0 /\ loaded = 0 /\ pending = <<>> /\ gap = FALSE
      /\ joined = FALSE /\ read = 0 /\ told = FALSE /\ lagged = FALSE
  BY DEF L!Init, L!LogInit, L!LocalInit
<1>2. /\ 0 \in 0..MaxEvents /\ 0 \in 0..0 /\ {} \subseteq 1..0 /\ <<>> \in Seq(1..0)
      /\ 0 \in 0..Len(<<>>)
  BY DEF FeedConstants
<1>3. L!TypeOK
  BY <1>1, <1>2, Zenon DEF L!TypeOK
<1> QED BY <1>1, <1>3 DEF LocalInv

LEMMA LocalStep ==
    ASSUME FeedConstants, LocalInv, [L!Next]_(L!vars)
    PROVE  LocalInv'
<1>1. CASE UNCHANGED L!vars
  BY <1>1 DEF L!vars, L!logVars, L!localVars, LocalInv, L!TypeOK
<1>2. CASE L!Next
  BY <1>2, LocalLogKeeps, LocalCatchUpKeeps, LocalReceiveKeeps DEF L!Next
<1> QED BY <1>1, <1>2

\* Each step of the publishers and of the reader is one of the feed, or none.
LEMMA LocalStepIsOfFeed ==
    ASSUME FeedConstants, LocalInv, [L!Next]_(L!vars)
    PROVE  [L!Feed!Next]_(L!Feed!vars)
<1> USE DEF L!Feed!Next, L!Feed!vars
<1>1. CASE L!LogNext /\ UNCHANGED L!localVars
  BY <1>1 DEF L!LogNext, L!AppendEvent, L!Send, L!LoseRow, L!localVars,
              L!Feed!Produce
<1>2. ASSUME NEW a \in 0..MaxEvents, L!Register(a)
      PROVE  L!Feed!Join
  <2>1. ~joined
    BY <1>2 DEF LocalInv, L!Register
  <2> QED BY <1>2, <2>1 DEF L!Register, L!logVars, L!Feed!Join
<1>3. CASE L!ReadWatermark \/ L!LoadBatch
  BY <1>3 DEF L!ReadWatermark, L!LoadBatch, L!logVars
<1>4. CASE L!Receive
  <2>1. /\ joined /\ ~told /\ UNCHANGED <<appended, joined>>
        /\ (read' = read + 1 /\ read < appended /\ UNCHANGED told) \/ read' = read
        /\ told' \in BOOLEAN /\ told \in BOOLEAN
    BY <1>4, LocalReceiveShape DEF LocalInv, L!TypeOK
  <2>2. CASE read' = read + 1 /\ read < appended /\ UNCHANGED told
    BY <2>1, <2>2 DEF L!Feed!Deliver
  <2>3. CASE read' = read
    BY <2>1, <2>3, Zenon DEF L!Feed!Tell
  <2> QED BY <2>1, <2>2, <2>3
<1>5. CASE UNCHANGED L!vars
  BY <1>5 DEF L!vars, L!logVars, L!localVars
<1> QED BY <1>1, <1>2, <1>3, <1>4, <1>5 DEF L!Next

\* The in-process subscription is an ordered feed, for every number of publishers and of
\* events, every lag bound and batch: what it returns is the log's next row, until it says
\* that it cannot go on (InProcessClient::subscribe, EventSubscription::recv).
THEOREM LocalImplementsFeed == FeedConstants => (Spec => FeedIsKept)
<1> SUFFICES ASSUME FeedConstants PROVE Spec => FeedIsKept
  OBVIOUS
<1>1. Init => L!Feed!Init /\ LocalInv
  BY LocalStart DEF Init, L!Init, L!LogInit, L!LocalInit, L!Feed!Init
<1>2. [Next]_vars => [L!Next]_(L!vars)
  BY DEF Next, vars, Only, feed, reader, L!vars, L!logVars, L!localVars
<1>3. LocalInv /\ [Next]_vars => LocalInv' /\ [L!Feed!Next]_(L!Feed!vars)
  BY <1>2, LocalStep, LocalStepIsOfFeed
<1> QED BY <1>1, <1>3, PTL DEF Spec, FeedIsKept, L!FeedIsOrdered, L!Feed!Spec
-----------------------------------------------------------------------------
(* The shapes of all components.                                           *)

LEMMA ReplayTyped == ReplayConstants => (Spec => []R!TypeOK)
<1> SUFFICES ASSUME ReplayConstants PROVE Spec => []R!TypeOK
  OBVIOUS
<1>1. Init => R!ReplayInv
  BY FiniteActions, R!ReplayInitial DEF Init, ReplayConstants
<1>2. R!ReplayInv /\ [Next]_vars => R!ReplayInv'
  <2>1. [Next]_vars => [R!Next]_(R!replayVars)
    BY DEF Next, vars, Only, replay, R!replayVars
  <2> QED BY <2>1, FiniteActions, R!ReplayStep DEF ReplayConstants
<1>3. R!ReplayInv => R!TypeOK
  BY FiniteActions, R!TypeHolds DEF ReplayConstants
<1> QED BY <1>1, <1>2, <1>3, PTL DEF Spec

LEMMA LoopTyped == A!AgentAssumption => (Spec => []A!TypeOK)
<1> SUFFICES ASSUME A!AgentAssumption PROVE Spec => []A!TypeOK
  OBVIOUS
<1>1. Init => LoopInv
  BY LoopStart DEF Init
<1>2. LoopInv /\ [Next]_vars => LoopInv'
  <2>1. [Next]_vars => [A!Next]_(A!agentVars)
    BY DEF Next, vars, Only, agent, A!agentVars
  <2> QED BY <2>1, LoopStep
<1>3. LoopInv => A!TypeOK
  BY DEF LoopInv
<1> QED BY <1>1, <1>2, <1>3, PTL DEF Spec

LEMMA HistoryTyped == H!HistoryAssumption => (Spec => []H!TypeOK)
<1> SUFFICES ASSUME H!HistoryAssumption PROVE Spec => []H!TypeOK
  OBVIOUS
<1>1. Init => H!HistoryInv /\ H!ReadyInv /\ H!TypesInv
  BY H!HistoryStart, H!ReadyAtFirst, H!TypesAtFirst DEF Init
<1>2. H!HistoryInv /\ H!ReadyInv /\ H!TypesInv /\ [Next]_vars => H!HistoryInv' /\ H!ReadyInv' /\ H!TypesInv'
  <2>1. [Next]_vars => [H!Next]_(H!historyVars)
    BY DEF Next, vars, Only, history, H!historyVars
  <2> QED BY <2>1, H!HistoryStep, H!ReadyNext, H!TypesNext
<1>3. H!HistoryInv /\ H!ReadyInv /\ H!TypesInv => H!TypeOK
  BY H!TypesMean
<1> QED BY <1>1, <1>2, <1>3, PTL DEF Spec

LEMMA TreesTyped == B!SandboxAssumption => (Spec => []B!TypeOK)
<1> SUFFICES ASSUME B!SandboxAssumption PROVE Spec => []B!TypeOK
  OBVIOUS
<1>1. Init => EditInv /\ TreesInv
  BY EditStart, TreesStart DEF Init
<1>2. EditInv /\ TreesInv /\ [Next]_vars => EditInv' /\ TreesInv'
  <2>1. [Next]_vars => [B!Next]_(B!sandboxVars)
    BY DEF Next, vars, Only, trees, B!sandboxVars
  <2> QED BY <2>1, EditStep, TreesStep
<1>3. EditInv /\ TreesInv => B!TypeOK
  BY DEF EditInv, TreesInv, B!TypeOK
<1> QED BY <1>1, <1>2, <1>3, PTL DEF Spec

LEMMA DirectoryTyped == D!DirectoryAssumption => (Spec => []D!TypeOK)
<1> SUFFICES ASSUME D!DirectoryAssumption PROVE Spec => []D!TypeOK
  OBVIOUS
<1>1. Init => StartInv /\ RowsInv
  BY StartStart, RowsStart DEF Init
<1>2. StartInv /\ RowsInv /\ [Next]_vars => StartInv' /\ RowsInv'
  <2>1. [Next]_vars => [D!Next]_(D!directoryVars)
    BY DEF Next, vars, Only, directory, D!directoryVars
  <2> QED BY <2>1, StartStep, RowsStep
<1>3. StartInv /\ RowsInv => D!TypeOK
  BY DirectoryTypes
<1> QED BY <1>1, <1>2, <1>3, PTL DEF Spec

LEMMA ConfigTyped == C!ConfigurationAssumption => (Spec => []C!TypeOK)
<1> SUFFICES ASSUME C!ConfigurationAssumption PROVE Spec => []C!TypeOK
  OBVIOUS
<1>1. Init => ConfigInv
  BY ConfigStart DEF Init
<1>2. ConfigInv /\ [Next]_vars => ConfigInv'
  <2>1. [Next]_vars => [C!Next]_(C!configVars)
    BY DEF Next, vars, Only, settings, C!configVars
  <2> QED BY <2>1, ConfigStep
<1>3. ConfigInv => C!TypeOK
  BY DEF ConfigInv, ConfigShape, Actor, Settings, C!TypeOK
<1> QED BY <1>1, <1>2, <1>3, PTL DEF Spec

LEMMA StreamTyped == P!StreamAssumption => (Spec => []P!TypeOK)
<1> SUFFICES ASSUME P!StreamAssumption PROVE Spec => []P!TypeOK
  OBVIOUS
<1>1. Init => P!StreamInv /\ P!BoundsInv
  BY P!StreamStart, P!BoundsStart DEF Init
<1>2. P!StreamInv /\ P!BoundsInv /\ [Next]_vars => P!StreamInv' /\ P!BoundsInv'
  <2>1. [Next]_vars => [P!Next]_(P!streamVars)
    BY DEF Next, vars, Only, stream, P!streamVars
  <2> QED BY <2>1, P!StreamStep, P!BoundsStep
<1>3. P!StreamInv /\ P!BoundsInv => P!TypeOK
  BY P!StreamTypes
<1> QED BY <1>1, <1>2, <1>3, PTL DEF Spec

LEMMA FeedTyped == FeedConstants => (Spec => []L!TypeOK)
<1> SUFFICES ASSUME FeedConstants PROVE Spec => []L!TypeOK
  OBVIOUS
<1>1. Init => LocalInv
  BY LocalStart DEF Init
<1>2. LocalInv /\ [Next]_vars => LocalInv'
  <2>1. [Next]_vars => [L!Next]_(L!vars)
    BY DEF Next, vars, Only, feed, reader, L!vars, L!logVars, L!localVars
  <2> QED BY <2>1, LocalStep
<1>3. LocalInv => L!TypeOK
  BY DEF LocalInv
<1> QED BY <1>1, <1>2, <1>3, PTL DEF Spec

\* Every component keeps its shape, for all values of the constants that its code admits:
\* the calls and usage of the loop within their limits, the ids of a journal a prefix of
\* the numbers, the trees rooted, the rows of servers that were started, the deltas
\* and events of open items, the rows of the log those of what was appended.
THEOREM TypeCorrect ==
    /\ ReplayConstants /\ A!AgentAssumption /\ H!HistoryAssumption /\ B!SandboxAssumption
    /\ D!DirectoryAssumption /\ C!ConfigurationAssumption /\ P!StreamAssumption
    /\ FeedConstants
    => (Spec => []TypeOK)
<1> SUFFICES ASSUME ReplayConstants, A!AgentAssumption, H!HistoryAssumption,
                    B!SandboxAssumption, D!DirectoryAssumption, C!ConfigurationAssumption,
                    P!StreamAssumption, FeedConstants
             PROVE  Spec => []TypeOK
  OBVIOUS
<1>1. Init => part \in Parts
  BY DEF Init
<1>2. part \in Parts /\ [Next]_vars => (part \in Parts)'
  BY DEF Next, vars, Only
<1>3. Spec => []R!TypeOK /\ []A!TypeOK /\ []H!TypeOK /\ []B!TypeOK
  BY ReplayTyped, LoopTyped, HistoryTyped, TreesTyped
<1>4. Spec => []D!TypeOK /\ []C!TypeOK /\ []P!TypeOK /\ []L!TypeOK
  BY DirectoryTyped, ConfigTyped, StreamTyped, FeedTyped
<1>5. /\ part \in Parts
      /\ R!TypeOK /\ A!TypeOK /\ H!TypeOK /\ B!TypeOK
      /\ D!TypeOK /\ C!TypeOK /\ P!TypeOK /\ L!TypeOK
      => TypeOK
  BY DEF TypeOK
<1> QED BY <1>1, <1>2, <1>3, <1>4, <1>5, PTL DEF Spec
================================================================================
