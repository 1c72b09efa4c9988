---------------------------- MODULE TaskSupervisor ----------------------------
(***************************************************************************)
(* Long-running tasks of the App Service: start_task, the supervisor it    *)
(* spawns (run_task and await_task_approval), the two client calls that    *)
(* race with it (task/cancel and approval/respond), and the restart of the *)
(* service after a crash.                                                  *)
(*                                                                         *)
(* A task t \in Tasks is one call of start_task with the fresh id the call *)
(* draws; pc[t] is where that call, and then the supervisor it spawns, has *)
(* got to.  call[c] is the cancel or respond call a client has in flight.  *)
(* Every access to SQLite is a step of its own, because every method of    *)
(* EventStore opens its own connection: in particular transition_task is a *)
(* load and a check (phase "load"), then an upsert (phase "save"), with    *)
(* nothing held between the two.                                           *)
(***************************************************************************)
EXTENDS Naturals, TaskLifecycle

CONSTANTS Tasks,       \* calls of start_task, by the task id each one draws
          Sessions,    \* recording sessions
          Operations,  \* operation ids: a retry of task/start repeats one
          Requests,    \* the fields equivalent_approval_requests compares
          Inputs,      \* what task/start may be asked for: session, operation, request
          Clients,     \* clients, each with at most one call in flight
          NoSession,   \* the session of a task without one (the demo)
          NoTask,      \* the free value of a session lock
          MaxCrashes,  \* bound on process crashes
          MaxFaults    \* bound on store operations that return an error

ASSUME ConstantsAssumption ==
    /\ NoSession \notin Sessions
    /\ NoTask \notin Tasks
    /\ Inputs \subseteq [session : Sessions \cup {NoSession},
                         operation : Operations, request : Requests]
    /\ MaxCrashes \in Nat
    /\ MaxFaults \in Nat

VARIABLES
    \* what SQLite holds
    status,        \* tasks.status of each task id, "absent" before the INSERT
    approval,      \* approvals.status of the request a task may make
    rules,         \* tasks whose request was approved for the whole session
    log,           \* the events of each task in app_events, of the kinds in EventKinds
    \* what the process holds
    service,       \* "up", "booting" (inside start) or "down"
    sessionTasks,  \* session_tasks: the task that locks each session
    tokens,        \* task_cancellations: tasks with a registered token
    signalled,     \* tasks whose own cancellation token is cancelled
    shutdown,      \* the root token, parent of all of them, is cancelled
    waiters,       \* task_approval_waiters: tasks with a registered oneshot
    decision,      \* the resolution sent down a task's oneshot, if any
    input,         \* what each call of start_task was asked for
    gate,          \* the ApprovalGate of each task
    pc, phase,     \* control of each start_task call and its supervisor
    call,          \* the call each client has in flight
    toFail,        \* interrupted tasks whose TaskFailed is still to be appended
    \* bounds, and one history variable
    crashes, faults,
    executed       \* tasks whose command was handed to the actor

database   == <<status, approval, rules, log>>
registries == <<sessionTasks, tokens, waiters, decision>>
signals    == <<signalled, shutdown>>
job        == <<input, gate>>
control    == <<pc, phase>>
process    == <<service, call, toFail>>
bounds     == <<crashes, faults>>
vars == <<database, registries, signals, job, control, process, bounds, executed>>

-----------------------------------------------------------------------------
(***************************************************************************)
(* Values                                                                  *)
(***************************************************************************)
NoInput == [session |-> NoSession, operation |-> NoTask, request |-> NoTask]

ApprovalStatus == {"absent", "pending", "approved", "denied", "cancelled", "expired"}

\* Mutant of StatusOf: the choice itself is written as the status of the row.
StatusIsChoice(choice) == choice

\* The ApprovalStatus each choice of a response stands for; "approve_equivalent"
\* also leaves a rule behind for the rest of the session.
Choices == {"approve", "approve_equivalent", "deny", "cancel"}
StatusOf(choice) ==
    [approve |-> "approved", approve_equivalent |-> "approved",
     deny    |-> "denied",   cancel             |-> "cancelled"][choice]

\* "ruled" is a gate of Require that an equivalent rule turned into Allow.
Gates == {"none", "allow", "ruled", "deny", "require"}

\* The events the properties are about; the others are published too, in their
\* place, by a step that leaves no trace in log.
EventKinds == {"resolved", "completed", "failed"}

StarterPC == {"gate", "lock", "insert", "spawn"}
ApprovalPC == {"ask", "request", "listen", "announce", "select",
               "approved", "resume", "refused", "refuse", "abandon"}
RunPC == {"load", "start", "dispatch", "execute", "executing", "settle", "reload",
          "cancelling", "cancel", "report", "complete", "fail", "cleanup"}
SupervisorPC == RunPC \cup ApprovalPC
\* "rejected", "existing": start_task returned without a task of its own;
\* "leaked": it returned an error after the row was written and the lock taken.
EndPC == {"done", "rejected", "existing", "leaked", "dead"}

\* A call in flight: its task, its next step, and the status it writes.
NoCall == [kind |-> "none", task |-> NoTask, at |-> "idle", next |-> "absent"]
CancelCalls == [kind : {"cancel"}, task : Tasks,
                at   : {"check", "save", "signal", "close", "resolved", "cancelled"},
                next : {"cancelled", "cancelling"}]
RespondCalls == [kind : {"respond"}, task : Tasks, at : {"resolved", "notify"},
                 next : {"approved", "denied", "cancelled"}]
Calls == {NoCall} \cup CancelCalls \cup RespondCalls

SessionOf(t) == input[t].session

Supervised(t) == pc[t] \in SupervisorPC

\* A set of statuses with one active row per session: the partial unique index
\* tasks_one_active_per_session.  Rows without a session are not indexed.
IndexAllows(t, s) ==
    (s \in ActiveStatus /\ SessionOf(t) # NoSession) =>
        \A u \in Tasks \ {t} :
            SessionOf(u) = SessionOf(t) => status[u] \notin ActiveStatus

Goto(t, to) == pc' = [pc EXCEPT ![t] = to] /\ phase' = [phase EXCEPT ![t] = "load"]

Emit(t, event) == log' = [log EXCEPT ![t] = @ \cup ({event} \cap EventKinds)]

Cancelled(t) == shutdown \/ t \in signalled

Unlock(t) ==
    IF SessionOf(t) = NoSession
    THEN UNCHANGED sessionTasks
    ELSE sessionTasks' = [sessionTasks EXCEPT ![SessionOf(t)] = NoTask]

-----------------------------------------------------------------------------
Init ==
    /\ status = [t \in Tasks |-> "absent"]
    /\ approval = [t \in Tasks |-> "absent"]
    /\ rules = {}
    /\ log = [t \in Tasks |-> {}]
    /\ service = "up"
    /\ sessionTasks = [s \in Sessions |-> NoTask]
    /\ tokens = {}
    /\ signalled = {}
    /\ shutdown = FALSE
    /\ waiters = {}
    /\ decision = [t \in Tasks |-> "absent"]
    /\ input = [t \in Tasks |-> NoInput]
    /\ gate = [t \in Tasks |-> "none"]
    /\ pc = [t \in Tasks |-> "new"]
    /\ phase = [t \in Tasks |-> "load"]
    /\ call = [c \in Clients |-> NoCall]
    /\ toFail = {}
    /\ crashes = 0
    /\ faults = 0
    /\ executed = {}

-----------------------------------------------------------------------------
(***************************************************************************)
(* start_task                                                              *)
(***************************************************************************)

\* A new call looks its operation id up; a task that has it is the answer.
Submit(t, i) ==
    /\ service = "up"
    /\ pc[t] = "new"
    /\ input' = [input EXCEPT ![t] = i]
    /\ \/ /\ \E u \in Tasks : status[u] # "absent" /\ input[u].operation = i.operation
          /\ Goto(t, "existing")
       \/ /\ \A u \in Tasks : status[u] # "absent" => input[u].operation # i.operation
          /\ Goto(t, "gate")
    /\ UNCHANGED <<database, registries, signals, gate, process, bounds, executed>>

\* An earlier approval "for the session" of a request with the same fields.
HasRule(t) ==
    \E u \in rules : /\ input[u].session = input[t].session
                     /\ input[u].request = input[t].request

\* What approval_gate may decide; a task without a session is always allowed.
Policies(t) == IF SessionOf(t) = NoSession THEN {"allow"} ELSE {"allow", "deny", "require"}

\* session_detail, task_command and approval_gate, each of which may reject the
\* call; then the lookup of a rule for what requires an approval.
CheckPolicy(t) ==
    /\ pc[t] = "gate"
    /\ \/ /\ Goto(t, "rejected")
          /\ UNCHANGED gate
       \/ \E policy \in Policies(t) :
            /\ gate' = [gate EXCEPT ![t] = IF policy = "require" /\ HasRule(t)
                                           THEN "ruled" ELSE policy]
            /\ Goto(t, "lock")
    /\ UNCHANGED <<database, registries, signals, input, process, bounds, executed>>

\* Mutant of LockSession: the lock is taken without looking whether it is free.
LockWithoutLooking(t) ==
    /\ pc[t] = "lock"
    /\ sessionTasks' = IF SessionOf(t) = NoSession THEN sessionTasks
                       ELSE [sessionTasks EXCEPT ![SessionOf(t)] = t]
    /\ Goto(t, "insert")
    /\ UNCHANGED <<database, tokens, waiters, decision, signals, job, process, bounds,
                   executed>>

\* The in-memory session lock: taken, or OperationInProgress.
LockSession(t) ==
    /\ pc[t] = "lock"
    /\ IF SessionOf(t) = NoSession
       THEN Goto(t, "insert") /\ UNCHANGED sessionTasks
       ELSE IF sessionTasks[SessionOf(t)] # NoTask
            THEN Goto(t, "rejected") /\ UNCHANGED sessionTasks
            ELSE /\ sessionTasks' = [sessionTasks EXCEPT ![SessionOf(t)] = t]
                 /\ Goto(t, "insert")
    /\ UNCHANGED <<database, tokens, waiters, decision, signals, job, process, bounds,
                   executed>>

\* Mutant of OperationIsNew: operation_id is not UNIQUE.
OperationNotChecked(t) == TRUE

\* Mutant of InsertTask: a failed INSERT keeps the session locked.
InsertKeepsLock(t) ==
    /\ pc[t] = "insert"
    /\ IF \A u \in Tasks : status[u] # "absent" => input[u].operation # input[t].operation
       THEN status' = [status EXCEPT ![t] = "queued"] /\ Goto(t, "spawn")
       ELSE Goto(t, "rejected") /\ UNCHANGED status
    /\ UNCHANGED <<approval, rules, log, registries, signals, job, process, bounds, executed>>

\* The INSERT of the queued row may break UNIQUE(operation_id) or the index.
OperationIsNew(t) ==
    \A u \in Tasks : status[u] # "absent" => input[u].operation # input[t].operation

InsertTask(t) ==
    /\ pc[t] = "insert"
    /\ IF OperationIsNew(t) /\ IndexAllows(t, "queued")
       THEN /\ status' = [status EXCEPT ![t] = "queued"]
            /\ Goto(t, "spawn")
            /\ UNCHANGED sessionTasks
       ELSE /\ Unlock(t)
            /\ Goto(t, "rejected")
            /\ UNCHANGED status
    /\ UNCHANGED <<approval, rules, log, tokens, waiters, decision, signals, job,
                   process, bounds, executed>>

\* Mutant of SpawnSupervisor: the token is not registered.
SpawnWithoutToken(t) ==
    /\ pc[t] = "spawn"
    /\ Goto(t, "load")
    /\ UNCHANGED <<database, registries, signals, job, process, bounds, executed>>

\* The prompt of an agent turn is published, then the token is registered and
\* the supervisor spawned; the id returned to the client is already persisted.
SpawnSupervisor(t) ==
    /\ pc[t] = "spawn"
    /\ tokens' = tokens \cup {t}
    /\ Goto(t, "load")
    /\ UNCHANGED <<database, sessionTasks, waiters, decision, signals, job, process,
                   bounds, executed>>

StartTask(t) == CheckPolicy(t) \/ LockSession(t) \/ InsertTask(t) \/ SpawnSupervisor(t)

-----------------------------------------------------------------------------
(***************************************************************************)
(* The supervisor: run_task and await_task_approval                        *)
(***************************************************************************)

\* Mutant of OnError: an error returns from run_task at once.
ErrorReturns(t) == IF pc[t] \in ApprovalPC THEN "settle" ELSE "done"

\* Where an error leads: out of await_task_approval it is the response of the
\* task; anywhere else in run_task it is logged and the supervisor cleans up.
OnError(t) == IF pc[t] \in ApprovalPC THEN "settle" ELSE "cleanup"

\* transition_task(next) at label `at`, then the publication of `event`, then
\* `then`.  "none" is a transition that publishes nothing.
TransitionTask(t, at, next, event, then) ==
    /\ pc[t] = at
    /\ \/ /\ phase[t] = "load"
          /\ IF CanTransitionTo(status[t], next)
             THEN phase' = [phase EXCEPT ![t] = "save"] /\ UNCHANGED pc
             ELSE Goto(t, OnError(t))
          /\ UNCHANGED <<status, log>>
       \/ /\ phase[t] = "save"
          /\ IF IndexAllows(t, next)
             THEN /\ status' = [status EXCEPT ![t] = next]
                  /\ IF event = "none"
                     THEN Goto(t, then)
                     ELSE phase' = [phase EXCEPT ![t] = "publish"] /\ UNCHANGED pc
             ELSE Goto(t, OnError(t)) /\ UNCHANGED status
          /\ UNCHANGED log
       \/ /\ phase[t] = "publish"
          /\ Emit(t, event)
          /\ Goto(t, then)
          /\ UNCHANGED status
    /\ UNCHANGED <<approval, rules, registries, signals, job, process, bounds, executed>>

\* A step of the supervisor that only moves its control.
Step(t, at, to) ==
    /\ pc[t] = at
    /\ Goto(t, to)
    /\ UNCHANGED <<database, registries, signals, job, process, bounds, executed>>

\* run_task reads the row: a task cancelled while queued never starts.
Load(t) ==
    Step(t, "load", IF IsTerminal(status[t]) THEN "cleanup" ELSE "start")

Start(t) == TransitionTask(t, "start", "running", "started", "dispatch")

\* The match on the approval gate; a denied task has its error as response.
Dispatch(t) ==
    Step(t, "dispatch", IF gate[t] \in {"allow", "ruled"} THEN "execute"
                        ELSE IF gate[t] = "require" THEN "ask" ELSE "settle")

\* The command goes to the actor, which spawns a worker for it.
Execute(t) ==
    /\ pc[t] = "execute"
    /\ executed' = executed \cup {t}
    /\ Goto(t, "executing")
    /\ UNCHANGED <<database, registries, signals, job, process, bounds>>

\* Mutant of Outcome: the response is not looked at.
OutcomeIgnoresError(t, response) == IF Cancelled(t) THEN "reload" ELSE "complete"

\* Once there is a response the token, not the row, decides the outcome.
Outcome(t, response) ==
    IF Cancelled(t) THEN "reload" ELSE IF response = "ok" THEN "complete" ELSE "fail"

\* The worker's result; a cancelled command may still have succeeded.
Respond(t) == \E response \in {"ok", "err"} : Step(t, "executing", Outcome(t, response))

\* A denied gate, or await_task_approval gave no permission: an error.
Settle(t) == Step(t, "settle", Outcome(t, "err"))

Ask(t) == TransitionTask(t, "ask", "waiting_for_approval", "none", "request")

\* save_approval: from here on a client can see and answer the request.
RequestApproval(t) ==
    /\ pc[t] = "request"
    /\ approval' = [approval EXCEPT ![t] = "pending"]
    /\ Goto(t, "listen")
    /\ UNCHANGED <<status, rules, log, registries, signals, job, process, bounds,
                   executed>>

\* The oneshot is registered only now.
Listen(t) ==
    /\ pc[t] = "listen"
    /\ waiters' = waiters \cup {t}
    /\ Goto(t, "announce")
    /\ UNCHANGED <<database, sessionTasks, tokens, decision, signals, job, process,
                   bounds, executed>>

AnnounceRequest(t) ==
    /\ pc[t] = "announce"
    /\ Emit(t, "requested")
    /\ Goto(t, "select")
    /\ UNCHANGED <<status, approval, rules, registries, signals, job, process, bounds,
                   executed>>

\* Mutant of Select: any decision counts as an approval.
SelectAnyDecision(t) ==
    /\ pc[t] = "select"
    /\ \/ decision[t] # "absent" /\ Goto(t, "approved")
       \/ Cancelled(t) /\ Goto(t, "settle")
    /\ waiters' = waiters \ {t}
    /\ decision' = [decision EXCEPT ![t] = "absent"]
    /\ UNCHANGED <<database, sessionTasks, tokens, signals, job, process, bounds, executed>>

\* Mutant of Select: the oneshot is awaited without watching the token.
SelectDecisionOnly(t) ==
    /\ pc[t] = "select"
    /\ decision[t] # "absent"
    /\ Goto(t, IF decision[t] = "approved" THEN "approved" ELSE "refused")
    /\ waiters' = waiters \ {t}
    /\ decision' = [decision EXCEPT ![t] = "absent"]
    /\ UNCHANGED <<database, sessionTasks, tokens, signals, job, process, bounds, executed>>

\* select! between the oneshot and the cancellation token; when both are ready
\* either branch may be taken.  The waiter is removed afterwards.
Select(t) ==
    /\ pc[t] = "select"
    /\ \/ /\ decision[t] # "absent"
          /\ Goto(t, IF decision[t] = "approved" THEN "approved" ELSE "refused")
       \/ /\ Cancelled(t)
          /\ Goto(t, "settle")
    /\ waiters' = waiters \ {t}
    /\ decision' = [decision EXCEPT ![t] = "absent"]
    /\ UNCHANGED <<database, sessionTasks, tokens, signals, job, process, bounds, executed>>

\* Approved: the task resumes only if its row still says it is waiting.
CheckApproved(t) ==
    Step(t, "approved", IF status[t] = "waiting_for_approval" THEN "resume" ELSE "settle")

Resume(t) == TransitionTask(t, "resume", "running", "progress", "execute")

CheckRefused(t) ==
    Step(t, "refused", IF status[t] = "waiting_for_approval" THEN "refuse" ELSE "abandon")

Refuse(t) == TransitionTask(t, "refuse", "cancelling", "progress", "abandon")

\* A refusal cancels the task's own token.
Abandon(t) ==
    /\ pc[t] = "abandon"
    /\ signalled' = signalled \cup {t}
    /\ Goto(t, "settle")
    /\ UNCHANGED <<database, registries, shutdown, job, process, bounds, executed>>

Reload(t) ==
    Step(t, "reload", IF status[t] = "cancelling" THEN "cancel"
                      ELSE IF status[t] = "running" THEN "cancelling" ELSE "report")

MarkCancelling(t) == TransitionTask(t, "cancelling", "cancelling", "progress", "cancel")
Cancel(t)   == TransitionTask(t, "cancel", "cancelled", "cancelled", "cleanup")
Complete(t) == TransitionTask(t, "complete", "completed", "completed", "cleanup")
Fail(t)     == TransitionTask(t, "fail", "failed", "failed", "cleanup")

\* Any other status is reported as cancelled and left as it is.
ReportCancelled(t) ==
    /\ pc[t] = "report"
    /\ Emit(t, "cancelled")
    /\ Goto(t, "cleanup")
    /\ UNCHANGED <<status, approval, rules, registries, signals, job, process, bounds,
                   executed>>

\* The registries forget the task and the session is unlocked.
Cleanup(t) ==
    /\ pc[t] = "cleanup"
    /\ tokens' = tokens \ {t}
    /\ signalled' = signalled \ {t}
    /\ Unlock(t)
    /\ Goto(t, "done")
    /\ UNCHANGED <<database, waiters, decision, shutdown, job, process, bounds, executed>>

AwaitApproval(t) ==
    \/ Ask(t) \/ RequestApproval(t) \/ Listen(t) \/ AnnounceRequest(t) \/ Select(t)
    \/ CheckApproved(t) \/ Resume(t) \/ CheckRefused(t) \/ Refuse(t) \/ Abandon(t)

RunTask(t) ==
    \/ Load(t) \/ Start(t) \/ Dispatch(t) \/ Execute(t) \/ Respond(t) \/ AwaitApproval(t)
    \/ Settle(t) \/ Reload(t) \/ MarkCancelling(t) \/ Cancel(t) \/ Complete(t) \/ Fail(t)
    \/ ReportCancelled(t) \/ Cleanup(t)

-----------------------------------------------------------------------------
(***************************************************************************)
(* task/cancel: cancel_task                                                *)
(***************************************************************************)

\* A terminal task is returned as it is, which changes nothing.
CancelLoad(c, t) ==
    /\ service = "up"
    /\ call[c] = NoCall
    /\ status[t] \in ActiveStatus
    /\ call' = [call EXCEPT ![c] =
                   [kind |-> "cancel", task |-> t, at |-> "check",
                    next |-> IF status[t] = "queued" THEN "cancelled" ELSE "cancelling"]]
    /\ UNCHANGED <<database, registries, signals, control, job, service, toFail,
                   bounds, executed>>

CallAt(c, kind, at) == call[c].kind = kind /\ call[c].at = at

CallGoto(c, at) ==
    call' = [call EXCEPT ![c] = [kind |-> call[c].kind, task |-> call[c].task,
                                 at |-> at, next |-> call[c].next]]
CallEnd(c) == call' = [call EXCEPT ![c] = NoCall]

\* transition_task again, in the client's call.
CancelCheck(c) ==
    /\ CallAt(c, "cancel", "check")
    /\ IF CanTransitionTo(status[call[c].task], call[c].next)
       THEN CallGoto(c, "save") ELSE CallEnd(c)
    /\ UNCHANGED <<database, registries, signals, control, job, service, toFail,
                   bounds, executed>>

CancelSave(c) ==
    /\ CallAt(c, "cancel", "save")
    /\ IF IndexAllows(call[c].task, call[c].next)
       THEN /\ status' = [status EXCEPT ![call[c].task] = call[c].next]
            /\ CallGoto(c, "signal")
       ELSE CallEnd(c) /\ UNCHANGED status
    /\ UNCHANGED <<approval, rules, log, registries, signals, control, job, service,
                   toFail, bounds, executed>>

\* Only after the row is written is the token cancelled, if it is registered.
CancelSignal(c) ==
    /\ CallAt(c, "cancel", "signal")
    /\ signalled' = signalled \cup ({call[c].task} \cap tokens)
    /\ CallGoto(c, "close")
    /\ UNCHANGED <<database, registries, shutdown, control, job, service, toFail,
                   bounds, executed>>

AfterClose(c) == IF call[c].next = "cancelled" THEN CallGoto(c, "cancelled") ELSE CallEnd(c)

\* Mutant of CancelClose: an UPDATE that does not say WHERE status='pending'.
CloseWithoutCompare(c) ==
    /\ CallAt(c, "cancel", "close")
    /\ IF approval[call[c].task] # "absent"
       THEN /\ approval' = [approval EXCEPT ![call[c].task] = "cancelled"]
            /\ CallGoto(c, "resolved")
       ELSE AfterClose(c) /\ UNCHANGED approval
    /\ UNCHANGED <<status, rules, log, registries, signals, control, job, service,
                   toFail, bounds, executed>>

\* A pending request is resolved by compare-and-set; losing the race is ignored.
CancelClose(c) ==
    /\ CallAt(c, "cancel", "close")
    /\ IF approval[call[c].task] = "pending"
       THEN /\ approval' = [approval EXCEPT ![call[c].task] = "cancelled"]
            /\ CallGoto(c, "resolved")
       ELSE AfterClose(c) /\ UNCHANGED approval
    /\ UNCHANGED <<status, rules, log, registries, signals, control, job, service,
                   toFail, bounds, executed>>

CancelResolved(c) ==
    /\ CallAt(c, "cancel", "resolved")
    /\ Emit(call[c].task, "resolved")
    /\ AfterClose(c)
    /\ UNCHANGED <<status, approval, rules, registries, signals, control, job, service,
                   toFail, bounds, executed>>

CancelAnnounce(c) ==
    /\ CallAt(c, "cancel", "cancelled")
    /\ Emit(call[c].task, "cancelled")
    /\ CallEnd(c)
    /\ UNCHANGED <<status, approval, rules, registries, signals, control, job, service,
                   toFail, bounds, executed>>

CancelTask(c) ==
    \/ CancelCheck(c) \/ CancelSave(c) \/ CancelSignal(c)
    \/ CancelClose(c) \/ CancelResolved(c) \/ CancelAnnounce(c)

-----------------------------------------------------------------------------
(***************************************************************************)
(* approval/respond                                                        *)
(***************************************************************************)

\* resolve_approval moves the row out of pending in one transaction; any later
\* response finds it resolved and is an error, which changes nothing.
ResolveApproval(c, t, choice) ==
    /\ service = "up"
    /\ call[c] = NoCall
    /\ approval[t] = "pending"
    /\ approval' = [approval EXCEPT ![t] = StatusOf(choice)]
    /\ rules' = IF choice = "approve_equivalent" THEN rules \cup {t} ELSE rules
    /\ call' = [call EXCEPT ![c] = [kind |-> "respond", task |-> t, at |-> "resolved",
                                   next |-> StatusOf(choice)]]
    /\ UNCHANGED <<status, log, registries, signals, control, job, service, toFail,
                   bounds, executed>>

RespondResolved(c) ==
    /\ CallAt(c, "respond", "resolved")
    /\ Emit(call[c].task, "resolved")
    /\ CallGoto(c, "notify")
    /\ UNCHANGED <<status, approval, rules, registries, signals, control, job, service,
                   toFail, bounds, executed>>

\* Mutant of RespondNotify: the waiter is woken with an approval, whatever it was.
NotifyApproved(c) ==
    /\ CallAt(c, "respond", "notify")
    /\ LET t == call[c].task IN
       /\ waiters' = waiters \ {t}
       /\ decision' = IF t \in waiters THEN [decision EXCEPT ![t] = "approved"] ELSE decision
    /\ CallEnd(c)
    /\ UNCHANGED <<database, sessionTasks, tokens, signals, control, job, service,
                   toFail, bounds, executed>>

\* The waiter is taken out of the registry and woken, if it is there.
RespondNotify(c) ==
    /\ CallAt(c, "respond", "notify")
    /\ LET t == call[c].task IN
       /\ waiters' = waiters \ {t}
       /\ decision' = IF t \in waiters THEN [decision EXCEPT ![t] = call[c].next] ELSE decision
    /\ CallEnd(c)
    /\ UNCHANGED <<database, sessionTasks, tokens, signals, control, job, service,
                   toFail, bounds, executed>>

RespondApproval(c) == RespondResolved(c) \/ RespondNotify(c)

-----------------------------------------------------------------------------
(***************************************************************************)
(* A store operation that fails                                            *)
(***************************************************************************)
StorePC == {"load", "start", "ask", "request", "announce", "approved", "resume", "refused",
            "refuse", "reload", "cancelling", "cancel", "report", "complete", "fail"}

SupervisorFault(t) ==
    /\ faults < MaxFaults
    /\ pc[t] \in StorePC
    /\ faults' = faults + 1
    /\ Goto(t, OnError(t))
    /\ waiters' = IF pc[t] = "announce" THEN waiters \ {t} ELSE waiters
    /\ UNCHANGED <<database, sessionTasks, tokens, decision, signals, job, process,
                   crashes, executed>>

\* A failed INSERT gives the lock back; a failed publication of the prompt
\* returns early, with the lock taken, the row queued and no supervisor.
StarterFault(t) ==
    /\ faults < MaxFaults
    /\ faults' = faults + 1
    /\ \/ pc[t] = "insert" /\ Unlock(t) /\ Goto(t, "rejected")
       \/ /\ pc[t] = "spawn" /\ SessionOf(t) # NoSession
          /\ Goto(t, "leaked") /\ UNCHANGED sessionTasks
    /\ UNCHANGED <<database, tokens, waiters, decision, signals, job, process, crashes,
                   executed>>

CallFault(c) ==
    /\ faults < MaxFaults
    /\ call[c].at \in {"check", "save", "close", "resolved", "cancelled"}
    /\ faults' = faults + 1
    /\ CallEnd(c)
    /\ UNCHANGED <<database, registries, signals, control, job, service, toFail,
                   crashes, executed>>

-----------------------------------------------------------------------------
(***************************************************************************)
(* The life of the process                                                 *)
(***************************************************************************)

\* Ctrl+C cancels the root token: every child token, present and future.
Shutdown ==
    /\ service = "up"
    /\ crashes < MaxCrashes
    /\ ~shutdown
    /\ shutdown' = TRUE
    /\ UNCHANGED <<database, registries, signalled, control, job, process, bounds,
                   executed>>

\* The process ends between any two steps and takes its memory with it.  (Before the
\* first call there is none to take.)
Crash ==
    /\ crashes < MaxCrashes
    /\ service # "down"
    /\ \E t \in Tasks : pc[t] # "new"
    /\ crashes' = crashes + 1
    /\ service' = "down"
    /\ sessionTasks' = [s \in Sessions |-> NoTask]
    /\ tokens' = {}
    /\ signalled' = {}
    /\ shutdown' = FALSE
    /\ waiters' = {}
    /\ decision' = [t \in Tasks |-> "absent"]
    /\ pc' = [t \in Tasks |-> IF pc[t] = "new" THEN "new" ELSE "dead"]
    /\ phase' = [t \in Tasks |-> "load"]
    /\ call' = [c \in Clients |-> NoCall]
    /\ toFail' = {}
    /\ UNCHANGED <<database, job, faults, executed>>

\* Mutant of Boot: tasks that wait for an approval are left as they are.
BootForgetsWaiting ==
    /\ service = "down"
    /\ service' = "booting"
    /\ toFail' = {t \in Tasks : status[t] \in {"queued", "running", "cancelling"}}
    /\ status' = [t \in Tasks |-> IF t \in toFail' THEN "interrupted" ELSE status[t]]
    /\ UNCHANGED <<approval, rules, log, registries, signals, control, job, call, bounds,
                   executed>>

\* Mutant of Boot: every request of an interrupted task expires.
BootExpiresAll ==
    /\ service = "down"
    /\ service' = "booting"
    /\ toFail' = {t \in Tasks : status[t] \in ActiveStatus}
    /\ status' = [t \in Tasks |-> IF t \in toFail' THEN "interrupted" ELSE status[t]]
    /\ approval' = [t \in Tasks |-> IF t \in toFail' /\ approval[t] # "absent"
                                    THEN "expired" ELSE approval[t]]
    /\ UNCHANGED <<rules, log, registries, signals, control, job, call, bounds, executed>>

\* Mutant of Boot: the UPDATE does not say which tasks are active.
BootInterruptsAll ==
    /\ service = "down"
    /\ service' = "booting"
    /\ toFail' = {t \in Tasks : status[t] # "absent"}
    /\ status' = [t \in Tasks |-> IF t \in toFail' THEN "interrupted" ELSE status[t]]
    /\ approval' = [t \in Tasks |-> IF t \in toFail' /\ approval[t] = "pending"
                                    THEN "expired" ELSE approval[t]]
    /\ UNCHANGED <<rules, log, registries, signals, control, job, call, bounds, executed>>

\* start runs interrupt_active_tasks: one transaction for all the active tasks
\* and for the pending requests of those tasks.
Boot ==
    /\ service = "down"
    /\ service' = "booting"
    /\ toFail' = {t \in Tasks : status[t] \in ActiveStatus}
    /\ status' = [t \in Tasks |-> IF t \in toFail' THEN "interrupted" ELSE status[t]]
    /\ approval' = [t \in Tasks |-> IF t \in toFail' /\ approval[t] = "pending"
                                    THEN "expired" ELSE approval[t]]
    /\ UNCHANGED <<rules, log, registries, signals, control, job, call, bounds, executed>>

\* Then it appends one TaskFailed at a time.
AppendInterrupted(t) ==
    /\ service = "booting"
    /\ t \in toFail
    /\ Emit(t, "failed")
    /\ toFail' = toFail \ {t}
    /\ UNCHANGED <<status, approval, rules, registries, signals, control, job, service,
                   call, bounds, executed>>

Ready ==
    /\ service = "booting"
    /\ toFail = {}
    /\ service' = "up"
    /\ UNCHANGED <<database, registries, signals, control, job, call, toFail, bounds,
                   executed>>

Restart == Boot \/ Ready \/ \E t \in Tasks : AppendInterrupted(t)

-----------------------------------------------------------------------------
Next ==
    \/ \E t \in Tasks : StartTask(t) \/ RunTask(t) \/ SupervisorFault(t) \/ StarterFault(t)
    \/ \E t \in Tasks, i \in Inputs : Submit(t, i)
    \/ \E c \in Clients : CancelTask(c) \/ RespondApproval(c) \/ CallFault(c)
    \/ \E c \in Clients, t \in Tasks : CancelLoad(c, t)
    \/ \E c \in Clients, t \in Tasks, choice \in Choices : ResolveApproval(c, t, choice)
    \/ Shutdown \/ Crash \/ Restart

Spec == Init /\ [][Next]_vars

Executing(t) == pc[t] = "executing"

\* What the runtime guarantees: a call that was made, a supervisor that was
\* spawned and a restart that was begun go on.  Nothing makes a client submit,
\* cancel or answer, nothing makes an approval arrive, and nothing makes a command
\* end: a process that keeps its output open outlives both its timeout and the
\* token (HeldOpen of Replay), and an agent turn may be steered for ever.
Fairness ==
    /\ \A t \in Tasks : WF_vars(StartTask(t)) /\ WF_vars(RunTask(t) /\ ~Executing(t))
    /\ \A c \in Clients : WF_vars(CancelTask(c)) /\ WF_vars(RespondApproval(c))
    /\ WF_vars(Restart)

FairSpec == Spec /\ Fairness

-----------------------------------------------------------------------------
(***************************************************************************)
(* Properties                                                              *)
(***************************************************************************)

\* Every variable has its type.
TypeOK ==
    /\ status \in [Tasks -> TaskStatus \cup {"absent"}]
    /\ approval \in [Tasks -> ApprovalStatus]
    /\ rules \subseteq Tasks
    /\ log \in [Tasks -> SUBSET EventKinds]
    /\ service \in {"up", "booting", "down"}
    /\ sessionTasks \in [Sessions -> Tasks \cup {NoTask}]
    /\ tokens \subseteq Tasks
    /\ signalled \subseteq Tasks
    /\ shutdown \in BOOLEAN
    /\ waiters \subseteq Tasks
    /\ decision \in [Tasks -> {"absent", "approved", "denied", "cancelled"}]
    /\ input \in [Tasks -> Inputs \cup {NoInput}]
    /\ gate \in [Tasks -> Gates]
    /\ pc \in [Tasks -> {"new"} \cup StarterPC \cup SupervisorPC \cup EndPC]
    /\ phase \in [Tasks -> {"load", "save", "publish"}]
    /\ call \in [Clients -> Calls]
    /\ toFail \subseteq Tasks
    /\ crashes \in 0..MaxCrashes
    /\ faults \in 0..MaxFaults
    /\ executed \subseteq Tasks

\* "At most one mutation task per session": two commands of one session never
\* run at the same time, whatever rows cancels and crashes leave behind.  The
\* lock is in memory, the rows are not, and Cleanup frees it unconditionally.
OneMutationPerSession ==
    \A t, u \in Tasks :
        t # u /\ Executing(t) /\ Executing(u) =>
            SessionOf(t) # SessionOf(u) \/ SessionOf(t) = NoSession

Permitted(t) ==
    \/ gate[t] = "allow"
    \/ gate[t] = "ruled" /\ HasRule(t)
    \/ gate[t] = "require" /\ approval[t] = "approved"

\* A command that needs an approval ran only because that very request was
\* approved, or an equivalent one of the same session was approved for the
\* session; no denial, cancel, expiry or late answer lets it through.
ExecutionPermitted == \A t \in executed : Permitted(t)

\* A task that has not asked for its approval yet.
BeforePC == {"new", "load", "start", "dispatch", "ask", "request"} \cup StarterPC

\* The path of a decision, from the row through the response of a client and the
\* oneshot to the supervisor: at no point does one of them differ from the row,
\* and no row exists before the supervisor asked.  Inductive for the former.
DecisionIsRow ==
    /\ \A t \in Tasks :
        /\ pc[t] \in BeforePC => approval[t] = "absent" /\ t \notin executed
        /\ decision[t] # "absent" => decision[t] = approval[t]
        /\ pc[t] \in ApprovalPC => gate[t] = "require"
        /\ pc[t] \in {"approved", "resume"} => approval[t] = "approved"
        /\ t \in executed \/ pc[t] = "execute" => Permitted(t)
        /\ t \in rules => pc[t] # "new"
        /\ gate[t] = "ruled" => HasRule(t) /\ pc[t] # "new"
    /\ \A c \in Clients :
        call[c].kind = "respond" => call[c].next = approval[call[c].task]

\* However often a client retries task/start, concurrently or across restarts,
\* the command of one operation id runs at most once.
OperationRunsOnce ==
    \A t, u \in executed : t # u => input[t].operation # input[u].operation

\* A task entitled to the session lock: from LockSession to the end of its supervisor.
HoldingPC == {"insert", "spawn"} \cup SupervisorPC
HoldsLock(t) == pc[t] \in HoldingPC

\* Its start returned an error after the lock was taken and the row queued.
Leaked(t) == pc[t] = "leaked"

\* Nobody's cleanup, rejection or error path frees the session of a task that is
\* entitled to the lock, and a locked session has such a task: but for the one error
\* path that gives nothing back.  When the publication of a prompt fails, start_task
\* returns, no supervisor exists, and the lock is kept as long as the process lives.
LockMatchesHolder ==
    \A t \in Tasks, s \in Sessions :
        /\ HoldsLock(t) /\ SessionOf(t) = s => sessionTasks[s] = t
        /\ sessionTasks[s] = t => SessionOf(t) = s /\ (HoldsLock(t) \/ Leaked(t))
        /\ Leaked(t) /\ SessionOf(t) = s => sessionTasks[s] = t /\ faults > 0

\* A cancel whose call went past the token is heard: from then on the supervisor
\* of the task, if it has started at all, runs with a cancelled token, or it has
\* yet to read (or has just read) that the row is terminal.
CancelHeard ==
    \A c \in Clients, t \in Tasks :
        /\ call[c].kind = "cancel" /\ call[c].task = t
        /\ call[c].at \in {"close", "resolved", "cancelled"}
        /\ Supervised(t)
        => Cancelled(t) \/ pc[t] \in {"load", "cleanup"}

Resolving(c, t) == call[c].task = t /\ call[c].at = "resolved"

\* A request is resolved by one client: whoever is about to publish an
\* ApprovalResolved is alone, the first to do so, and speaks for a decided row.
ResolvedOnce ==
    \A t \in Tasks :
        /\ "resolved" \in log[t] => approval[t] \in {"approved", "denied", "cancelled"}
        /\ \A c \in Clients : Resolving(c, t) =>
               /\ approval[t] \in {"approved", "denied", "cancelled"}
               /\ "resolved" \notin log[t]
               /\ \A d \in Clients \ {c} : ~Resolving(d, t)

\* A task stored or reported as completed has handed its command to the actor;
\* a restart never turns an unfinished task into a completed one.
CompletedMeansExecuted ==
    \A t \in Tasks :
        status[t] = "completed" \/ "completed" \in log[t] => t \in executed

\* Once the service is starting again, no task of the dead process is active.
RestartSettles ==
    \A t \in Tasks : pc[t] = "dead" /\ service # "down" => status[t] \notin ActiveStatus

\* A resolved approval never changes: not by a second client, not by the cancel
\* of its task, not by a restart.
DecisionFinal ==
    [][\A t \in Tasks : approval[t] \notin {"absent", "pending"} =>
                            approval'[t] = approval[t]]_vars

\* Who may write over a terminal row: a cancel that checked an earlier status, or the
\* task's own supervisor, likewise, over a cancel.
Crossed(t) ==
    \/ /\ status[t] # "interrupted"
       /\ \E c \in Clients : /\ CallAt(c, "cancel", "save") /\ call[c].task = t
                             /\ status'[t] = call[c].next
    \/ status[t] = "cancelled" /\ Supervised(t) /\ phase[t] = "save"

\* A terminal row is the last word on its task but where a cancel and the supervisor
\* cross between the check and the save of transition_task: neither a restart nor a
\* late supervisor changes a row that was completed, failed or interrupted.
TerminalRowStays ==
    [][\A t \in Tasks : status[t] \in TerminalStatus /\ status'[t] # status[t]
                             => Crossed(t)]_vars

\* A supervisor whose token is cancelled stops, and so frees its session,
\* wherever the cancel caught it: unless its command never ends.
SignalStopsSupervisor ==
    \A t \in Tasks :
        (Supervised(t) /\ Cancelled(t)) ~> (~Supervised(t) \/ []Executing(t))

\* A locked session is unlocked again, whatever step failed, unless its task waits for
\* an answer, its command never ends, or its start failed after the row was written,
\* which leaks the lock.
LockGivenBack ==
    \A s \in Sessions, t \in Tasks :
        sessionTasks[s] = t ~> (\/ sessionTasks[s] # t \/ pc[t] = "select"
                               \/ Leaked(t) \/ []Executing(t))

-----------------------------------------------------------------------------
(***************************************************************************)
(* Claims of the documentation that the code does not keep                 *)
(***************************************************************************)

\* A cancel that was accepted ends: Cancelling leads to a terminal status, if only the
\* command does end.
CancellingSettles ==
    \A t \in Tasks :
        status[t] = "cancelling" ~> (status[t] \in TerminalStatus \/ []Executing(t))

\* A denied request does not keep its supervisor waiting for an answer.
DenialEndsWait ==
    \A t \in Tasks : approval[t] = "denied" ~> pc[t] # "select"
=============================================================================
