------------------------ MODULE TaskSupervisorProofs ------------------------
(***************************************************************************)
(* Theorems about TaskSupervisor, for any number of tasks, sessions,       *)
(* clients, crashes and store failures: types and the session lock; the    *)
(* path of a decision from its row to the command; and how the rows relate *)
(* to what happened (decisions are final, an operation runs once, a        *)
(* completed task has run, a restart leaves no active row behind).         *)
(***************************************************************************)
EXTENDS TaskSupervisor, TLAPS

USE DEF database, registries, signals, job, control, process, bounds

\* The statuses as one set, for the steps that only need a type.
LEMMA StatusTypes ==
    /\ ActiveStatus \subseteq TaskStatus
    /\ TerminalStatus \subseteq TaskStatus
    /\ "absent" \in ApprovalStatus
    /\ \A choice \in Choices : StatusOf(choice) \in {"approved", "denied", "cancelled"}
    /\ {"approved", "denied", "cancelled"} \subseteq ApprovalStatus
BY DEF TaskStatus, ActiveStatus, TerminalStatus, ApprovalStatus, Choices, StatusOf

\* The labels as one set.
LEMMA LabelTypes ==
    /\ RunPC \subseteq SupervisorPC
    /\ ApprovalPC \subseteq SupervisorPC
    /\ \A t : OnError(t) \in SupervisorPC
BY DEF OnError, SupervisorPC, RunPC, ApprovalPC

\* The type of a transition of the supervisor.
LEMMA TransitionType ==
    ASSUME TypeOK, NEW t \in Tasks, NEW at, NEW next \in TaskStatus, NEW event,
           NEW then \in SupervisorPC, TransitionTask(t, at, next, event, then)
    PROVE  TypeOK'
<1>1. OnError(t) \in SupervisorPC
  BY LabelTypes
<1>2. pc' \in [Tasks -> {"new"} \cup StarterPC \cup SupervisorPC \cup EndPC]
  BY <1>1 DEF TypeOK, TransitionTask, Goto
<1>3. phase' \in [Tasks -> {"load", "save", "publish"}]
  BY DEF TypeOK, TransitionTask, Goto
<1>4. status' \in [Tasks -> TaskStatus \cup {"absent"}]
  BY DEF TypeOK, TransitionTask
<1>5. log' \in [Tasks -> SUBSET EventKinds]
  BY DEF TypeOK, TransitionTask, Emit
<1>6. QED
  BY <1>2, <1>3, <1>4, <1>5 DEF TypeOK, TransitionTask

\* The type of a step that only moves the supervisor.
LEMMA StepType ==
    ASSUME TypeOK, NEW t \in Tasks, NEW at, NEW to \in SupervisorPC, Step(t, at, to)
    PROVE  TypeOK'
BY DEF TypeOK, Step, Goto

\* What a call record holds, by kind, and what moving or ending it does.
LEMMA CallTypes ==
    ASSUME NEW c \in Clients, call \in [Clients -> Calls]
    PROVE  /\ call[c].kind = "cancel" =>
                  call[c].task \in Tasks /\ call[c].next \in {"cancelled", "cancelling"}
           /\ call[c].kind = "respond" =>
                  call[c].task \in Tasks /\ call[c].next \in {"approved", "denied", "cancelled"}
           /\ CallEnd(c) => call' \in [Clients -> Calls]
           /\ \A at \in {"check", "save", "signal", "close", "resolved", "cancelled"} :
                  call[c].kind = "cancel" /\ CallGoto(c, at) => call' \in [Clients -> Calls]
           /\ call[c].kind = "respond" /\ CallGoto(c, "notify") => call' \in [Clients -> Calls]
<1>1. call[c] = NoCall \/ call[c] \in CancelCalls \/ call[c] \in RespondCalls
  BY DEF Calls
<1>2. QED
  BY <1>1 DEF CallEnd, CallGoto, Calls, CancelCalls, RespondCalls, NoCall

\* Every variable keeps its type, whatever the environment does.
THEOREM TypeCorrect == Spec => []TypeOK
<1>1. Init => TypeOK
  <2> SUFFICES ASSUME Init PROVE TypeOK
    OBVIOUS
  <2>1. shutdown \in BOOLEAN
    BY Zenon DEF Init
  <2>2. crashes \in 0..MaxCrashes /\ faults \in 0..MaxFaults
    BY ConstantsAssumption DEF Init
  <2>3. call \in [Clients -> Calls]
    BY DEF Init, Calls
  <2>4. QED
    BY <2>1, <2>2, <2>3 DEF Init, TypeOK, Gates, ApprovalStatus
<1>2. ASSUME TypeOK, [Next]_vars PROVE TypeOK'
  <2>1. ASSUME NEW t \in Tasks, StartTask(t) PROVE TypeOK'
    <3>1. CASE CheckPolicy(t)
      BY <3>1, <1>2 DEF TypeOK, CheckPolicy, Policies, Goto, StarterPC, EndPC, Gates
    <3>2. CASE LockSession(t)
      BY <3>2, <1>2 DEF TypeOK, LockSession, Goto, StarterPC, EndPC
    <3>3. CASE InsertTask(t)
      BY <3>3, <1>2 DEF TypeOK, InsertTask, Goto, StarterPC, EndPC, Unlock, TaskStatus, ActiveStatus
    <3>4. CASE SpawnSupervisor(t)
      BY <3>4, <1>2 DEF TypeOK, SpawnSupervisor, Goto, SupervisorPC, RunPC
    <3>5. QED
      BY <2>1, <3>1, <3>2, <3>3, <3>4 DEF StartTask
  <2>2. ASSUME NEW t \in Tasks, AwaitApproval(t) PROVE TypeOK'
    <3>1. CASE Ask(t) \/ Resume(t) \/ Refuse(t)
      BY <3>1, <1>2, TransitionType DEF Ask, Resume, Refuse, TaskStatus, ActiveStatus,
         SupervisorPC, RunPC, ApprovalPC
    <3>2. CASE CheckApproved(t) \/ CheckRefused(t)
      BY <3>2, <1>2, StepType DEF CheckApproved, CheckRefused, SupervisorPC, RunPC, ApprovalPC
    <3>3. CASE RequestApproval(t)
      BY <3>3, <1>2 DEF TypeOK, RequestApproval, Goto, SupervisorPC, ApprovalPC, ApprovalStatus
    <3>4. CASE Listen(t)
      BY <3>4, <1>2 DEF TypeOK, Listen, Goto, SupervisorPC, ApprovalPC
    <3>5. CASE AnnounceRequest(t)
      BY <3>5, <1>2 DEF TypeOK, AnnounceRequest, Goto, SupervisorPC, ApprovalPC, Emit
    <3>6. CASE Select(t)
      BY <3>6, <1>2, StatusTypes DEF TypeOK, Select, Goto, SupervisorPC, RunPC, ApprovalPC
    <3>7. CASE Abandon(t)
      BY <3>7, <1>2 DEF TypeOK, Abandon, Goto, SupervisorPC, RunPC
    <3>8. QED
      BY <2>2, <3>1, <3>2, <3>3, <3>4, <3>5, <3>6, <3>7 DEF AwaitApproval
  <2>3. ASSUME NEW t \in Tasks, RunTask(t) PROVE TypeOK'
    <3>1. CASE Load(t) \/ Dispatch(t) \/ Respond(t) \/ Settle(t) \/ Reload(t)
      BY <3>1, <1>2, StepType DEF Load, Dispatch, Respond, Settle, Reload, Outcome,
         SupervisorPC, RunPC, ApprovalPC
    <3>2. CASE Start(t) \/ MarkCancelling(t) \/ Cancel(t) \/ Complete(t) \/ Fail(t)
      BY <3>2, <1>2, TransitionType DEF Start, MarkCancelling, Cancel, Complete, Fail,
         TaskStatus, ActiveStatus, TerminalStatus, SupervisorPC, RunPC
    <3>3. CASE Execute(t)
      BY <3>3, <1>2 DEF TypeOK, Execute, Goto, SupervisorPC, RunPC
    <3>4. CASE ReportCancelled(t)
      BY <3>4, <1>2 DEF TypeOK, ReportCancelled, Goto, SupervisorPC, RunPC, Emit
    <3>5. CASE Cleanup(t)
      BY <3>5, <1>2 DEF TypeOK, Cleanup, Goto, EndPC, Unlock
    <3>6. QED
      BY <2>2, <2>3, <3>1, <3>2, <3>3, <3>4, <3>5 DEF RunTask
  <2>4. ASSUME NEW t \in Tasks, SupervisorFault(t) \/ StarterFault(t) PROVE TypeOK'
    <3>1. CASE SupervisorFault(t)
      BY <3>1, <1>2, LabelTypes, ConstantsAssumption DEF TypeOK, SupervisorFault, Goto
    <3>2. CASE StarterFault(t)
      BY <3>2, <1>2, ConstantsAssumption DEF TypeOK, StarterFault, Goto, Unlock, EndPC
    <3>3. QED
      BY <2>4, <3>1, <3>2
  <2>5. ASSUME NEW t \in Tasks, NEW i \in Inputs, Submit(t, i) PROVE TypeOK'
    BY <2>5, <1>2 DEF TypeOK, Submit, Goto, StarterPC, EndPC
  <2>6. ASSUME NEW c \in Clients, CancelTask(c) \/ RespondApproval(c) \/ CallFault(c)
        PROVE TypeOK'
    <3> DEFINE CallType == call' \in [Clients -> Calls]
    <3> USE <1>2 DEF TypeOK
    <3>1. CASE CancelCheck(c)
      <4>1. CallType  BY <3>1, CallTypes DEF CancelCheck, CallAt
      <4>2. QED  BY <3>1, <4>1 DEF CancelCheck
    <3>2. CASE CancelSave(c)
      <4>1. CallType  BY <3>2, CallTypes DEF CancelSave, CallAt
      <4>2. status' \in [Tasks -> TaskStatus \cup {"absent"}]
        BY <3>2, CallTypes DEF CancelSave, CallAt, TaskStatus, ActiveStatus, TerminalStatus
      <4>3. QED  BY <3>2, <4>1, <4>2 DEF CancelSave
    <3>3. CASE CancelSignal(c)
      <4>1. CallType  BY <3>3, CallTypes DEF CancelSignal, CallAt
      <4>2. QED  BY <3>3, <4>1 DEF CancelSignal
    <3>4. CASE CancelClose(c)
      <4>1. CallType  BY <3>4, CallTypes DEF CancelClose, CallAt, AfterClose
      <4>2. approval' \in [Tasks -> ApprovalStatus]
        BY <3>4 DEF CancelClose, ApprovalStatus
      <4>3. QED  BY <3>4, <4>1, <4>2 DEF CancelClose
    <3>5. CASE CancelResolved(c)
      <4>1. CallType  BY <3>5, CallTypes DEF CancelResolved, CallAt, AfterClose
      <4>2. QED  BY <3>5, <4>1 DEF CancelResolved, Emit
    <3>6. CASE CancelAnnounce(c)
      <4>1. CallType  BY <3>6, CallTypes DEF CancelAnnounce, CallAt
      <4>2. QED  BY <3>6, <4>1 DEF CancelAnnounce, Emit
    <3>7. CASE RespondResolved(c)
      <4>1. CallType  BY <3>7, CallTypes DEF RespondResolved, CallAt
      <4>2. QED  BY <3>7, <4>1 DEF RespondResolved, Emit
    <3>8. CASE RespondNotify(c)
      <4>1. CallType  BY <3>8, CallTypes DEF RespondNotify, CallAt
      <4>2. decision' \in [Tasks -> {"absent", "approved", "denied", "cancelled"}]
        BY <3>8, CallTypes DEF RespondNotify, CallAt
      <4>3. QED  BY <3>8, <4>1, <4>2 DEF RespondNotify
    <3>9. CASE CallFault(c)
      <4>1. CallType  BY <3>9, CallTypes DEF CallFault
      <4>2. QED  BY <3>9, <4>1, ConstantsAssumption DEF CallFault
    <3>10. QED
      BY <2>6, <3>1, <3>2, <3>3, <3>4, <3>5, <3>6, <3>7, <3>8, <3>9 DEF CancelTask, RespondApproval
  <2>7. ASSUME NEW c \in Clients, NEW t \in Tasks, CancelLoad(c, t) PROVE TypeOK'
    <3>1. call' \in [Clients -> Calls]
      BY <2>7, <1>2 DEF TypeOK, CancelLoad, Calls, CancelCalls
    <3>2. QED
      BY <2>7, <1>2, <3>1 DEF TypeOK, CancelLoad
  <2>8. ASSUME NEW c \in Clients, NEW t \in Tasks, NEW choice \in Choices,
               ResolveApproval(c, t, choice)
        PROVE  TypeOK'
    <3>1. call' \in [Clients -> Calls]
      BY <2>8, <1>2, StatusTypes DEF TypeOK, ResolveApproval, Calls, RespondCalls
    <3>2. QED
      BY <2>8, <1>2, <3>1, StatusTypes DEF TypeOK, ResolveApproval
  <2>9. CASE Shutdown
    BY <2>9, <1>2 DEF TypeOK, Shutdown
  <2>10. CASE Crash
    <3>1. shutdown' \in BOOLEAN
      BY <2>10, Zenon DEF Crash
    <3>2. crashes' \in 0..MaxCrashes
      BY <2>10, <1>2, ConstantsAssumption DEF Crash, TypeOK
    <3>3. call' \in [Clients -> Calls]
      BY <2>10 DEF Crash, Calls
    <3>4. QED
      BY <2>10, <1>2, <3>1, <3>2, <3>3 DEF TypeOK, Crash, ApprovalStatus, EndPC
  <2>11. CASE Restart
    <3>1. CASE Boot
      BY <3>1, <1>2 DEF TypeOK, Boot, TaskStatus, TerminalStatus, ApprovalStatus
    <3>2. CASE Ready
      BY <3>2, <1>2 DEF TypeOK, Ready
    <3>3. ASSUME NEW t \in Tasks, AppendInterrupted(t) PROVE TypeOK'
      BY <3>3, <1>2 DEF TypeOK, AppendInterrupted, Emit
    <3>4. QED
      BY <2>11, <3>1, <3>2, <3>3 DEF Restart
  <2>12. CASE UNCHANGED vars
    BY <2>12, <1>2 DEF TypeOK, vars
  <2>13. QED
    BY <1>2, <2>1, <2>3, <2>4, <2>5, <2>6, <2>7, <2>8, <2>9, <2>10, <2>11, <2>12 DEF Next
<1>3. QED
  BY <1>1, <1>2, PTL DEF Spec

-----------------------------------------------------------------------------
(***************************************************************************)
(* The session lock                                                        *)
(***************************************************************************)

\* Whose name is in the table: who is entitled to the lock, or leaked it.
KeepingPC == HoldingPC \cup {"leaked"}
Keeps(t) == pc[t] \in KeepingPC

LockTable ==
    \A t \in Tasks, s \in Sessions :
        sessionTasks[s] = t <=> Keeps(t) /\ SessionOf(t) = s

\* A leak is the work of a store operation that failed.
LeakIsFault == \A t \in Tasks : Leaked(t) => faults > 0

\* A step that leaves the lock table, the inputs and the holders as they are.
LEMMA LockFrame ==
    ASSUME LockTable, UNCHANGED <<sessionTasks, input>>,
           \A t \in Tasks : Keeps(t)' <=> Keeps(t)
    PROVE  LockTable'
BY DEF LockTable, SessionOf

\* A step of a task that stays inside (or outside) the holding part of its code.
LEMMA LockGoto ==
    ASSUME TypeOK, LockTable, UNCHANGED <<sessionTasks, input>>,
           NEW t \in Tasks, NEW to, pc' = [pc EXCEPT ![t] = to],
           Keeps(t) <=> to \in KeepingPC
    PROVE  LockTable'
BY LockFrame DEF TypeOK, Keeps

\* A transition of the supervisor keeps the lock.
LEMMA LockTransition ==
    ASSUME TypeOK, LockTable, NEW t \in Tasks, NEW at \in SupervisorPC, NEW next,
           NEW event, NEW then \in SupervisorPC, TransitionTask(t, at, next, event, then)
    PROVE  LockTable'
<1>1. UNCHANGED <<sessionTasks, input>>
  BY DEF TransitionTask
<1>2. pc' = pc \/ \E to \in SupervisorPC : pc' = [pc EXCEPT ![t] = to]
  BY LabelTypes DEF TransitionTask, Goto
<1>3. Keeps(t)
  BY DEF TransitionTask, Keeps, KeepingPC, HoldingPC
<1>4. QED
  BY <1>1, <1>2, <1>3, LockFrame, LockGoto DEF Keeps, KeepingPC, HoldingPC

\* A control step of the supervisor keeps the lock.
LEMMA LockStep ==
    ASSUME TypeOK, LockTable, NEW t \in Tasks, NEW at \in SupervisorPC,
           NEW to \in SupervisorPC, Step(t, at, to)
    PROVE  LockTable'
BY LockGoto DEF Step, Goto, Keeps, KeepingPC, HoldingPC

\* A step that unlocks the session of a holder and lets it leave.
LEMMA LockReleased ==
    ASSUME TypeOK, LockTable, NEW t \in Tasks, Keeps(t), Unlock(t), input' = input,
           NEW to, to \notin KeepingPC, pc' = [pc EXCEPT ![t] = to]
    PROVE  LockTable'
<1>1. ASSUME NEW u \in Tasks, NEW s \in Sessions
      PROVE  sessionTasks'[s] = u <=> (Keeps(u) /\ u # t) /\ SessionOf(u) = s
  <2>1. CASE SessionOf(t) = NoSession
    BY <2>1, ConstantsAssumption DEF Unlock, LockTable
  <2>2. CASE SessionOf(t) # NoSession
    BY <2>2, ConstantsAssumption DEF Unlock, LockTable, TypeOK
  <2>3. QED
    BY <2>1, <2>2
<1>2. QED
  BY <1>1 DEF TypeOK, LockTable, Keeps, SessionOf

\* The table as it is kept: inductive, from the types.
LEMMA TableCorrect == Spec => []LockTable
<1>1. Init => LockTable
  BY ConstantsAssumption DEF Init, LockTable, Keeps, KeepingPC, HoldingPC, SupervisorPC,
     RunPC, ApprovalPC
<1>2. ASSUME TypeOK, LockTable, [Next]_vars PROVE LockTable'
  <2> USE <1>2
  <2> USE DEF KeepingPC, HoldingPC, SupervisorPC, RunPC, ApprovalPC
  <2>1. ASSUME NEW t \in Tasks, StartTask(t) PROVE LockTable'
    <3>1. CASE CheckPolicy(t)
      BY <3>1, LockGoto DEF CheckPolicy, Goto, Keeps
    <3>2. CASE LockSession(t)
      <4>1. CASE SessionOf(t) = NoSession
        <5>1. ~Keeps(t)
          BY <3>2 DEF LockSession, Keeps
        <5>2. pc' = [pc EXCEPT ![t] = "insert"] /\ UNCHANGED <<sessionTasks, input>>
          BY <3>2, <4>1 DEF LockSession, Goto
        <5>3. QED
          BY <4>1, <5>1, <5>2, ConstantsAssumption DEF LockTable, Keeps, SessionOf, TypeOK
      <4>2. CASE SessionOf(t) # NoSession /\ sessionTasks[SessionOf(t)] # NoTask
        BY <3>2, <4>2, LockGoto DEF LockSession, Goto, Keeps
      <4>3. CASE SessionOf(t) # NoSession /\ sessionTasks[SessionOf(t)] = NoTask
        <5>1. /\ pc' = [pc EXCEPT ![t] = "insert"] /\ input' = input
              /\ sessionTasks' = [sessionTasks EXCEPT ![SessionOf(t)] = t]
              /\ ~Keeps(t)
          BY <3>2, <4>3 DEF LockSession, Goto, Keeps
        <5>2. \A u \in Tasks : Keeps(u) => SessionOf(u) # SessionOf(t) \/ SessionOf(t) \notin Sessions
          BY <4>3, ConstantsAssumption DEF LockTable
        <5>3. QED
          BY <5>1, <5>2 DEF LockTable, Keeps, SessionOf, TypeOK
      <4>4. QED
        BY <4>1, <4>2, <4>3
    <3>3. CASE InsertTask(t)
      <4>1. Keeps(t) /\ input' = input
        BY <3>3 DEF InsertTask, Keeps
      <4>2. CASE OperationIsNew(t) /\ IndexAllows(t, "queued")
        BY <3>3, <4>1, <4>2, LockGoto DEF InsertTask, Goto
      <4>3. CASE ~(OperationIsNew(t) /\ IndexAllows(t, "queued"))
        BY <3>3, <4>1, <4>3, LockReleased DEF InsertTask, Goto
      <4>4. QED
        BY <4>2, <4>3
    <3>4. CASE SpawnSupervisor(t)
      BY <3>4, LockGoto DEF SpawnSupervisor, Goto, Keeps
    <3>5. QED
      BY <2>1, <3>1, <3>2, <3>3, <3>4 DEF StartTask
  <2>2. ASSUME NEW t \in Tasks, AwaitApproval(t) PROVE LockTable'
    <3>1. CASE Ask(t) \/ Resume(t) \/ Refuse(t)
      BY <3>1, LockTransition DEF Ask, Resume, Refuse
    <3>2. CASE CheckApproved(t) \/ CheckRefused(t)
      BY <3>2, LockStep DEF CheckApproved, CheckRefused
    <3>3. CASE RequestApproval(t) \/ Listen(t) \/ AnnounceRequest(t) \/ Abandon(t)
      BY <3>3, LockGoto DEF RequestApproval, Listen, AnnounceRequest, Abandon, Goto, Keeps
    <3>4. CASE Select(t)
      BY <3>4, LockGoto DEF Select, Goto, Keeps
    <3>5. QED
      BY <2>2, <3>1, <3>2, <3>3, <3>4 DEF AwaitApproval
  <2>3. ASSUME NEW t \in Tasks, RunTask(t) PROVE LockTable'
    <3>1. CASE Load(t) \/ Dispatch(t) \/ Respond(t) \/ Settle(t) \/ Reload(t)
      BY <3>1, LockStep DEF Load, Dispatch, Respond, Settle, Reload, Outcome
    <3>2. CASE Start(t) \/ MarkCancelling(t) \/ Cancel(t) \/ Complete(t) \/ Fail(t)
      BY <3>2, LockTransition DEF Start, MarkCancelling, Cancel, Complete, Fail
    <3>3. CASE Execute(t) \/ ReportCancelled(t)
      BY <3>3, LockGoto DEF Execute, ReportCancelled, Goto, Keeps
    <3>4. CASE Cleanup(t)
      BY <3>4, LockReleased DEF Cleanup, Goto, Keeps
    <3>5. QED
      BY <2>2, <2>3, <3>1, <3>2, <3>3, <3>4 DEF RunTask
  <2>4. ASSUME NEW t \in Tasks, SupervisorFault(t) \/ StarterFault(t) PROVE LockTable'
    <3>1. CASE SupervisorFault(t)
      <4>1. Keeps(t)
        BY <3>1 DEF SupervisorFault, StorePC, Keeps
      <4>2. QED
        BY <3>1, <4>1, LockGoto, LabelTypes DEF SupervisorFault, Goto
    <3>2. CASE StarterFault(t)
      <4>1. Keeps(t) /\ input' = input
        BY <3>2 DEF StarterFault, Keeps
      <4>2. CASE pc[t] = "insert"
        BY <3>2, <4>1, <4>2, LockReleased DEF StarterFault, Goto
      <4>3. CASE pc[t] = "spawn"
        BY <3>2, <4>1, <4>3, LockGoto DEF StarterFault, Goto
      <4>4. QED
        BY <3>2, <4>2, <4>3 DEF StarterFault
    <3>3. QED
      BY <2>4, <3>1, <3>2
  <2>5. ASSUME NEW t \in Tasks, NEW i \in Inputs, Submit(t, i) PROVE LockTable'
    <3>1. ~Keeps(t) /\ ~Keeps(t)' /\ sessionTasks' = sessionTasks
      BY <2>5 DEF Submit, Goto, Keeps, TypeOK
    <3>2. \A u \in Tasks \ {t} : (Keeps(u)' <=> Keeps(u)) /\ input'[u] = input[u]
      BY <2>5 DEF Submit, Goto, Keeps, TypeOK
    <3>3. QED
      BY <3>1, <3>2 DEF LockTable, SessionOf
  <2>6. ASSUME NEW c \in Clients, CancelTask(c) \/ RespondApproval(c) \/ CallFault(c)
        PROVE LockTable'
    <3>1. UNCHANGED <<sessionTasks, input, pc>>
      BY <2>6 DEF CancelTask, RespondApproval, CallFault, CancelCheck, CancelSave, CancelSignal,
         CancelClose, CancelResolved, CancelAnnounce, RespondResolved, RespondNotify
    <3>2. QED
      BY <3>1, LockFrame DEF Keeps
  <2>7. ASSUME NEW c \in Clients, NEW t \in Tasks,
               CancelLoad(c, t) \/ \E choice \in Choices : ResolveApproval(c, t, choice)
        PROVE LockTable'
    BY <2>7, LockFrame DEF CancelLoad, ResolveApproval, Keeps
  <2>8. CASE Crash
    BY <2>8, ConstantsAssumption DEF Crash, LockTable, Keeps, TypeOK
  <2>9. CASE Shutdown \/ Restart \/ UNCHANGED vars
    BY <2>9, LockFrame DEF Shutdown, Restart, Boot, Ready, AppendInterrupted, vars, Keeps
  <2>10. QED
    BY <2>1, <2>3, <2>4, <2>5, <2>6, <2>7, <2>8, <2>9 DEF Next
<1>3. QED
  BY <1>1, <1>2, TypeCorrect, PTL DEF Spec

\* Only the failed publication of a prompt leaks.
LEMMA LeakCorrect == Spec => []LeakIsFault
<1>1. Init => LeakIsFault
  BY DEF Init, LeakIsFault, Leaked
<1>2. ASSUME TypeOK, LeakIsFault, [Next]_vars PROVE LeakIsFault'
  <2> USE <1>2
  <2>1. CASE \E t \in Tasks : SupervisorFault(t) \/ StarterFault(t)
    <3>1. faults' > 0
      BY <2>1 DEF SupervisorFault, StarterFault, TypeOK
    <3>2. QED
      BY <3>1 DEF LeakIsFault
  <2>2. CASE \E c \in Clients : CallFault(c)
    <3>1. faults' > 0
      BY <2>2 DEF CallFault, TypeOK
    <3>2. QED
      BY <3>1 DEF LeakIsFault
  <2>3. CASE Crash
    BY <2>3 DEF Crash, LeakIsFault, Leaked, TypeOK
  <2>4. ASSUME NEW t \in Tasks, NEW to, to # "leaked", UNCHANGED faults,
               pc' = pc \/ pc' = [pc EXCEPT ![t] = to]
        PROVE  LeakIsFault'
    BY <2>4 DEF LeakIsFault, Leaked, TypeOK
  <2>5. ASSUME UNCHANGED <<pc, faults>> PROVE LeakIsFault'
    BY <2>5 DEF LeakIsFault, Leaked
  <2>6. ASSUME NEW t \in Tasks, StartTask(t) PROVE LeakIsFault'
    BY <2>4, <2>6 DEF StartTask, CheckPolicy, LockSession, InsertTask, SpawnSupervisor, Goto
  <2>7. ASSUME NEW t \in Tasks, RunTask(t) PROVE LeakIsFault'
    <3>1. UNCHANGED faults
      BY <2>7 DEF RunTask, Load, Start, Dispatch, Execute, Respond, AwaitApproval, Settle, Reload,
         MarkCancelling, Cancel, Complete, Fail, ReportCancelled, Cleanup, Ask, RequestApproval,
         Listen, AnnounceRequest, Select, CheckApproved, Resume, CheckRefused, Refuse, Abandon,
         Step, TransitionTask
    <3>2. \A v \in ApprovalPC \cup RunPC \cup {"done"} : v # "leaked"
      BY DEF ApprovalPC, RunPC
    <3>3. pc' = pc \/ \E v \in ApprovalPC \cup RunPC \cup {"done"} : pc' = [pc EXCEPT ![t] = v]
      BY <2>7 DEF RunTask, Load, Start, Dispatch, Execute, Respond, AwaitApproval, Settle, Reload,
         MarkCancelling, Cancel, Complete, Fail, ReportCancelled, Cleanup, Ask, RequestApproval,
         Listen, AnnounceRequest, Select, CheckApproved, Resume, CheckRefused, Refuse, Abandon,
         Step, TransitionTask, Goto, OnError, Outcome, ApprovalPC, RunPC
    <3>4. QED
      BY <2>4, <3>1, <3>2, <3>3
  <2>8. ASSUME NEW t \in Tasks, NEW i \in Inputs, Submit(t, i) PROVE LeakIsFault'
    BY <2>4, <2>8 DEF Submit, Goto
  <2>9. ASSUME NEW c \in Clients, CancelTask(c) \/ RespondApproval(c) PROVE LeakIsFault'
    BY <2>5, <2>9 DEF CancelTask, RespondApproval, CancelCheck, CancelSave, CancelSignal,
       CancelClose, CancelResolved, CancelAnnounce, RespondResolved, RespondNotify
  <2>10. ASSUME NEW c \in Clients, NEW t \in Tasks,
                CancelLoad(c, t) \/ \E choice \in Choices : ResolveApproval(c, t, choice)
         PROVE  LeakIsFault'
    BY <2>5, <2>10 DEF CancelLoad, ResolveApproval
  <2>11. CASE Shutdown \/ Restart \/ UNCHANGED vars
    BY <2>5, <2>11 DEF Shutdown, Restart, Boot, Ready, AppendInterrupted, vars
  <2>12. QED
    BY <2>1, <2>2, <2>3, <2>6, <2>7, <2>8, <2>9, <2>10, <2>11 DEF Next
<1>3. QED
  BY <1>1, <1>2, TypeCorrect, PTL DEF Spec

\* Who is entitled to the session lock has it, through every error path, cancel, crash
\* and restart; and a locked session has such a task, but for the one whose start failed
\* after the row was written, which keeps the lock for nobody.
THEOREM LockCorrect == Spec => []LockMatchesHolder
<1>1. LockTable /\ LeakIsFault => LockMatchesHolder
  <2>1. \A t : Keeps(t) <=> HoldsLock(t) \/ Leaked(t)
    BY DEF Keeps, KeepingPC, HoldsLock, Leaked
  <2>2. QED
    BY <2>1 DEF LockTable, LeakIsFault, LockMatchesHolder
<1>2. QED
  BY <1>1, TableCorrect, LeakCorrect, PTL

\* Two tasks of one session never execute their commands at the same time, for
\* any number of sessions, calls, cancels, store failures and restarts.
THEOREM MutualExclusion == Spec => []OneMutationPerSession
<1>1. ASSUME TypeOK, LockMatchesHolder PROVE OneMutationPerSession
  <2> SUFFICES ASSUME NEW t \in Tasks, NEW u \in Tasks, t # u, Executing(t), Executing(u),
                      SessionOf(t) = SessionOf(u), SessionOf(t) \in Sessions
               PROVE  FALSE
    <3>1. \A t \in Tasks : SessionOf(t) \in Sessions \cup {NoSession}
      BY <1>1, ConstantsAssumption DEF TypeOK, SessionOf, NoInput
    <3>2. QED
      BY <3>1 DEF OneMutationPerSession
  <2>1. HoldsLock(t) /\ HoldsLock(u)
    BY DEF Executing, HoldsLock, HoldingPC, SupervisorPC, RunPC
  <2>2. QED
    BY <1>1, <2>1 DEF LockMatchesHolder
<1>2. QED
  BY <1>1, TypeCorrect, LockCorrect, PTL

-----------------------------------------------------------------------------
(***************************************************************************)
(* The approval protocol                                                   *)
(***************************************************************************)

\* A step of a call or a supervisor that moves one task and decides nothing.
LEMMA PermitGoto ==
    ASSUME TypeOK, DecisionIsRow, NEW t \in Tasks, NEW to, pc' = [pc EXCEPT ![t] = to],
           UNCHANGED <<approval, decision, gate, executed, rules, input, call>>,
           to \in BeforePC => pc[t] \in BeforePC,
           to \in ApprovalPC => gate[t] = "require",
           to \in {"approved", "resume"} => approval[t] = "approved",
           to = "execute" => Permitted(t),
           to # "new"
    PROVE  DecisionIsRow'
<1>1. \A u \in Tasks : HasRule(u)' <=> HasRule(u)
  BY DEF HasRule
<1>2. \A u \in Tasks : Permitted(u)' <=> Permitted(u)
  BY <1>1 DEF Permitted
<1>3. \A u \in Tasks : pc'[u] = IF u = t THEN to ELSE pc[u]
  BY DEF TypeOK
<1>4. QED
  BY <1>1, <1>2, <1>3 DEF DecisionIsRow

\* A step that leaves everything the invariant speaks of as it is.
LEMMA PermitFrame ==
    ASSUME TypeOK, DecisionIsRow,
           UNCHANGED <<approval, decision, gate, executed, rules, input, call, pc>>
    PROVE  DecisionIsRow'
BY DEF DecisionIsRow, Permitted, HasRule

\* A transition of the supervisor decides nothing.
LEMMA PermitTransition ==
    ASSUME TypeOK, DecisionIsRow, NEW t \in Tasks, NEW at, NEW next, NEW event,
           NEW then, TransitionTask(t, at, next, event, then),
           then \in BeforePC => at \in BeforePC,
           then \in ApprovalPC => gate[t] = "require",
           then \in {"approved", "resume"} => approval[t] = "approved",
           then = "execute" => Permitted(t),
           then # "new"
    PROVE  DecisionIsRow'
<1>1. UNCHANGED <<approval, decision, gate, executed, rules, input, call>> /\ pc[t] = at
  BY DEF TransitionTask
<1>2. pc' = pc \/ pc' = [pc EXCEPT ![t] = then] \/ pc' = [pc EXCEPT ![t] = OnError(t)]
  BY DEF TransitionTask, Goto
<1>3. CASE pc' = pc
  BY <1>1, <1>3, PermitFrame
<1>4. CASE pc' = [pc EXCEPT ![t] = then]
  BY <1>1, <1>4, PermitGoto
<1>5. CASE pc' = [pc EXCEPT ![t] = OnError(t)]
  BY <1>1, <1>5, PermitGoto DEF OnError, BeforePC, ApprovalPC, StarterPC
<1>6. QED
  BY <1>2, <1>3, <1>4, <1>5

\* A pending row may be moved to any status: no decision, no response, no
\* supervisor past its wait and no executed command relies on it.
LEMMA PermitResolve ==
    ASSUME TypeOK, DecisionIsRow, NEW t \in Tasks, approval[t] = "pending"
    PROVE  /\ decision[t] = "absent"
           /\ (t \notin executed /\ pc[t] # "execute") \/ gate[t] # "require"
           /\ pc[t] \notin {"approved", "resume"} \cup BeforePC
           /\ \A c \in Clients : call[c].kind = "respond" => call[c].task # t
<1>1. \A c \in Clients : call[c].kind = "respond" =>
          call[c].next \in {"approved", "denied", "cancelled"}
  BY CallTypes DEF TypeOK
<1>2. QED
  BY <1>1 DEF DecisionIsRow, TypeOK, Permitted

\* A step of a client that leaves the rows and the decisions as they are.
LEMMA PermitCall ==
    ASSUME TypeOK, DecisionIsRow, NEW c \in Clients,
           UNCHANGED <<approval, decision, gate, executed, rules, input, pc>>,
           \/ CallEnd(c)
           \/ \E at : CallGoto(c, at)
    PROVE  DecisionIsRow'
<1>1. \A u \in Tasks : (HasRule(u)' <=> HasRule(u)) /\ (Permitted(u)' <=> Permitted(u))
  BY DEF HasRule, Permitted
<1>2. \A d \in Clients : call'[d].kind = "respond" =>
          call[d].kind = "respond" /\ call'[d].next = call[d].next /\ call'[d].task = call[d].task
  <2>1. CASE CallEnd(c)
    BY <2>1 DEF CallEnd, NoCall, TypeOK
  <2>2. CASE \E at : CallGoto(c, at)
    BY <2>2 DEF CallGoto, TypeOK
  <2>3. QED
    BY <2>1, <2>2
<1>3. QED
  BY <1>1, <1>2 DEF DecisionIsRow

\* From the row to the oneshot to the supervisor a decision is never altered,
\* and nothing is asked for, decided or run before its turn.
THEOREM DecisionCorrect == Spec => []DecisionIsRow
<1>1. Init => DecisionIsRow
  BY DEF Init, DecisionIsRow, BeforePC, StarterPC, ApprovalPC, NoCall
<1>2. ASSUME TypeOK, DecisionIsRow, [Next]_vars PROVE DecisionIsRow'
  <2> USE <1>2
  <2>1. ASSUME NEW t \in Tasks, StartTask(t) PROVE DecisionIsRow'
    <3>1. CASE CheckPolicy(t)
      <4>1. /\ pc[t] = "gate"
            /\ pc' = [pc EXCEPT ![t] = "rejected"] \/ pc' = [pc EXCEPT ![t] = "lock"]
            /\ UNCHANGED <<approval, decision, executed, rules, input, call>>
            /\ \A u \in Tasks \ {t} : gate'[u] = gate[u]
            /\ gate'[t] = "ruled" => HasRule(t)
        BY <3>1 DEF CheckPolicy, Policies, Goto, TypeOK, DecisionIsRow
      <4>2. \A u \in Tasks : (HasRule(u)' <=> HasRule(u))
        BY <4>1 DEF HasRule
      <4>3. \A u \in Tasks \ {t} : (Permitted(u)' <=> Permitted(u)) /\ pc'[u] = pc[u]
        BY <4>1, <4>2 DEF Permitted, TypeOK
      <4>4. pc'[t] \in {"rejected", "lock"} /\ pc[t] \in BeforePC
        BY <4>1 DEF TypeOK, BeforePC, StarterPC
      <4>5. QED
        BY <4>1, <4>2, <4>3, <4>4 DEF DecisionIsRow, ApprovalPC
    <3>2. CASE LockSession(t) \/ InsertTask(t) \/ SpawnSupervisor(t)
      BY <3>2, PermitGoto DEF LockSession, InsertTask, SpawnSupervisor, Goto, BeforePC, StarterPC,
         ApprovalPC
    <3>3. QED
      BY <2>1, <3>1, <3>2 DEF StartTask
  <2>2. ASSUME NEW t \in Tasks, AwaitApproval(t) PROVE DecisionIsRow'
    <3> DEFINE Require == pc[t] \in ApprovalPC => gate[t] = "require"
    <3>0. Require /\ (pc[t] \in {"approved", "resume"} => approval[t] = "approved")
      BY DEF DecisionIsRow
    <3>1. CASE Ask(t) \/ Refuse(t)
      <4>1. pc[t] \in ApprovalPC
        BY <3>1 DEF Ask, Refuse, TransitionTask, ApprovalPC
      <4>2. gate[t] = "require"
        BY <3>0, <4>1
      <4>3. QED
        BY <3>1, <4>2, PermitTransition DEF Ask, Refuse, BeforePC, StarterPC, ApprovalPC
    <3>2. CASE Resume(t)
      <4>1. Permitted(t)
        BY <3>2 DEF Resume, TransitionTask, DecisionIsRow, ApprovalPC, Permitted
      <4>2. QED
        BY <3>2, <4>1, PermitTransition DEF Resume, BeforePC, StarterPC, ApprovalPC
    <3>3. CASE CheckApproved(t) \/ CheckRefused(t)
      <4>1. pc[t] \in ApprovalPC
        BY <3>3 DEF CheckApproved, CheckRefused, Step, ApprovalPC
      <4>2. gate[t] = "require"
        BY <3>0, <4>1
      <4>3. QED
        BY <3>0, <3>3, <4>2, PermitGoto DEF CheckApproved, CheckRefused, Step, Goto, BeforePC,
           StarterPC, ApprovalPC
    <3>4. CASE RequestApproval(t)
      <4>1. /\ pc[t] = "request"
            /\ pc' = [pc EXCEPT ![t] = "listen"]
            /\ approval' = [approval EXCEPT ![t] = "pending"]
            /\ UNCHANGED <<decision, gate, executed, rules, input, call>>
        BY <3>4 DEF RequestApproval, Goto
      <4>2. approval[t] = "absent" /\ decision[t] = "absent" /\ t \notin executed
        BY <4>1 DEF DecisionIsRow, BeforePC
      <4>3. \A c \in Clients : call[c].kind = "respond" => call[c].task # t
        BY <4>2, CallTypes DEF DecisionIsRow, TypeOK
      <4>4. \A u \in Tasks : (HasRule(u)' <=> HasRule(u))
        BY <4>1 DEF HasRule
      <4>5. \A u \in Tasks \ {t} : (Permitted(u)' <=> Permitted(u)) /\ pc'[u] = pc[u]
        BY <4>1, <4>4 DEF Permitted, TypeOK
      <4>6. pc'[t] = "listen"
        BY <4>1 DEF TypeOK
      <4>7. \A c \in Clients : call[c].kind = "respond" => call[c].task \in Tasks
        BY CallTypes DEF TypeOK
      <4>8. QED
        BY <4>1, <4>2, <4>3, <4>4, <4>5, <4>6, <4>7 DEF DecisionIsRow, BeforePC, StarterPC, ApprovalPC,
           TypeOK
    <3>5. CASE Listen(t) \/ AnnounceRequest(t) \/ Abandon(t)
      <4>1. pc[t] \in ApprovalPC
        BY <3>5 DEF Listen, AnnounceRequest, Abandon, ApprovalPC
      <4>2. gate[t] = "require"
        BY <3>0, <4>1
      <4>3. QED
        BY <3>5, <4>2, PermitGoto DEF Listen, AnnounceRequest, Abandon, Goto, BeforePC, StarterPC,
           ApprovalPC
    <3>6. CASE Select(t)
      <4>1. /\ pc[t] = "select"
            /\ decision' = [decision EXCEPT ![t] = "absent"]
            /\ UNCHANGED <<approval, gate, executed, rules, input, call>>
        BY <3>6 DEF Select
      <4>2. \E to \in {"approved", "refused", "settle"} :
               pc' = [pc EXCEPT ![t] = to] /\ (to = "approved" => decision[t] = "approved")
        BY <3>6 DEF Select, Goto
      <4>3. gate[t] = "require" /\ (decision[t] # "absent" => decision[t] = approval[t])
        BY <4>1 DEF DecisionIsRow, ApprovalPC
      <4>4. \A u \in Tasks : (HasRule(u)' <=> HasRule(u)) /\ (Permitted(u)' <=> Permitted(u))
        BY <4>1 DEF HasRule, Permitted
      <4>5. QED
        BY <4>1, <4>2, <4>3, <4>4 DEF DecisionIsRow, BeforePC, StarterPC, ApprovalPC, TypeOK
    <3>7. QED
      BY <2>2, <3>1, <3>2, <3>3, <3>4, <3>5, <3>6 DEF AwaitApproval
  <2>3. ASSUME NEW t \in Tasks, RunTask(t) PROVE DecisionIsRow'
    <3>1. CASE Load(t) \/ Respond(t) \/ Settle(t) \/ Reload(t)
      BY <3>1, PermitGoto DEF Load, Respond, Settle, Reload, Step, Goto, Outcome, BeforePC,
         StarterPC, ApprovalPC
    <3>2. CASE Dispatch(t)
      BY <3>2, PermitGoto DEF Dispatch, Step, Goto, DecisionIsRow, Permitted, BeforePC, StarterPC,
         ApprovalPC
    <3>3. CASE Start(t) \/ MarkCancelling(t) \/ Cancel(t) \/ Complete(t) \/ Fail(t)
      BY <3>3, PermitTransition DEF Start, MarkCancelling, Cancel, Complete, Fail, BeforePC,
         StarterPC, ApprovalPC
    <3>4. CASE Execute(t)
      <4>1. /\ pc[t] = "execute" /\ executed' = executed \cup {t}
            /\ pc' = [pc EXCEPT ![t] = "executing"]
            /\ UNCHANGED <<approval, decision, gate, rules, input, call>>
        BY <3>4 DEF Execute, Goto
      <4>2. \A u \in Tasks : (HasRule(u)' <=> HasRule(u)) /\ (Permitted(u)' <=> Permitted(u))
        BY <4>1 DEF HasRule, Permitted
      <4>3. QED
        BY <4>1, <4>2 DEF DecisionIsRow, BeforePC, StarterPC, ApprovalPC, TypeOK
    <3>5. CASE ReportCancelled(t) \/ Cleanup(t)
      BY <3>5, PermitGoto DEF ReportCancelled, Cleanup, Goto, BeforePC, StarterPC, ApprovalPC
    <3>6. QED
      BY <2>2, <2>3, <3>1, <3>2, <3>3, <3>4, <3>5 DEF RunTask
  <2>4. ASSUME NEW t \in Tasks, SupervisorFault(t) \/ StarterFault(t) PROVE DecisionIsRow'
    BY <2>4, PermitGoto DEF SupervisorFault, StarterFault, Goto, OnError, BeforePC, StarterPC,
       ApprovalPC
  <2>5. ASSUME NEW t \in Tasks, NEW i \in Inputs, Submit(t, i) PROVE DecisionIsRow'
    <3>1. /\ pc[t] = "new" /\ t \notin rules /\ t \notin executed /\ gate[t] # "ruled"
          /\ \A u \in Tasks \ {t} : input'[u] = input[u]
          /\ UNCHANGED <<approval, decision, gate, executed, rules, call>>
      BY <2>5 DEF Submit, DecisionIsRow, BeforePC, TypeOK
    <3>2. \E to \in {"existing", "gate"} : pc' = [pc EXCEPT ![t] = to]
      BY <2>5 DEF Submit, Goto
    <3>3. \A u \in Tasks \ {t} : HasRule(u)' <=> HasRule(u)
      BY <3>1 DEF HasRule, TypeOK
    <3>4. \A u \in Tasks \ {t} : Permitted(u)' <=> Permitted(u)
      BY <3>1, <3>3 DEF Permitted
    <3>5. QED
      BY <3>1, <3>2, <3>3, <3>4 DEF DecisionIsRow, BeforePC, StarterPC, ApprovalPC, TypeOK
  <2>6. ASSUME NEW c \in Clients, CancelTask(c) \/ RespondApproval(c) \/ CallFault(c)
        PROVE DecisionIsRow'
    <3>1. CASE CancelCheck(c) \/ CancelSave(c) \/ CancelSignal(c) \/ CancelResolved(c)
               \/ CancelAnnounce(c) \/ RespondResolved(c) \/ CallFault(c)
      BY <3>1, PermitCall DEF CancelCheck, CancelSave, CancelSignal, CancelResolved, CancelAnnounce,
         RespondResolved, CallFault, AfterClose
    <3>2. CASE CancelClose(c)
      <4>1. CASE approval[call[c].task] # "pending"
        BY <3>2, <4>1, PermitCall DEF CancelClose, AfterClose
      <4>2. CASE approval[call[c].task] = "pending"
        <5>0. PICK t \in Tasks : t = call[c].task
          BY <3>2, CallTypes DEF CancelClose, CallAt, TypeOK
        <5>1. call[c].kind = "cancel"
          BY <3>2 DEF CancelClose, CallAt
        <5>2. /\ approval' = [approval EXCEPT ![t] = "cancelled"] /\ CallGoto(c, "resolved")
              /\ UNCHANGED <<decision, gate, executed, rules, input, pc>>
          BY <3>2, <4>2, <5>0 DEF CancelClose
        <5>3. \A d \in Clients : call'[d].kind = "respond" =>
                  call[d].kind = "respond" /\ call'[d] = call[d]
          BY <5>1, <5>2 DEF CallGoto, TypeOK
        <5>4. \A u \in Tasks : HasRule(u)' <=> HasRule(u)
          BY <5>2 DEF HasRule
        <5>5. \A u \in Tasks \ {t} : approval'[u] = approval[u] /\ (Permitted(u)' <=> Permitted(u))
          BY <5>2, <5>4 DEF Permitted, TypeOK
        <5>6. \A d \in Clients : call[d].kind = "respond" => call[d].task \in Tasks
          BY CallTypes DEF TypeOK
        <5>7. gate[t] # "require" => (Permitted(t)' <=> Permitted(t))
          BY <5>2, <5>4 DEF Permitted
        <5>8. approval[t] = "pending"
          BY <4>2, <5>0
        <5>9. QED
          BY <5>1, <5>2, <5>3, <5>4, <5>5, <5>6, <5>7, <5>8, PermitResolve DEF DecisionIsRow
      <4>3. QED
        BY <4>1, <4>2
    <3>3. CASE RespondNotify(c)
      <4>1. /\ UNCHANGED <<approval, gate, executed, rules, input, pc>>
            /\ CallEnd(c)
            /\ call[c].kind = "respond"
        BY <3>3 DEF RespondNotify, CallAt
      <4>0. ASSUME NEW t \in Tasks
            PROVE  \/ decision'[t] = decision[t]
                   \/ t = call[c].task /\ decision'[t] = call[c].next
        BY <3>3 DEF RespondNotify, TypeOK
      <4>2. \A d \in Clients : call'[d].kind = "respond" => call'[d] = call[d]
        BY <4>1 DEF CallEnd, NoCall, TypeOK
      <4>3. \A u \in Tasks : (HasRule(u)' <=> HasRule(u)) /\ (Permitted(u)' <=> Permitted(u))
        BY <4>1 DEF HasRule, Permitted
      <4>4. QED
        BY <4>0, <4>1, <4>2, <4>3 DEF DecisionIsRow
    <3>4. QED
      BY <2>6, <3>1, <3>2, <3>3 DEF CancelTask, RespondApproval
  <2>7. ASSUME NEW c \in Clients, NEW t \in Tasks, CancelLoad(c, t) PROVE DecisionIsRow'
    <3>1. /\ UNCHANGED <<approval, decision, gate, executed, rules, input, pc>>
          /\ \A d \in Clients : call'[d].kind = "respond" => call'[d] = call[d]
      BY <2>7 DEF CancelLoad, TypeOK
    <3>2. \A u \in Tasks : (HasRule(u)' <=> HasRule(u)) /\ (Permitted(u)' <=> Permitted(u))
      BY <3>1 DEF HasRule, Permitted
    <3>3. QED
      BY <3>1, <3>2 DEF DecisionIsRow
  <2>8. ASSUME NEW c \in Clients, NEW t \in Tasks, NEW choice \in Choices,
               ResolveApproval(c, t, choice)
        PROVE  DecisionIsRow'
    <3>1. /\ approval[t] = "pending"
          /\ approval' = [approval EXCEPT ![t] = StatusOf(choice)]
          /\ rules \subseteq rules' /\ rules' \subseteq rules \cup {t}
          /\ UNCHANGED <<decision, gate, executed, input, pc>>
      BY <2>8 DEF ResolveApproval
    <3>2. \A d \in Clients : call'[d].kind = "respond" =>
              \/ call'[d] = call[d]
              \/ call'[d].task = t /\ call'[d].next = StatusOf(choice)
      BY <2>8 DEF ResolveApproval, TypeOK
    <3>3. \A u \in Tasks : HasRule(u) => HasRule(u)'
      BY <3>1 DEF HasRule
    <3>4. \A u \in Tasks \ {t} : approval'[u] = approval[u] /\ (Permitted(u) => Permitted(u)')
      BY <3>1, <3>3 DEF Permitted, TypeOK
    <3>5. gate[t] # "require" => (Permitted(t) => Permitted(t)')
      BY <3>1, <3>3 DEF Permitted
    <3>6. \A d \in Clients : call[d].kind = "respond" => call[d].task \in Tasks
      BY CallTypes DEF TypeOK
    <3>7. approval'[t] = StatusOf(choice)
      BY <3>1 DEF TypeOK
    <3>8. pc[t] # "new"
      BY <3>1, PermitResolve DEF BeforePC
    <3>9. QED
      BY <3>1, <3>2, <3>3, <3>4, <3>5, <3>6, <3>7, <3>8, PermitResolve DEF DecisionIsRow
  <2>9. CASE Crash
    <3>1. /\ UNCHANGED <<approval, gate, executed, rules, input>>
          /\ \A t \in Tasks : /\ decision'[t] = "absent"
                              /\ pc'[t] = IF pc[t] = "new" THEN "new" ELSE "dead"
          /\ \A c \in Clients : call'[c].kind = "none"
      BY <2>9 DEF Crash, NoCall
    <3>2. \A u \in Tasks : (HasRule(u)' <=> HasRule(u)) /\ (Permitted(u)' <=> Permitted(u))
      BY <3>1 DEF HasRule, Permitted
    <3>3. QED
      BY <3>1, <3>2 DEF DecisionIsRow, BeforePC, StarterPC, ApprovalPC
  <2>10. CASE Boot
    <3>1. /\ UNCHANGED <<decision, gate, executed, rules, input, pc, call>>
          /\ \A t \in Tasks : approval[t] # "pending" => approval'[t] = approval[t]
      BY <2>10 DEF Boot, TypeOK
    <3>2. \A u \in Tasks : HasRule(u)' <=> HasRule(u)
      BY <3>1 DEF HasRule
    <3>3. \A u \in Tasks : Permitted(u) => Permitted(u)'
      BY <3>1, <3>2 DEF Permitted
    <3>4. \A d \in Clients : call[d].kind = "respond" => call[d].task \in Tasks
      BY CallTypes DEF TypeOK
    <3>5. QED
      BY <3>1, <3>2, <3>3, <3>4, PermitResolve DEF DecisionIsRow
  <2>11. CASE Shutdown \/ Ready \/ (\E t \in Tasks : AppendInterrupted(t)) \/ UNCHANGED vars
    BY <2>11, PermitFrame DEF Shutdown, Ready, AppendInterrupted, vars
  <2>12. QED
    BY <2>1, <2>3, <2>4, <2>5, <2>6, <2>7, <2>8, <2>9, <2>10, <2>11 DEF Next, Restart
<1>3. QED
  BY <1>1, <1>2, TypeCorrect, PTL DEF Spec

\* No command runs without the permission its policy asks for, for any number
\* of tasks, answers, cancels, store failures and restarts.
THEOREM ExecutionIsPermitted == Spec => []ExecutionPermitted
<1>1. TypeOK /\ DecisionIsRow => ExecutionPermitted
  BY DEF TypeOK, DecisionIsRow, ExecutionPermitted
<1>2. QED
  BY <1>1, TypeCorrect, DecisionCorrect, PTL

-----------------------------------------------------------------------------
(***************************************************************************)
(* Decisions                                                               *)
(***************************************************************************)

\* The steps that write an approval row; a first request finds none, all the
\* others find it pending.
LEMMA ApprovalWriters ==
    ASSUME TypeOK, DecisionIsRow, [Next]_vars, NEW t \in Tasks
    PROVE  approval'[t] = approval[t] \/ approval[t] \in {"absent", "pending"}
<1>1. ASSUME NEW u \in Tasks, StartTask(u) \/ SupervisorFault(u) \/ StarterFault(u)
      PROVE  UNCHANGED approval
  BY <1>1 DEF StartTask, CheckPolicy, LockSession, InsertTask, SpawnSupervisor,
              SupervisorFault, StarterFault
<1>2. ASSUME NEW u \in Tasks, RunTask(u)
      PROVE  approval'[t] = approval[t] \/ approval[t] \in {"absent", "pending"}
  <2>1. CASE RequestApproval(u)
    <3>1. approval[u] = "absent"
      BY <2>1 DEF RequestApproval, DecisionIsRow, BeforePC
    <3>2. QED
      BY <2>1, <3>1 DEF RequestApproval, TypeOK
  <2>2. CASE \/ Start(u) \/ Ask(u) \/ Resume(u) \/ Refuse(u) \/ MarkCancelling(u)
             \/ Cancel(u) \/ Complete(u) \/ Fail(u)
    BY <2>2 DEF Start, Ask, Resume, Refuse, MarkCancelling, Cancel, Complete, Fail, TransitionTask
  <2>3. CASE \/ Load(u) \/ Dispatch(u) \/ Respond(u) \/ Settle(u) \/ Reload(u)
             \/ CheckApproved(u) \/ CheckRefused(u)
    BY <2>3 DEF Load, Dispatch, Respond, Settle, Reload, CheckApproved, CheckRefused, Step
  <2>4. CASE \/ Execute(u) \/ Listen(u) \/ AnnounceRequest(u) \/ Select(u) \/ Abandon(u)
             \/ ReportCancelled(u) \/ Cleanup(u)
    BY <2>4 DEF Execute, Listen, AnnounceRequest, Select, Abandon, ReportCancelled, Cleanup
  <2>5. QED
    BY <1>2, <2>1, <2>2, <2>3, <2>4 DEF RunTask, AwaitApproval
<1>3. ASSUME NEW u \in Tasks, NEW i \in Inputs, Submit(u, i) PROVE UNCHANGED approval
  BY <1>3 DEF Submit
<1>4. ASSUME NEW c \in Clients, CancelTask(c) \/ RespondApproval(c) \/ CallFault(c)
      PROVE  approval'[t] = approval[t] \/ approval[t] \in {"absent", "pending"}
  <2>1. CASE CancelClose(c)
    BY <2>1 DEF CancelClose, TypeOK
  <2>2. CASE \/ CancelCheck(c) \/ CancelSave(c) \/ CancelSignal(c) \/ CancelResolved(c)
             \/ CancelAnnounce(c) \/ RespondApproval(c) \/ CallFault(c)
    BY <2>2 DEF CancelCheck, CancelSave, CancelSignal, CancelResolved, CancelAnnounce,
                RespondApproval, RespondResolved, RespondNotify, CallFault
  <2>3. QED
    BY <1>4, <2>1, <2>2 DEF CancelTask
<1>5. ASSUME NEW c \in Clients, NEW u \in Tasks, CancelLoad(c, u) PROVE UNCHANGED approval
  BY <1>5 DEF CancelLoad
<1>6. ASSUME NEW c \in Clients, NEW u \in Tasks, NEW choice \in Choices,
             ResolveApproval(c, u, choice)
      PROVE  approval'[t] = approval[t] \/ approval[t] \in {"absent", "pending"}
  BY <1>6 DEF ResolveApproval, TypeOK
<1>7. CASE Restart
  BY <1>7 DEF Restart, Boot, Ready, AppendInterrupted, TypeOK
<1>8. CASE Shutdown \/ Crash \/ UNCHANGED vars
  BY <1>8 DEF Shutdown, Crash, vars
<1>9. QED
  BY <1>1, <1>2, <1>3, <1>4, <1>5, <1>6, <1>7, <1>8 DEF Next

\* A decided request is never decided again: not by a second client, not by the
\* cancel of its task, not by a restart, for any number of them.
THEOREM DecisionIsFinal == Spec => DecisionFinal
<1>1. TypeOK /\ DecisionIsRow /\ [Next]_vars =>
          [\A t \in Tasks : approval[t] \notin {"absent", "pending"} =>
                                approval'[t] = approval[t]]_vars
  BY ApprovalWriters
<1>2. QED
  BY <1>1, TypeCorrect, DecisionCorrect, PTL DEF Spec, DecisionFinal

-----------------------------------------------------------------------------
(***************************************************************************)
(* Rows                                                                    *)
(***************************************************************************)

\* The call of start_task has not inserted its row yet.
RowlessPC == {"new", "gate", "lock", "insert"}

\* A row is there from the INSERT on, and stays; two rows are of two operations;
\* a cancel is about a row, and of a task this process knows; what runs or is to
\* be completed has been handed to the actor.
RowInv ==
    /\ \A t \in Tasks :
        /\ pc[t] \in RowlessPC => status[t] = "absent"
        /\ t \in executed \/ pc[t] \in SupervisorPC \cup {"spawn"} => status[t] # "absent"
        /\ pc[t] \in {"executing", "complete"} => t \in executed
        /\ status[t] = "completed" \/ "completed" \in log[t] => t \in executed
        /\ pc[t] = "dead" /\ service # "down" => status[t] \notin ActiveStatus
    /\ \A t, u \in Tasks : t # u /\ status[t] # "absent" /\ status[u] # "absent" =>
           input[t].operation # input[u].operation
    /\ \A c \in Clients : call[c].kind = "cancel" =>
           status[call[c].task] # "absent" /\ pc[call[c].task] # "dead"

\* A step that moves one task and writes no row.
LEMMA RowGoto ==
    ASSUME TypeOK, RowInv, NEW t \in Tasks, NEW to, pc' = [pc EXCEPT ![t] = to],
           UNCHANGED <<status, executed, input, call, service>>,
           \A u \in Tasks : "completed" \in log'[u] => "completed" \in log[u] \/ (t = u /\ t \in executed),
           to \notin RowlessPC \cup {"dead"},
           to \in SupervisorPC \cup {"spawn"} => pc[t] \in SupervisorPC \cup {"spawn"},
           to \in {"executing", "complete"} => t \in executed
    PROVE  RowInv'
<1>1. \A u \in Tasks : pc'[u] = IF u = t THEN to ELSE pc[u]
  BY DEF TypeOK
<1>2. QED
  BY <1>1 DEF RowInv

\* A step that moves no task and writes no row; a call may end or go on.
LEMMA RowFrame ==
    ASSUME TypeOK, RowInv, UNCHANGED <<pc, status, executed, input>>,
           service' = "down" => service = "down",
           service' # "down" => service # "down",
           \A u \in Tasks : "completed" \in log'[u] => "completed" \in log[u],
           \A c \in Clients : call'[c].kind = "cancel" =>
               call[c].kind = "cancel" /\ call'[c].task = call[c].task
    PROVE  RowInv'
BY DEF RowInv

\* A transition of the supervisor keeps the row, and completes only what ran.
LEMMA RowTransition ==
    ASSUME TypeOK, RowInv, NEW t \in Tasks, NEW at \in SupervisorPC, NEW next \in TaskStatus,
           NEW event, NEW then \in SupervisorPC, TransitionTask(t, at, next, event, then),
           next = "completed" \/ event = "completed" => at = "complete",
           then \notin {"executing", "complete"}
    PROVE  RowInv'
<1>1. /\ pc[t] = at /\ UNCHANGED <<executed, input, call, service>>
      /\ OnError(t) \in {"settle", "cleanup"}
  BY DEF TransitionTask, OnError
<1>2. next # "absent" /\ at \notin RowlessPC \cup {"dead", "spawn"}
  BY DEF TaskStatus, ActiveStatus, TerminalStatus, RowlessPC, SupervisorPC, RunPC, ApprovalPC
<1>3. \E to \in {at, then, OnError(t)} : pc' = [pc EXCEPT ![t] = to]
  <2>1. pc = [pc EXCEPT ![t] = at]
    BY <1>1 DEF TypeOK
  <2>2. QED
    BY <2>1 DEF TransitionTask, Goto
<1>4. PICK to \in {at, then, OnError(t)} : pc' = [pc EXCEPT ![t] = to]
  BY <1>3
<1>5. /\ to \in SupervisorPC /\ to \notin RowlessPC \cup {"dead", "spawn"}
      /\ to \in {"executing", "complete"} => at = to
  <2>1. \A label \in SupervisorPC : label \notin RowlessPC \cup {"dead", "spawn"}
    BY DEF SupervisorPC, RunPC, ApprovalPC, RowlessPC
  <2>2. OnError(t) \in SupervisorPC
    BY LabelTypes
  <2>3. QED
    BY <1>1, <1>4, <2>1, <2>2
<1>6. /\ \A u \in Tasks : pc'[u] = IF u = t THEN to ELSE pc[u]
      /\ \A u \in Tasks : status'[u] = status[u] \/ (u = t /\ status'[u] = next)
      /\ \A u \in Tasks : "completed" \in log'[u] =>
                              "completed" \in log[u] \/ (u = t /\ event = "completed")
  <2>1. \A u \in Tasks : pc'[u] = IF u = t THEN to ELSE pc[u]
    BY <1>4 DEF TypeOK
  <2>2. \A u \in Tasks : status'[u] = status[u] \/ (u = t /\ status'[u] = next)
    BY DEF TransitionTask, TypeOK
  <2>3. log' = log \/ log' = [log EXCEPT ![t] = log[t] \cup ({event} \cap EventKinds)]
    BY DEF TransitionTask, Emit
  <2>4. \A u \in Tasks : "completed" \in log'[u] =>
                             "completed" \in log[u] \/ (u = t /\ event = "completed")
    BY <2>3 DEF TypeOK
  <2>5. QED
    BY <2>1, <2>2, <2>4
<1>7. status[t] # "absent"
  BY <1>1 DEF RowInv
<1>8. at = "complete" => t \in executed
  BY <1>1 DEF RowInv
<1>9. \A c \in Clients : call[c].kind = "cancel" => call[c].task \in Tasks
  BY CallTypes DEF TypeOK
<1>10. QED
  BY <1>1, <1>2, <1>5, <1>6, <1>7, <1>8, <1>9 DEF RowInv

\* What a call may do next: end, or go on with its task.
LEMMA CallGoesOn ==
    ASSUME TypeOK, NEW c \in Clients, CallEnd(c) \/ \E at : CallGoto(c, at)
    PROVE  \A d \in Clients : call'[d].kind # "none" =>
               call'[d].kind = call[d].kind /\ call'[d].task = call[d].task
<1>1. CASE CallEnd(c)
  BY <1>1 DEF CallEnd, NoCall, TypeOK
<1>2. CASE \E at : CallGoto(c, at)
  BY <1>2 DEF CallGoto, TypeOK
<1>3. QED
  BY <1>1, <1>2

\* The rows and what they say of the past are in order in every state.
LEMMA RowsCorrect == Spec => []RowInv
<1>1. Init => RowInv
  BY DEF Init, RowInv, RowlessPC, SupervisorPC, RunPC, ApprovalPC, NoCall
<1>2. ASSUME TypeOK, RowInv, [Next]_vars PROVE RowInv'
  <2> USE <1>2
  <2>0. \A c \in Clients : call[c].kind = "cancel" => call[c].task \in Tasks
    BY CallTypes DEF TypeOK
  <2>1. ASSUME NEW t \in Tasks, StartTask(t) PROVE RowInv'
    <3>1. CASE CheckPolicy(t) \/ LockSession(t)
      <4>1. /\ pc[t] \in {"gate", "lock"}
            /\ pc[t] = "gate" => \E to \in {"rejected", "lock"} : pc' = [pc EXCEPT ![t] = to]
            /\ pc[t] = "lock" => \E to \in {"rejected", "insert"} : pc' = [pc EXCEPT ![t] = to]
            /\ UNCHANGED <<status, log, executed, input, call, service>>
        BY <3>1 DEF CheckPolicy, LockSession, Goto
      <4>2. /\ \A u \in Tasks \ {t} : pc'[u] = pc[u]
            /\ pc'[t] \in {"rejected", "lock", "insert"}
        BY <4>1 DEF TypeOK
      <4>3. status[t] = "absent"
        BY <4>1 DEF RowInv, RowlessPC
      <4>4. QED
        BY <2>0, <4>1, <4>2, <4>3 DEF RowInv, RowlessPC, SupervisorPC, RunPC, ApprovalPC
    <3>2. CASE SpawnSupervisor(t)
      BY <3>2, RowGoto DEF SpawnSupervisor, Goto, RowlessPC, SupervisorPC, RunPC, ApprovalPC
    <3>3. CASE InsertTask(t)
      <4>1. CASE UNCHANGED status
        <5>1. pc' = [pc EXCEPT ![t] = "rejected"] /\ UNCHANGED <<log, executed, input, call, service>>
          BY <3>3, <4>1 DEF InsertTask, Goto, RowInv, RowlessPC, TypeOK
        <5>2. QED
          BY <4>1, <5>1, RowGoto DEF RowlessPC, SupervisorPC, RunPC, ApprovalPC
      <4>2. CASE OperationIsNew(t) /\ status' = [status EXCEPT ![t] = "queued"]
        <5>1. /\ pc[t] = "insert" /\ pc' = [pc EXCEPT ![t] = "spawn"]
              /\ UNCHANGED <<log, executed, input, call, service>>
          BY <3>3, <4>2 DEF InsertTask, Goto, RowInv, RowlessPC, TypeOK
        <5>2. /\ \A u \in Tasks : pc'[u] = IF u = t THEN "spawn" ELSE pc[u]
              /\ \A u \in Tasks : status'[u] = IF u = t THEN "queued" ELSE status[u]
          BY <4>2, <5>1 DEF TypeOK
        <5>3. status[t] = "absent"
          BY <5>1 DEF RowInv, RowlessPC
        <5>4. QED
          BY <2>0, <4>2, <5>1, <5>2, <5>3
          DEF RowInv, OperationIsNew, RowlessPC, SupervisorPC, RunPC, ApprovalPC
      <4>3. QED
        BY <3>3, <4>1, <4>2 DEF InsertTask
    <3>4. QED
      BY <2>1, <3>1, <3>2, <3>3 DEF StartTask
  <2>2. ASSUME NEW t \in Tasks, RunTask(t) PROVE RowInv'
    <3>1. CASE Start(t) \/ Ask(t) \/ Resume(t) \/ Refuse(t)
      BY <3>1, RowTransition DEF Start, Ask, Resume, Refuse, SupervisorPC, RunPC, ApprovalPC,
         TaskStatus, ActiveStatus
    <3>2. CASE MarkCancelling(t) \/ Cancel(t) \/ Complete(t) \/ Fail(t)
      BY <3>2, RowTransition DEF MarkCancelling, Cancel, Complete, Fail, SupervisorPC, RunPC,
         TaskStatus, ActiveStatus, TerminalStatus
    <3>3. CASE Load(t) \/ Dispatch(t) \/ Settle(t) \/ Reload(t) \/ CheckApproved(t) \/ CheckRefused(t)
      BY <3>3, RowGoto DEF Load, Dispatch, Settle, Reload, CheckApproved, CheckRefused, Step, Goto,
         Outcome, RowlessPC, SupervisorPC, RunPC, ApprovalPC
    <3>4. CASE Respond(t)
      <4>1. t \in executed
        BY <3>4 DEF Respond, Step, RowInv
      <4>2. QED
        BY <3>4, <4>1, RowGoto DEF Respond, Step, Goto, Outcome, RowlessPC, SupervisorPC, RunPC,
           ApprovalPC
    <3>5. CASE Listen(t) \/ AnnounceRequest(t) \/ Select(t) \/ Abandon(t) \/ RequestApproval(t)
      BY <3>5, RowGoto DEF Listen, AnnounceRequest, Select, Abandon, RequestApproval, Goto, Emit,
         TypeOK, RowlessPC, SupervisorPC, RunPC, ApprovalPC
    <3>6. CASE ReportCancelled(t) \/ Cleanup(t)
      BY <3>6, RowGoto DEF ReportCancelled, Cleanup, Goto, Emit, TypeOK, RowlessPC, SupervisorPC,
         RunPC, ApprovalPC
    <3>7. CASE Execute(t)
      <4>1. /\ pc[t] = "execute" /\ executed' = executed \cup {t}
            /\ UNCHANGED <<status, log, input, call, service>>
            /\ \A u \in Tasks : pc'[u] = IF u = t THEN "executing" ELSE pc[u]
        BY <3>7 DEF Execute, Goto, TypeOK
      <4>2. status[t] # "absent"
        BY <4>1 DEF RowInv, SupervisorPC, RunPC
      <4>3. QED
        BY <2>0, <4>1, <4>2 DEF RowInv, RowlessPC
    <3>8. QED
      BY <2>2, <3>1, <3>2, <3>3, <3>4, <3>5, <3>6, <3>7 DEF RunTask, AwaitApproval
  <2>3. ASSUME NEW t \in Tasks, SupervisorFault(t) \/ StarterFault(t) PROVE RowInv'
    BY <2>3, RowGoto DEF SupervisorFault, StarterFault, StorePC, OnError, Goto, RowlessPC,
       SupervisorPC, RunPC, ApprovalPC
  <2>4. ASSUME NEW t \in Tasks, NEW i \in Inputs, Submit(t, i) PROVE RowInv'
    <3>1. /\ pc[t] = "new" /\ UNCHANGED <<status, log, executed, call, service>>
          /\ \A u \in Tasks \ {t} : input'[u] = input[u] /\ pc'[u] = pc[u]
          /\ pc'[t] \in {"existing", "gate"}
      BY <2>4 DEF Submit, Goto, TypeOK
    <3>2. status[t] = "absent"
      BY <3>1 DEF RowInv, RowlessPC
    <3>3. QED
      BY <2>0, <3>1, <3>2 DEF RowInv, RowlessPC, SupervisorPC, RunPC, ApprovalPC
  <2>5. ASSUME NEW c \in Clients, CancelTask(c) \/ RespondApproval(c) \/ CallFault(c)
        PROVE  RowInv'
    <3>1. CASE \/ CancelCheck(c) \/ CancelSignal(c) \/ CancelClose(c) \/ CancelResolved(c)
               \/ CancelAnnounce(c) \/ RespondApproval(c) \/ CallFault(c)
      <4>1. /\ UNCHANGED <<pc, status, executed, input, service>>
            /\ CallEnd(c) \/ \E at : CallGoto(c, at)
        BY <3>1 DEF CancelCheck, CancelSignal, CancelClose, CancelResolved, CancelAnnounce,
           RespondApproval, RespondResolved, RespondNotify, CallFault, AfterClose
      <4>2. log' = log \/ \E t : log' = [log EXCEPT ![t] = log[t] \cup ({"resolved"} \cap EventKinds)]
                       \/ log' = [log EXCEPT ![t] = log[t] \cup ({"cancelled"} \cap EventKinds)]
        BY <3>1 DEF CancelCheck, CancelSignal, CancelClose, CancelResolved, CancelAnnounce,
           RespondApproval, RespondResolved, RespondNotify, CallFault, Emit
      <4>3. \A u \in Tasks : "completed" \in log'[u] => "completed" \in log[u]
        BY <4>2 DEF TypeOK
      <4>4. QED
        BY <4>1, <4>3, RowFrame, CallGoesOn
    <3>2. CASE CancelSave(c)
      <4>1. /\ UNCHANGED <<pc, executed, input, service, log>>
            /\ CallEnd(c) \/ \E at : CallGoto(c, at)
            /\ call[c].kind = "cancel"
        BY <3>2 DEF CancelSave, CallAt
      <4>2. PICK t \in Tasks : t = call[c].task /\ call[c].next \in {"cancelled", "cancelling"}
        BY <4>1, CallTypes DEF TypeOK
      <4>3. \A u \in Tasks : status'[u] = status[u] \/ (u = t /\ status'[u] \in {"cancelled", "cancelling"})
        BY <3>2, <4>2 DEF CancelSave, TypeOK
      <4>4. status[t] # "absent" /\ pc[t] # "dead"
        BY <4>1, <4>2 DEF RowInv
      <4>5. \A d \in Clients : call'[d].kind = "cancel" =>
                call[d].kind = "cancel" /\ call'[d].task = call[d].task
        BY <4>1, CallGoesOn
      <4>6. QED
        BY <2>0, <4>1, <4>3, <4>4, <4>5 DEF RowInv
    <3>3. QED
      BY <2>5, <3>1, <3>2 DEF CancelTask
  <2>6. ASSUME NEW c \in Clients, NEW t \in Tasks, CancelLoad(c, t) PROVE RowInv'
    <3>1. /\ UNCHANGED <<pc, status, log, executed, input, service>>
          /\ service = "up" /\ status[t] \in ActiveStatus
          /\ \A d \in Clients : call'[d] = call[d] \/ call'[d].task = t
      BY <2>6 DEF CancelLoad, TypeOK
    <3>2. status[t] # "absent" /\ pc[t] # "dead"
      BY <3>1 DEF RowInv, ActiveStatus
    <3>3. QED
      BY <3>1, <3>2 DEF RowInv
  <2>7. ASSUME NEW c \in Clients, NEW t \in Tasks, NEW choice \in Choices,
               ResolveApproval(c, t, choice)
        PROVE  RowInv'
    BY <2>7, RowFrame DEF ResolveApproval, TypeOK
  <2>8. CASE Crash
    <3>1. /\ UNCHANGED <<status, log, executed, input>>
          /\ service' = "down"
          /\ \A t \in Tasks : pc'[t] = IF pc[t] = "new" THEN "new" ELSE "dead"
          /\ \A c \in Clients : call'[c].kind = "none"
      BY <2>8 DEF Crash, NoCall
    <3>2. QED
      BY <3>1 DEF RowInv, RowlessPC, SupervisorPC, RunPC, ApprovalPC
  <2>9. CASE Boot
    <3>1. /\ UNCHANGED <<pc, log, executed, input, call>>
          /\ \A t \in Tasks : status'[t] = IF status[t] \in ActiveStatus THEN "interrupted"
                                           ELSE status[t]
      BY <2>9 DEF Boot, TypeOK
    <3>2. \A t \in Tasks : /\ status'[t] \notin ActiveStatus
                           /\ status'[t] = "absent" <=> status[t] = "absent"
                           /\ status'[t] = "completed" => status[t] = "completed"
      BY <3>1 DEF ActiveStatus
    <3>3. QED
      BY <2>0, <3>1, <3>2 DEF RowInv
  <2>10. CASE Ready \/ Shutdown \/ (\E t \in Tasks : AppendInterrupted(t)) \/ UNCHANGED vars
    BY <2>10, RowFrame DEF Ready, Shutdown, AppendInterrupted, Emit, TypeOK, vars
  <2>11. QED
    BY <2>1, <2>2, <2>3, <2>4, <2>5, <2>6, <2>7, <2>8, <2>9, <2>10 DEF Next, Restart
<1>3. QED
  BY <1>1, <1>2, TypeCorrect, PTL DEF Spec

\* The command of one operation id runs at most once, for any number of retries,
\* concurrent or across restarts.
THEOREM OperationIsUnique == Spec => []OperationRunsOnce
<1>1. TypeOK /\ RowInv => OperationRunsOnce
  BY DEF TypeOK, RowInv, OperationRunsOnce
<1>2. QED
  BY <1>1, TypeCorrect, RowsCorrect, PTL

\* Nothing is stored or reported as completed that was never handed to the actor.
THEOREM CompletionIsHonest == Spec => []CompletedMeansExecuted
<1>1. RowInv => CompletedMeansExecuted
  BY DEF RowInv, CompletedMeansExecuted
<1>2. QED
  BY <1>1, RowsCorrect, PTL

\* Once the service starts again, no task of a dead process is active, whenever
\* the process died and however often.
THEOREM RestartIsComplete == Spec => []RestartSettles
<1>1. RowInv => RestartSettles
  BY DEF RowInv, RestartSettles
<1>2. QED
  BY <1>1, RowsCorrect, PTL

-----------------------------------------------------------------------------
(***************************************************************************)
(* Terminal rows                                                           *)
(***************************************************************************)

\* Only a process that runs has tasks at work, an interrupted task was of one that
\* died, and a supervisor that has stored a result only publishes it and cleans up.
FinalInv ==
    /\ service # "up" => \A t \in Tasks : pc[t] \in {"new", "dead"}
    /\ \A t \in Tasks :
        /\ status[t] = "interrupted" => pc[t] = "dead"
        /\ status[t] \in {"completed", "failed"} =>
               \/ pc[t] \in {"complete", "fail"} /\ phase[t] = "publish"
               \/ pc[t] \in {"cleanup", "done", "dead"}

\* A step that moves one task and writes no row.
LEMMA FinalGoto ==
    ASSUME TypeOK, FinalInv, NEW t \in Tasks, NEW to, Goto(t, to), UNCHANGED <<status, service>>,
           pc[t] # "dead", pc[t] # "new" \/ service = "up",
           pc[t] \in {"complete", "fail", "cleanup", "done"} => to \in {"cleanup", "done"}
    PROVE  FinalInv'
<1>1. \A u \in Tasks : /\ pc'[u] = IF u = t THEN to ELSE pc[u]
                       /\ u # t => phase'[u] = phase[u]
  BY DEF Goto, TypeOK
<1>2. service = "up" /\ status[t] # "interrupted"
  BY DEF FinalInv
<1>3. status[t] \in {"completed", "failed"} => to \in {"cleanup", "done"}
  BY DEF FinalInv
<1>4. QED
  BY <1>1, <1>2, <1>3 DEF FinalInv

\* A step that moves no task and writes no row.
LEMMA FinalFrame ==
    ASSUME FinalInv, UNCHANGED <<pc, phase, status>>, service' = service \/ service # "up"
    PROVE  FinalInv'
BY DEF FinalInv

\* A transition of the supervisor: it finds no result in the row, and leaves one only
\* at the labels that publish it.
LEMMA FinalTransition ==
    ASSUME TypeOK, FinalInv, NEW t \in Tasks, NEW at \in SupervisorPC, NEW next \in TaskStatus,
           NEW event, NEW then \in SupervisorPC, TransitionTask(t, at, next, event, then),
           at # "cleanup", next # "interrupted",
           next \in {"completed", "failed"} => at \in {"complete", "fail"} /\ event # "none",
           at \in {"complete", "fail"} => then = "cleanup"
    PROVE  FinalInv'
<1>1. /\ pc[t] = at /\ UNCHANGED service
      /\ at \notin {"new", "dead", "done", "cleanup"}
  BY DEF TransitionTask, SupervisorPC, RunPC, ApprovalPC
<1>2. service = "up" /\ status[t] # "interrupted"
  BY <1>1 DEF FinalInv
<1>3. at \in {"complete", "fail"} => OnError(t) = "cleanup"
  BY <1>1 DEF OnError, ApprovalPC
<1>4. CASE phase[t] = "load" \/ phase[t] = "save"
  <2>1. status[t] \notin {"completed", "failed"}
    BY <1>1, <1>4 DEF FinalInv
  <2>2. \A u \in Tasks \ {t} : /\ pc'[u] = pc[u] /\ phase'[u] = phase[u]
                                /\ status'[u] = status[u]
    BY <1>4 DEF TransitionTask, Goto, TypeOK
  <2>3. \/ status'[t] = status[t]
        \/ /\ status'[t] = next
           /\ event = "none" \/ (pc'[t] = at /\ phase'[t] = "publish")
    BY <1>1, <1>4 DEF TransitionTask, Goto, TypeOK
  <2>4. QED
    BY <1>1, <1>2, <2>1, <2>2, <2>3 DEF FinalInv
<1>5. CASE phase[t] = "publish"
  <2>1. Goto(t, then) /\ UNCHANGED <<status, service>>
    BY <1>1, <1>5 DEF TransitionTask
  <2>2. QED
    BY <1>1, <1>2, <2>1, FinalGoto
<1>6. QED
  BY <1>4, <1>5 DEF TypeOK

LEMMA FinalCorrect == Spec => []FinalInv
<1>1. Init => FinalInv
  BY DEF Init, FinalInv
<1>2. ASSUME TypeOK, RowInv, FinalInv, [Next]_vars PROVE FinalInv'
  <2> USE <1>2
  <2>1. ASSUME NEW t \in Tasks, StartTask(t) PROVE FinalInv'
    <3>1. CASE CheckPolicy(t) \/ LockSession(t) \/ SpawnSupervisor(t)
      <4>1. /\ pc[t] \in {"gate", "lock", "spawn"} /\ UNCHANGED <<status, service>>
            /\ \E to \in {"rejected", "lock", "insert", "load"} : Goto(t, to)
        BY <3>1 DEF CheckPolicy, LockSession, SpawnSupervisor
      <4>2. QED
        BY <4>1, FinalGoto
    <3>2. CASE InsertTask(t)
      <4>1. /\ pc[t] = "insert" /\ UNCHANGED service
            /\ UNCHANGED status \/ status' = [status EXCEPT ![t] = "queued"]
            /\ \E to \in {"rejected", "spawn"} : Goto(t, to)
        BY <3>2 DEF InsertTask
      <4>2. \A u \in Tasks \ {t} : /\ pc'[u] = pc[u] /\ phase'[u] = phase[u]
                                    /\ status'[u] = status[u]
        BY <4>1 DEF Goto, TypeOK
      <4>3. service = "up" /\ status[t] = "absent"
        BY <4>1 DEF FinalInv, RowInv, RowlessPC
      <4>4. status'[t] \in {"absent", "queued"}
        BY <4>1, <4>3 DEF TypeOK
      <4>5. QED
        BY <4>1, <4>2, <4>3, <4>4 DEF FinalInv
    <3>3. QED
      BY <2>1, <3>1, <3>2 DEF StartTask
  <2>2. ASSUME NEW t \in Tasks, RunTask(t) PROVE FinalInv'
    <3>1. CASE Start(t) \/ Ask(t) \/ Resume(t) \/ Refuse(t)
      BY <3>1, FinalTransition DEF Start, Ask, Resume, Refuse, SupervisorPC, RunPC, ApprovalPC,
         TaskStatus, ActiveStatus
    <3>2. CASE MarkCancelling(t) \/ Cancel(t) \/ Complete(t) \/ Fail(t)
      BY <3>2, FinalTransition DEF MarkCancelling, Cancel, Complete, Fail, SupervisorPC, RunPC,
         TaskStatus, ActiveStatus, TerminalStatus
    <3>3. CASE Load(t) \/ Dispatch(t) \/ Settle(t) \/ Reload(t) \/ CheckApproved(t)
               \/ CheckRefused(t) \/ Respond(t)
      <4>1. /\ pc[t] \in {"load", "dispatch", "settle", "reload", "approved", "refused",
                           "executing"}
            /\ UNCHANGED <<status, service>> /\ \E to : Goto(t, to)
        BY <3>3 DEF Load, Dispatch, Settle, Reload, CheckApproved, CheckRefused, Respond, Step
      <4>2. QED
        BY <4>1, FinalGoto
    <3>4. CASE \/ Execute(t) \/ Listen(t) \/ AnnounceRequest(t) \/ Select(t) \/ Abandon(t)
               \/ RequestApproval(t)
      <4>1. /\ pc[t] \in {"execute", "listen", "announce", "select", "abandon", "request"}
            /\ UNCHANGED <<status, service>> /\ \E to : Goto(t, to)
        BY <3>4 DEF Execute, Listen, AnnounceRequest, Select, Abandon, RequestApproval
      <4>2. QED
        BY <4>1, FinalGoto
    <3>5. CASE ReportCancelled(t) \/ Cleanup(t)
      <4>1. /\ pc[t] \in {"report", "cleanup"} /\ UNCHANGED <<status, service>>
            /\ \E to \in {"cleanup", "done"} : Goto(t, to)
        BY <3>5 DEF ReportCancelled, Cleanup
      <4>2. QED
        BY <4>1, FinalGoto
    <3>6. QED
      BY <2>2, <3>1, <3>2, <3>3, <3>4, <3>5 DEF RunTask, AwaitApproval
  <2>3. ASSUME NEW t \in Tasks, SupervisorFault(t) PROVE FinalInv'
    <3>1. /\ pc[t] \in StorePC /\ UNCHANGED <<status, service>> /\ Goto(t, OnError(t))
      BY <2>3 DEF SupervisorFault
    <3>2. /\ pc[t] \notin {"new", "dead", "done", "cleanup"}
          /\ pc[t] \in {"complete", "fail"} => OnError(t) = "cleanup"
      BY <3>1 DEF StorePC, OnError, ApprovalPC
    <3>3. QED
      BY <3>1, <3>2, FinalGoto
  <2>4. ASSUME NEW t \in Tasks, StarterFault(t) PROVE FinalInv'
    <3>1. /\ pc[t] \in {"insert", "spawn"} /\ UNCHANGED <<status, service>>
          /\ \E to : Goto(t, to)
      BY <2>4 DEF StarterFault
    <3>2. QED
      BY <3>1, FinalGoto
  <2>5. ASSUME NEW t \in Tasks, NEW i \in Inputs, Submit(t, i) PROVE FinalInv'
    <3>1. /\ pc[t] = "new" /\ service = "up" /\ UNCHANGED <<status, service>>
          /\ \E to : Goto(t, to)
      BY <2>5 DEF Submit
    <3>2. QED
      BY <3>1, FinalGoto
  <2>6. ASSUME NEW c \in Clients, CancelSave(c) PROVE FinalInv'
    <3>1. /\ UNCHANGED <<pc, phase, service>> /\ call[c].kind = "cancel"
          /\ UNCHANGED status \/ status' = [status EXCEPT ![call[c].task] = call[c].next]
      BY <2>6 DEF CancelSave, CallAt
    <3>2. call[c].task \in Tasks /\ call[c].next \in {"cancelled", "cancelling"}
      BY <3>1, CallTypes DEF TypeOK
    <3>3. \A t \in Tasks : status'[t] = status[t] \/ status'[t] \in {"cancelled", "cancelling"}
      BY <3>1, <3>2 DEF TypeOK
    <3>4. QED
      BY <3>1, <3>3 DEF FinalInv
  <2>7. ASSUME NEW c \in Clients,
               \/ CancelCheck(c) \/ CancelSignal(c) \/ CancelClose(c) \/ CancelResolved(c)
               \/ CancelAnnounce(c) \/ RespondApproval(c) \/ CallFault(c)
        PROVE  FinalInv'
    <3>1. UNCHANGED <<pc, phase, status, service>>
      BY <2>7 DEF CancelCheck, CancelSignal, CancelClose, CancelResolved, CancelAnnounce,
         RespondApproval, RespondResolved, RespondNotify, CallFault
    <3>2. QED
      BY <3>1, FinalFrame
  <2>8. ASSUME NEW c \in Clients, NEW t \in Tasks,
               CancelLoad(c, t) \/ \E choice \in Choices : ResolveApproval(c, t, choice)
        PROVE  FinalInv'
    <3>1. UNCHANGED <<pc, phase, status, service>>
      BY <2>8 DEF CancelLoad, ResolveApproval
    <3>2. QED
      BY <3>1, FinalFrame
  <2>9. CASE Crash
    <3>1. /\ UNCHANGED status
          /\ \A t \in Tasks : pc'[t] = IF pc[t] = "new" THEN "new" ELSE "dead"
      BY <2>9 DEF Crash
    <3>2. \A t \in Tasks : pc[t] = "new" => status[t] = "absent"
      BY DEF RowInv, RowlessPC
    <3>3. QED
      BY <3>1, <3>2 DEF FinalInv
  <2>10. CASE Boot
    <3>1. /\ service = "down" /\ UNCHANGED <<pc, phase>>
          /\ \A t \in Tasks : status'[t] = IF status[t] \in ActiveStatus THEN "interrupted"
                                           ELSE status[t]
      BY <2>10 DEF Boot
    <3>2. \A t \in Tasks : status[t] \in ActiveStatus => pc[t] = "dead"
      BY <3>1 DEF FinalInv, RowInv, RowlessPC, ActiveStatus
    <3>3. QED
      BY <3>1, <3>2 DEF FinalInv
  <2>11. CASE Ready \/ Shutdown \/ (\E t \in Tasks : AppendInterrupted(t)) \/ UNCHANGED vars
    <3>1. UNCHANGED <<pc, phase, status>> /\ (service' = service \/ service # "up")
      BY <2>11 DEF Ready, Shutdown, AppendInterrupted, vars
    <3>2. QED
      BY <3>1, FinalFrame
  <2>12. QED
    BY <2>1, <2>2, <2>3, <2>4, <2>5, <2>6, <2>7, <2>8, <2>9, <2>10, <2>11
    DEF Next, Restart, CancelTask
<1>3. QED
  BY <1>1, <1>2, TypeCorrect, RowsCorrect, PTL DEF Spec

\* The steps that write a row: over a terminal one, the two that may cross.
LEMMA RowWriters ==
    ASSUME TypeOK, RowInv, FinalInv, [Next]_vars, NEW t \in Tasks,
           status[t] \in TerminalStatus, status'[t] # status[t]
    PROVE  Crossed(t)
<1>0. status[t] \notin ActiveStatus /\ status[t] # "absent"
  BY DEF TerminalStatus, ActiveStatus
<1>1. ASSUME NEW u \in Tasks, StartTask(u) \/ SupervisorFault(u) \/ StarterFault(u)
      PROVE  FALSE
  <2>1. CASE InsertTask(u)
    <3>1. pc[u] = "insert" /\ (UNCHANGED status \/ status' = [status EXCEPT ![u] = "queued"])
      BY <2>1 DEF InsertTask
    <3>2. status[u] = "absent"
      BY <3>1 DEF RowInv, RowlessPC
    <3>3. QED
      BY <1>0, <3>1, <3>2 DEF TypeOK
  <2>2. CASE CheckPolicy(u) \/ LockSession(u) \/ SpawnSupervisor(u) \/ SupervisorFault(u)
             \/ StarterFault(u)
    BY <2>2 DEF CheckPolicy, LockSession, SpawnSupervisor, SupervisorFault, StarterFault
  <2>3. QED
    BY <1>1, <2>1, <2>2 DEF StartTask
<1>2. ASSUME NEW u \in Tasks, RunTask(u) PROVE Crossed(t)
  <2>1. CASE \/ Start(u) \/ Ask(u) \/ Resume(u) \/ Refuse(u) \/ MarkCancelling(u)
             \/ Cancel(u) \/ Complete(u) \/ Fail(u)
    <3>1. /\ pc[u] \in {"start", "ask", "resume", "refuse", "cancelling", "cancel",
                         "complete", "fail"}
          /\ phase[u] = "save" /\ \E next : status' = [status EXCEPT ![u] = next]
      BY <2>1 DEF Start, Ask, Resume, Refuse, MarkCancelling, Cancel, Complete, Fail,
                  TransitionTask
    <3>2. u = t
      BY <3>1 DEF TypeOK
    <3>3. status[t] \notin {"completed", "failed", "interrupted"}
      BY <3>1, <3>2 DEF FinalInv
    <3>4. Supervised(t)
      BY <3>1, <3>2 DEF Supervised, SupervisorPC, RunPC, ApprovalPC
    <3>5. QED
      BY <3>1, <3>2, <3>3, <3>4 DEF Crossed, TerminalStatus
  <2>2. CASE \/ Load(u) \/ Dispatch(u) \/ Respond(u) \/ Settle(u) \/ Reload(u)
             \/ CheckApproved(u) \/ CheckRefused(u)
    BY <2>2 DEF Load, Dispatch, Respond, Settle, Reload, CheckApproved, CheckRefused, Step
  <2>3. CASE \/ Execute(u) \/ Listen(u) \/ AnnounceRequest(u) \/ Select(u) \/ Abandon(u)
             \/ ReportCancelled(u) \/ Cleanup(u) \/ RequestApproval(u)
    BY <2>3 DEF Execute, Listen, AnnounceRequest, Select, Abandon, ReportCancelled, Cleanup,
                RequestApproval
  <2>4. QED
    BY <1>2, <2>1, <2>2, <2>3 DEF RunTask, AwaitApproval
<1>3. ASSUME NEW c \in Clients, CancelSave(c) PROVE Crossed(t)
  <2>1. /\ CallAt(c, "cancel", "save") /\ call[c].kind = "cancel"
        /\ status' = [status EXCEPT ![call[c].task] = call[c].next]
    BY <1>3 DEF CancelSave, CallAt
  <2>2. call[c].task = t /\ status'[t] = call[c].next
    BY <2>1 DEF TypeOK
  <2>3. status[t] # "interrupted"
    BY <2>1, <2>2 DEF RowInv, FinalInv
  <2>4. QED
    BY <2>1, <2>2, <2>3 DEF Crossed
<1>4. ASSUME NEW c \in Clients,
             \/ CancelCheck(c) \/ CancelSignal(c) \/ CancelClose(c) \/ CancelResolved(c)
             \/ CancelAnnounce(c) \/ RespondApproval(c) \/ CallFault(c)
      PROVE  FALSE
  BY <1>4 DEF CancelCheck, CancelSignal, CancelClose, CancelResolved, CancelAnnounce,
              RespondApproval, RespondResolved, RespondNotify, CallFault
<1>5. ASSUME NEW c \in Clients, NEW u \in Tasks,
             CancelLoad(c, u) \/ \E choice \in Choices : ResolveApproval(c, u, choice)
      PROVE  FALSE
  BY <1>5 DEF CancelLoad, ResolveApproval
<1>6. ASSUME NEW u \in Tasks, NEW i \in Inputs, Submit(u, i) PROVE FALSE
  BY <1>6 DEF Submit
<1>7. CASE Restart
  BY <1>0, <1>7 DEF Restart, Boot, Ready, AppendInterrupted
<1>8. CASE Shutdown \/ Crash \/ UNCHANGED vars
  BY <1>8 DEF Shutdown, Crash, vars
<1>9. QED
  BY <1>1, <1>2, <1>3, <1>4, <1>5, <1>6, <1>7, <1>8 DEF Next, CancelTask

\* A terminal row stays unless a cancel and the supervisor cross between the check and
\* the save of transition_task, for any number of clients, crashes and faults.
THEOREM RowIsFinal == Spec => TerminalRowStays
<1>1. TypeOK /\ RowInv /\ FinalInv /\ [Next]_vars =>
          [\A t \in Tasks : status[t] \in TerminalStatus /\ status'[t] # status[t]
                                => Crossed(t)]_vars
  BY RowWriters
<1>2. QED
  BY <1>1, TypeCorrect, RowsCorrect, FinalCorrect, PTL DEF Spec, TerminalRowStays

-----------------------------------------------------------------------------
(***************************************************************************)
(* One ApprovalResolved                                                    *)
(***************************************************************************)

\* A step that publishes no resolution and brings no call to publish one.
LEMMA ResolvedFrame ==
    ASSUME TypeOK, DecisionIsRow, ResolvedOnce, [Next]_vars,
           \A t \in Tasks : "resolved" \in log'[t] => "resolved" \in log[t],
           \A t \in Tasks, c \in Clients :
               call'[c].task = t /\ call'[c].at = "resolved" => Resolving(c, t)
    PROVE  ResolvedOnce'
<1>1. \A t \in Tasks : approval[t] \in {"approved", "denied", "cancelled"} =>
                           approval'[t] = approval[t]
  BY ApprovalWriters
<1>2. QED
  BY <1>1 DEF ResolvedOnce, Resolving

\* A call publishes the resolution it made; no other is about to.
LEMMA ResolvedPublished ==
    ASSUME TypeOK, ResolvedOnce, NEW c \in Clients, NEW t \in Tasks, Resolving(c, t),
           log' = [log EXCEPT ![t] = log[t] \cup ({"resolved"} \cap EventKinds)],
           UNCHANGED approval,
           \A d \in Clients : \/ call'[d].at # "resolved"
                              \/ d # c /\ call'[d] = call[d]
    PROVE  ResolvedOnce'
<1>1. \A u \in Tasks \ {t} : log'[u] = log[u]
  BY DEF TypeOK
<1>2. \A d \in Clients \ {c} : ~Resolving(d, t)
  BY DEF ResolvedOnce
<1>3. QED
  BY <1>1, <1>2 DEF ResolvedOnce, Resolving

\* A call that resolves a pending row is the only one to do so.
LEMMA ResolvedMade ==
    ASSUME TypeOK, ResolvedOnce, NEW c \in Clients, NEW t \in Tasks, approval[t] = "pending",
           NEW s \in {"approved", "denied", "cancelled"}, approval' = [approval EXCEPT ![t] = s],
           UNCHANGED log, call'[c].task = t, \A d \in Clients \ {c} : call'[d] = call[d]
    PROVE  ResolvedOnce'
<1>1. \A u \in Tasks : approval'[u] = IF u = t THEN s ELSE approval[u]
  BY DEF TypeOK
<1>2. "resolved" \notin log[t] /\ \A d \in Clients : ~Resolving(d, t)
  BY DEF ResolvedOnce
<1>3. QED
  BY <1>1, <1>2 DEF ResolvedOnce, Resolving

\* A request is resolved by one client, which alone publishes it, once.
THEOREM ResolutionIsUnique == Spec => []ResolvedOnce
<1>1. Init => ResolvedOnce
  BY DEF Init, ResolvedOnce, Resolving, NoCall
<1>2. ASSUME TypeOK, DecisionIsRow, ResolvedOnce, [Next]_vars PROVE ResolvedOnce'
  <2> USE <1>2
  <2>1. ASSUME NEW t \in Tasks,
               StartTask(t) \/ SupervisorFault(t) \/ StarterFault(t) \/ \E i \in Inputs : Submit(t, i)
        PROVE  ResolvedOnce'
    <3>1. UNCHANGED <<log, call>>
      BY <2>1 DEF StartTask, CheckPolicy, LockSession, InsertTask, SpawnSupervisor,
         SupervisorFault, StarterFault, Submit
    <3>2. QED
      BY <3>1, ResolvedFrame DEF Resolving
  <2>2. ASSUME NEW t \in Tasks, RunTask(t) PROVE ResolvedOnce'
    <3>1. CASE UNCHANGED <<log, call>>
      BY <3>1, ResolvedFrame DEF Resolving
    <3>2. ASSUME NEW event, event # "resolved", UNCHANGED call,
                 log' = [log EXCEPT ![t] = log[t] \cup ({event} \cap EventKinds)]
          PROVE  ResolvedOnce'
      <4>1. \A u \in Tasks : "resolved" \in log'[u] => "resolved" \in log[u]
        BY <3>2 DEF TypeOK
      <4>2. QED
        BY <3>2, <4>1, ResolvedFrame DEF Resolving
    <3>3. CASE \/ Start(t) \/ Ask(t) \/ Resume(t) \/ Refuse(t) \/ MarkCancelling(t)
               \/ Cancel(t) \/ Complete(t) \/ Fail(t)
      BY <3>1, <3>2, <3>3 DEF Start, Ask, Resume, Refuse, MarkCancelling, Cancel, Complete, Fail,
         TransitionTask, Emit
    <3>4. CASE \/ Load(t) \/ Dispatch(t) \/ Respond(t) \/ Settle(t) \/ Reload(t)
               \/ CheckApproved(t) \/ CheckRefused(t)
      BY <3>1, <3>4 DEF Load, Dispatch, Respond, Settle, Reload, CheckApproved, CheckRefused, Step
    <3>5. CASE \/ Execute(t) \/ RequestApproval(t) \/ Listen(t) \/ Select(t) \/ Abandon(t) \/ Cleanup(t)
      BY <3>1, <3>5 DEF Execute, RequestApproval, Listen, Select, Abandon, Cleanup
    <3>6. CASE AnnounceRequest(t) \/ ReportCancelled(t)
      BY <3>2, <3>6 DEF AnnounceRequest, ReportCancelled, Emit
    <3>7. QED
      BY <2>2, <3>3, <3>4, <3>5, <3>6 DEF RunTask, AwaitApproval
  <2>3. ASSUME NEW c \in Clients, CancelResolved(c) \/ RespondResolved(c) PROVE ResolvedOnce'
    <3>1. call[c].kind \in {"cancel", "respond"} /\ call[c].at = "resolved"
      BY <2>3 DEF CancelResolved, RespondResolved, CallAt
    <3>2. PICK t \in Tasks : t = call[c].task
      BY <3>1, CallTypes DEF TypeOK
    <3>3. /\ log' = [log EXCEPT ![t] = log[t] \cup ({"resolved"} \cap EventKinds)]
          /\ UNCHANGED approval
          /\ CallEnd(c) \/ CallGoto(c, "cancelled") \/ CallGoto(c, "notify")
      BY <2>3, <3>2 DEF CancelResolved, RespondResolved, Emit, AfterClose
    <3>4. \A d \in Clients : \/ call'[d].at # "resolved"
                             \/ d # c /\ call'[d] = call[d]
      BY <3>3 DEF CallEnd, CallGoto, NoCall, TypeOK
    <3>5. QED
      BY <3>1, <3>2, <3>3, <3>4, ResolvedPublished DEF Resolving
  <2>4. ASSUME NEW c \in Clients, CancelClose(c) PROVE ResolvedOnce'
    <3>1. PICK t \in Tasks : t = call[c].task
      BY <2>4, CallTypes DEF CancelClose, CallAt, TypeOK
    <3>2. CASE approval[t] = "pending"
      <4>1. /\ approval' = [approval EXCEPT ![t] = "cancelled"] /\ UNCHANGED log
            /\ CallGoto(c, "resolved")
        BY <2>4, <3>1, <3>2 DEF CancelClose
      <4>2. call'[c].task = t /\ \A d \in Clients \ {c} : call'[d] = call[d]
        BY <3>1, <4>1 DEF CallGoto, TypeOK
      <4>3. QED
        BY <3>2, <4>1, <4>2, ResolvedMade
    <3>3. CASE approval[t] # "pending"
      <4>1. UNCHANGED log /\ (CallEnd(c) \/ CallGoto(c, "cancelled"))
        BY <2>4, <3>1, <3>3 DEF CancelClose, AfterClose
      <4>2. \A d \in Clients : call'[d].at = "resolved" => call'[d] = call[d]
        BY <4>1 DEF CallEnd, CallGoto, NoCall, TypeOK
      <4>3. QED
        BY <4>1, <4>2, ResolvedFrame DEF Resolving
    <3>4. QED
      BY <3>2, <3>3
  <2>5. ASSUME NEW c \in Clients,
               \/ CancelCheck(c) \/ CancelSave(c) \/ CancelSignal(c) \/ RespondNotify(c)
               \/ CallFault(c)
        PROVE  ResolvedOnce'
    <3>1. /\ UNCHANGED log
          /\ CallEnd(c) \/ CallGoto(c, "save") \/ CallGoto(c, "signal") \/ CallGoto(c, "close")
      BY <2>5 DEF CancelCheck, CancelSave, CancelSignal, RespondNotify, CallFault
    <3>2. \A d \in Clients : call'[d].at = "resolved" => call'[d] = call[d]
      BY <3>1 DEF CallEnd, CallGoto, NoCall, TypeOK
    <3>3. QED
      BY <3>1, <3>2, ResolvedFrame DEF Resolving
  <2>6. ASSUME NEW c \in Clients, CancelAnnounce(c) PROVE ResolvedOnce'
    <3>1. CallEnd(c) /\ \E t : log' = [log EXCEPT ![t] = log[t] \cup ({"cancelled"} \cap EventKinds)]
      BY <2>6 DEF CancelAnnounce, Emit
    <3>2. \A u \in Tasks : "resolved" \in log'[u] => "resolved" \in log[u]
      BY <3>1 DEF TypeOK
    <3>3. \A d \in Clients : call'[d].at = "resolved" => call'[d] = call[d]
      BY <3>1 DEF CallEnd, NoCall, TypeOK
    <3>4. QED
      BY <3>2, <3>3, ResolvedFrame DEF Resolving
  <2>7. ASSUME NEW c \in Clients, NEW t \in Tasks, CancelLoad(c, t) PROVE ResolvedOnce'
    <3>1. UNCHANGED log /\ \A d \in Clients : call'[d].at = "resolved" => call'[d] = call[d]
      BY <2>7 DEF CancelLoad, TypeOK
    <3>2. QED
      BY <3>1, ResolvedFrame DEF Resolving
  <2>8. ASSUME NEW c \in Clients, NEW t \in Tasks, NEW choice \in Choices,
               ResolveApproval(c, t, choice)
        PROVE  ResolvedOnce'
    <3>1. /\ approval[t] = "pending" /\ UNCHANGED log
          /\ approval' = [approval EXCEPT ![t] = StatusOf(choice)]
          /\ call'[c].task = t /\ \A d \in Clients \ {c} : call'[d] = call[d]
      BY <2>8 DEF ResolveApproval, TypeOK
    <3>2. StatusOf(choice) \in {"approved", "denied", "cancelled"}
      BY StatusTypes
    <3>3. QED
      BY <3>1, <3>2, ResolvedMade
  <2>9. CASE Crash
    <3>1. UNCHANGED log /\ \A c \in Clients : call'[c].at = "idle"
      BY <2>9 DEF Crash, NoCall
    <3>2. QED
      BY <3>1, ResolvedFrame DEF Resolving
  <2>10. CASE Shutdown \/ Boot \/ Ready \/ UNCHANGED vars
    BY <2>10, ResolvedFrame DEF Shutdown, Boot, Ready, vars, Resolving
  <2>11. ASSUME NEW t \in Tasks, AppendInterrupted(t) PROVE ResolvedOnce'
    <3>1. UNCHANGED call /\ log' = [log EXCEPT ![t] = log[t] \cup ({"failed"} \cap EventKinds)]
      BY <2>11 DEF AppendInterrupted, Emit
    <3>2. \A u \in Tasks : "resolved" \in log'[u] => "resolved" \in log[u]
      BY <3>1 DEF TypeOK
    <3>3. QED
      BY <3>1, <3>2, ResolvedFrame DEF Resolving
  <2>12. QED
    BY <2>1, <2>2, <2>3, <2>4, <2>5, <2>6, <2>7, <2>8, <2>9, <2>10, <2>11
    DEF Next, Restart, CancelTask, RespondApproval
<1>3. QED
  BY <1>1, <1>2, TypeCorrect, DecisionCorrect, PTL DEF Spec

-----------------------------------------------------------------------------
(***************************************************************************)
(* Cancels                                                                 *)
(***************************************************************************)

\* A cancel call that has written its row.
Written(c, t) ==
    call[c].kind = "cancel" /\ call[c].task = t /\ call[c].at \notin {"check", "save"}

\* A supervisor has a registered token; until it has read its row, the row is
\* queued or terminal, a cancel can only end it, and one that has written it did.
HeardInv ==
    /\ \A t \in Tasks :
        /\ Supervised(t) => t \in tokens
        /\ pc[t] \in {"spawn", "load"} => status[t] = "queued" \/ IsTerminal(status[t])
    /\ \A c \in Clients, t \in Tasks :
        pc[t] \in {"spawn", "load"} =>
            /\ call[c].kind = "cancel" /\ call[c].task = t => call[c].next = "cancelled"
            /\ Written(c, t) => IsTerminal(status[t])
    /\ CancelHeard

\* What a cancelled token, a registered one and a call depend on, kept.
HeardKept ==
    /\ \A t \in Tasks : t \in signalled => t \in signalled'
    /\ \A t \in Tasks : t \in tokens => t \in tokens'
    /\ shutdown => shutdown'
    /\ UNCHANGED call

\* A step of one task, which may write its row unless it is still to be read.
LEMMA HeardMove ==
    ASSUME TypeOK, HeardInv, HeardKept, NEW t \in Tasks, NEW to,
           \A u \in Tasks : pc'[u] = IF u = t THEN to ELSE pc[u],
           \A u \in Tasks \ {t} : status'[u] = status[u],
           to \notin {"spawn", "load"},
           to \in SupervisorPC => pc[t] \in SupervisorPC,
           to \in SupervisorPC /\ pc[t] = "load" /\ IsTerminal(status[t]) => to = "cleanup",
           to \in SupervisorPC => pc[t] # "cleanup"
    PROVE  HeardInv'
<1>1. ASSUME NEW u \in Tasks PROVE Cancelled(u) => Cancelled(u)'
  BY <1>1 DEF Cancelled, HeardKept
<1>2. ASSUME NEW c \in Clients, NEW u \in Tasks PROVE Written(c, u)' <=> Written(c, u)
  BY <1>2 DEF Written, HeardKept
<1>3. ASSUME NEW u \in Tasks
      PROVE  /\ Supervised(u)' => u \in tokens'
             /\ pc'[u] \in {"spawn", "load"} => status'[u] = "queued" \/ IsTerminal(status'[u])
  BY <1>3 DEF HeardInv, HeardKept, Supervised
<1>4. ASSUME NEW c \in Clients, NEW u \in Tasks, pc'[u] \in {"spawn", "load"}
      PROVE  /\ call'[c].kind = "cancel" /\ call'[c].task = u => call'[c].next = "cancelled"
             /\ Written(c, u)' => IsTerminal(status'[u])
  BY <1>2, <1>4 DEF HeardInv, HeardKept
<1>5. CancelHeard'
  <2> SUFFICES ASSUME NEW c \in Clients, NEW u \in Tasks,
                      call[c].kind = "cancel", call[c].task = u,
                      call[c].at \in {"close", "resolved", "cancelled"}, pc'[u] \in SupervisorPC
               PROVE  Cancelled(u)' \/ pc'[u] \in {"load", "cleanup"}
    BY DEF CancelHeard, Supervised, HeardKept
  <2>1. Written(c, u) /\ pc[u] \in SupervisorPC
    BY DEF Written
  <2>2. Cancelled(u) \/ pc[u] \in {"load", "cleanup"}
    BY <2>1 DEF HeardInv, CancelHeard, Supervised
  <2>3. CASE Cancelled(u)
    BY <1>1, <2>3
  <2>4. CASE pc[u] \in {"load", "cleanup"}
    <3>1. pc[u] = "load" => IsTerminal(status[u])
      BY <2>1 DEF HeardInv
    <3>2. QED
      BY <2>4, <3>1
  <2>5. QED
    BY <2>2, <2>3, <2>4
<1>6. QED
  BY <1>3, <1>4, <1>5 DEF HeardInv

\* A transition of the supervisor, which is past the reading of its row.
LEMMA HeardTransition ==
    ASSUME TypeOK, HeardInv, NEW t \in Tasks, NEW at \in SupervisorPC, NEW next, NEW event,
           NEW then \in SupervisorPC, TransitionTask(t, at, next, event, then),
           {at, then} \cap {"load", "spawn"} = {}, at # "cleanup"
    PROVE  HeardInv'
<1>1. /\ pc[t] = at /\ UNCHANGED <<tokens, signalled, shutdown, call>>
      /\ OnError(t) \in {"settle", "cleanup"}
  BY DEF TransitionTask, OnError
<1>2. PICK to \in {at, then, OnError(t)} : pc' = [pc EXCEPT ![t] = to]
  <2>1. pc = [pc EXCEPT ![t] = at]
    BY <1>1 DEF TypeOK
  <2>2. QED
    BY <2>1 DEF TransitionTask, Goto
<1>3. \A u \in Tasks : pc'[u] = IF u = t THEN to ELSE pc[u]
  BY <1>2 DEF TypeOK
<1>4. \A u \in Tasks \ {t} : status'[u] = status[u]
  BY DEF TransitionTask, TypeOK
<1>5. HeardKept /\ to \notin {"spawn", "load"} /\ pc[t] \in SupervisorPC
  BY <1>1, <1>2 DEF HeardKept
<1>6. QED
  BY <1>1, <1>3, <1>4, <1>5, HeardMove

\* A step that moves no task and writes no row, but may end or advance calls.
LEMMA HeardCall ==
    ASSUME TypeOK, HeardInv, UNCHANGED <<pc, status, tokens, shutdown>>,
           signalled \subseteq signalled',
           \A d \in Clients : call'[d].kind = "cancel" =>
               /\ call[d].kind = "cancel" /\ call'[d].task = call[d].task
               /\ call'[d].next = call[d].next
               /\ call'[d].at \notin {"check", "save"} => call[d].at \notin {"check", "save"}
               /\ call'[d].at \in {"close", "resolved", "cancelled"} =>
                      \/ call[d].at \in {"close", "resolved", "cancelled"}
                      \/ call[d].task \in tokens => call[d].task \in signalled'
    PROVE  HeardInv'
<1>1. ASSUME NEW u \in Tasks PROVE Cancelled(u) => Cancelled(u)'
  BY <1>1 DEF Cancelled
<1>2. CancelHeard'
  BY <1>1 DEF HeardInv, CancelHeard, Supervised, Cancelled
<1>3. QED
  BY <1>2 DEF HeardInv, Written, Supervised

\* Every step keeps the supervisors within the reach of their cancels.
LEMMA HeardStep ==
    ASSUME TypeOK, RowInv, HeardInv, [Next]_vars
    PROVE  HeardInv'
<1>1. ASSUME NEW t \in Tasks, NEW to, pc' = [pc EXCEPT ![t] = to]
      PROVE  \A u \in Tasks : pc'[u] = IF u = t THEN to ELSE pc[u]
  BY <1>1 DEF TypeOK
<1>2. ASSUME NEW t \in Tasks, StartTask(t) PROVE HeardInv'
  <2>1. CASE CheckPolicy(t) \/ LockSession(t)
    <3>1. PICK to \in {"rejected", "lock", "insert"} : pc' = [pc EXCEPT ![t] = to]
      BY <2>1 DEF CheckPolicy, LockSession, Goto
    <3>2. HeardKept /\ UNCHANGED status
      BY <2>1 DEF CheckPolicy, LockSession, HeardKept
    <3>3. QED
      BY <1>1, <3>1, <3>2, HeardMove DEF SupervisorPC, RunPC, ApprovalPC
  <2>2. CASE InsertTask(t)
    <3>1. status[t] = "absent" /\ \A c \in Clients : call[c].kind = "cancel" => call[c].task # t
      BY <2>2 DEF InsertTask, RowInv, RowlessPC
    <3>2. UNCHANGED <<tokens, signalled, shutdown, call>>
      BY <2>2 DEF InsertTask
    <3>3. CASE UNCHANGED status
      <4>1. pc' = [pc EXCEPT ![t] = "rejected"]
        BY <2>2, <3>1, <3>3 DEF InsertTask, Goto, TypeOK
      <4>2. HeardKept /\ "rejected" \notin SupervisorPC
        BY <3>2 DEF HeardKept, SupervisorPC, RunPC, ApprovalPC
      <4>3. \A u \in Tasks : pc'[u] = IF u = t THEN "rejected" ELSE pc[u]
        BY <4>1 DEF TypeOK
      <4>4. QED
        BY <3>3, <4>2, <4>3, HeardMove
    <3>4. CASE status' = [status EXCEPT ![t] = "queued"]
      <4>1. pc' = [pc EXCEPT ![t] = "spawn"]
        BY <2>2, <3>1, <3>4 DEF InsertTask, Goto, TypeOK
      <4>2. \A u \in Tasks : /\ pc'[u] = IF u = t THEN "spawn" ELSE pc[u]
                             /\ status'[u] = IF u = t THEN "queued" ELSE status[u]
        BY <3>4, <4>1 DEF TypeOK
      <4>3. "spawn" \notin SupervisorPC
        BY DEF SupervisorPC, RunPC, ApprovalPC
      <4>4. QED
        BY <3>1, <3>2, <4>2, <4>3 DEF HeardInv, CancelHeard, Supervised, Written, Cancelled
    <3>5. QED
      BY <2>2, <3>3, <3>4 DEF InsertTask
  <2>3. CASE SpawnSupervisor(t)
    <3>1. /\ pc[t] = "spawn" /\ tokens' = tokens \cup {t}
          /\ UNCHANGED <<status, signalled, shutdown, call>>
          /\ \A u \in Tasks : pc'[u] = IF u = t THEN "load" ELSE pc[u]
      BY <2>3 DEF SpawnSupervisor, Goto, TypeOK
    <3>2. QED
      BY <3>1 DEF HeardInv, CancelHeard, Supervised, Written, Cancelled
  <2>4. QED
    BY <1>2, <2>1, <2>2, <2>3 DEF StartTask
<1>3. ASSUME NEW t \in Tasks, RunTask(t) PROVE HeardInv'
  <2>1. CASE Start(t) \/ Ask(t) \/ Resume(t) \/ Refuse(t)
    BY <2>1, HeardTransition DEF Start, Ask, Resume, Refuse, SupervisorPC, RunPC, ApprovalPC
  <2>2. CASE MarkCancelling(t) \/ Cancel(t) \/ Complete(t) \/ Fail(t)
    BY <2>2, HeardTransition DEF MarkCancelling, Cancel, Complete, Fail, SupervisorPC, RunPC
  <2>3. CASE Load(t)
    <3>1. /\ pc[t] = "load" /\ HeardKept /\ UNCHANGED status
          /\ \E to \in {"start", "cleanup"} :
                 pc' = [pc EXCEPT ![t] = to] /\ (IsTerminal(status[t]) => to = "cleanup")
      BY <2>3 DEF Load, Step, Goto, HeardKept
    <3>2. "load" \in SupervisorPC
      BY DEF SupervisorPC, RunPC
    <3>3. QED
      BY <1>1, <3>1, <3>2, HeardMove
  <2>4. CASE \/ Dispatch(t) \/ Respond(t) \/ Settle(t) \/ Reload(t) \/ CheckApproved(t)
             \/ CheckRefused(t) \/ Execute(t) \/ RequestApproval(t) \/ Listen(t)
             \/ AnnounceRequest(t) \/ Select(t) \/ Abandon(t) \/ ReportCancelled(t)
    <3>1. /\ pc[t] \in SupervisorPC \ {"load", "cleanup"} /\ HeardKept /\ UNCHANGED status
      BY <2>4 DEF Dispatch, Respond, Settle, Reload, CheckApproved, CheckRefused, Step, Execute,
         RequestApproval, Listen, AnnounceRequest, Select, Abandon, ReportCancelled, HeardKept,
         SupervisorPC, RunPC, ApprovalPC
    <3>2. \E to : to \notin {"spawn", "load"} /\ pc' = [pc EXCEPT ![t] = to]
      BY <2>4 DEF Dispatch, Respond, Settle, Reload, CheckApproved, CheckRefused, Step, Execute,
         RequestApproval, Listen, AnnounceRequest, Select, Abandon, ReportCancelled, Goto, Outcome
    <3>3. QED
      BY <1>1, <3>1, <3>2, HeardMove
  <2>5. CASE Cleanup(t)
    <3>1. /\ UNCHANGED <<status, shutdown, call>>
          /\ tokens' = tokens \ {t} /\ signalled' = signalled \ {t}
          /\ \A u \in Tasks : pc'[u] = IF u = t THEN "done" ELSE pc[u]
      BY <2>5 DEF Cleanup, Goto, TypeOK
    <3>2. "done" \notin SupervisorPC
      BY DEF SupervisorPC, RunPC, ApprovalPC
    <3>3. QED
      BY <3>1, <3>2 DEF HeardInv, CancelHeard, Supervised, Written, Cancelled
  <2>6. QED
    BY <1>3, <2>1, <2>2, <2>3, <2>4, <2>5 DEF RunTask, AwaitApproval
<1>4. ASSUME NEW t \in Tasks, SupervisorFault(t) PROVE HeardInv'
  <2>1. /\ pc[t] \in SupervisorPC /\ pc[t] # "cleanup" /\ HeardKept /\ UNCHANGED status
        /\ pc' = [pc EXCEPT ![t] = OnError(t)]
    BY <1>4 DEF SupervisorFault, StorePC, Goto, HeardKept, SupervisorPC, RunPC, ApprovalPC
  <2>2. OnError(t) \in {"settle", "cleanup"} /\ (pc[t] = "load" => OnError(t) = "cleanup")
    BY DEF OnError, ApprovalPC
  <2>3. QED
    BY <1>1, <2>1, <2>2, HeardMove
<1>5. ASSUME NEW t \in Tasks, StarterFault(t) \/ \E i \in Inputs : Submit(t, i)
      PROVE  HeardInv'
  <2>1. HeardKept /\ UNCHANGED status
    BY <1>5 DEF StarterFault, Submit, HeardKept
  <2>2. PICK to \in {"rejected", "leaked", "existing", "gate"} : pc' = [pc EXCEPT ![t] = to]
    BY <1>5 DEF StarterFault, Submit, Goto
  <2>3. QED
    BY <1>1, <2>1, <2>2, HeardMove DEF SupervisorPC, RunPC, ApprovalPC
<1>6. ASSUME NEW c \in Clients,
             \/ CancelCheck(c) \/ CancelSignal(c) \/ CancelClose(c) \/ CancelResolved(c)
             \/ CancelAnnounce(c) \/ RespondApproval(c) \/ CallFault(c)
      PROVE  HeardInv'
  <2>1. /\ UNCHANGED <<pc, status, tokens, shutdown>>
        /\ signalled \subseteq signalled'
    BY <1>6 DEF CancelCheck, CancelSignal, CancelClose, CancelResolved, CancelAnnounce,
       RespondApproval, RespondResolved, RespondNotify, CallFault
  <2>2. \/ CallEnd(c)
        \/ CallGoto(c, "save")
        \/ /\ CallGoto(c, "close") /\ call[c].at = "signal"
           /\ call[c].task \in tokens => call[c].task \in signalled'
        \/ /\ call[c].at \in {"close", "resolved"}
           /\ CallGoto(c, "resolved") \/ CallGoto(c, "cancelled") \/ CallGoto(c, "notify")
    BY <1>6 DEF CancelCheck, CancelSignal, CancelClose, CancelResolved, CancelAnnounce, CallAt,
       RespondApproval, RespondResolved, RespondNotify, CallFault, AfterClose
  <2>3. \A d \in Clients \ {c} : call'[d] = call[d]
    BY <2>2 DEF CallEnd, CallGoto, TypeOK
  <2>4. call'[c].kind = "cancel" =>
            /\ call[c].kind = "cancel" /\ call'[c].task = call[c].task
            /\ call'[c].next = call[c].next
            /\ call'[c].at \notin {"check", "save"} => call[c].at \notin {"check", "save"}
            /\ call'[c].at \in {"close", "resolved", "cancelled"} =>
                   \/ call[c].at \in {"close", "resolved", "cancelled"}
                   \/ call[c].task \in tokens => call[c].task \in signalled'
    BY <2>2 DEF CallEnd, CallGoto, NoCall, TypeOK
  <2>5. QED
    BY <2>1, <2>3, <2>4, HeardCall
<1>7. ASSUME NEW c \in Clients, CancelSave(c) PROVE HeardInv'
  <2>1. /\ call[c].kind = "cancel" /\ call[c].at = "save"
        /\ UNCHANGED <<pc, tokens, signalled, shutdown>>
        /\ \A d \in Clients \ {c} : call'[d] = call[d]
    BY <1>7 DEF CancelSave, CallAt, CallGoto, CallEnd, TypeOK
  <2>2. PICK t \in Tasks : t = call[c].task
    BY <2>1, CallTypes DEF TypeOK
  <2>3. CASE CallEnd(c) /\ UNCHANGED status
    BY <2>1, <2>3, HeardCall DEF CallEnd, NoCall, TypeOK
  <2>4. CASE CallGoto(c, "signal") /\ status' = [status EXCEPT ![t] = call[c].next]
    <3>1. /\ \A u \in Tasks \ {t} : status'[u] = status[u]
          /\ status'[t] = call[c].next
          /\ call'[c].at = "signal" /\ call'[c].task = t /\ call'[c].next = call[c].next
      BY <2>2, <2>4 DEF CallGoto, TypeOK
    <3>2. pc[t] \in {"spawn", "load"} => IsTerminal(status'[t]) /\ call[c].next = "cancelled"
      BY <2>1, <2>2, <3>1 DEF HeardInv, IsTerminal, TerminalStatus
    <3>3. QED
      BY <2>1, <3>1, <3>2 DEF HeardInv, CancelHeard, Supervised, Written, Cancelled
  <2>5. QED
    BY <1>7, <2>2, <2>3, <2>4 DEF CancelSave
<1>8. ASSUME NEW c \in Clients, NEW t \in Tasks, CancelLoad(c, t) PROVE HeardInv'
  <2>1. /\ UNCHANGED <<pc, status, tokens, signalled, shutdown>>
        /\ status[t] \in ActiveStatus
        /\ \A d \in Clients \ {c} : call'[d] = call[d]
        /\ call'[c].task = t /\ call'[c].at = "check"
        /\ status[t] = "queued" => call'[c].next = "cancelled"
    BY <1>8 DEF CancelLoad, TypeOK
  <2>2. pc[t] \in {"spawn", "load"} => status[t] = "queued"
    BY <2>1 DEF HeardInv, IsTerminal, TerminalStatus, ActiveStatus
  <2>3. QED
    BY <2>1, <2>2 DEF HeardInv, CancelHeard, Supervised, Written, Cancelled
<1>9. ASSUME NEW c \in Clients, NEW t \in Tasks, NEW choice \in Choices,
             ResolveApproval(c, t, choice)
      PROVE  HeardInv'
  <2>1. /\ UNCHANGED <<pc, status, tokens, signalled, shutdown>>
        /\ \A d \in Clients : call'[d].kind = "cancel" => call'[d] = call[d]
    BY <1>9 DEF ResolveApproval, TypeOK
  <2>2. QED
    BY <2>1, HeardCall
<1>10. CASE Crash
  <2>1. /\ \A t \in Tasks : pc'[t] \in {"new", "dead"}
        /\ \A c \in Clients : call'[c].kind = "none"
    BY <1>10 DEF Crash, NoCall
  <2>2. {"new", "dead"} \cap SupervisorPC = {}
    BY DEF SupervisorPC, RunPC, ApprovalPC
  <2>3. QED
    BY <2>1, <2>2 DEF HeardInv, CancelHeard, Supervised, Written
<1>11. CASE Boot
  <2>1. /\ UNCHANGED <<pc, tokens, signalled, shutdown, call>>
        /\ \A t \in Tasks : status'[t] = IF status[t] \in ActiveStatus THEN "interrupted"
                                         ELSE status[t]
    BY <1>11 DEF Boot, TypeOK
  <2>2. \A t \in Tasks : status[t] = "queued" \/ IsTerminal(status[t]) => IsTerminal(status'[t])
    BY <2>1 DEF ActiveStatus, IsTerminal, TerminalStatus
  <2>3. QED
    BY <2>1, <2>2 DEF HeardInv, CancelHeard, Supervised, Written, Cancelled
<1>12. CASE Shutdown \/ Ready \/ (\E t \in Tasks : AppendInterrupted(t)) \/ UNCHANGED vars
  <2>1. UNCHANGED <<pc, status, tokens, signalled, call>> /\ (shutdown => shutdown')
    BY <1>12 DEF Shutdown, Ready, AppendInterrupted, vars
  <2>2. QED
    BY <2>1 DEF HeardInv, CancelHeard, Supervised, Written, Cancelled
<1>13. QED
  BY <1>2, <1>3, <1>4, <1>5, <1>6, <1>7, <1>8, <1>9, <1>10, <1>11, <1>12
  DEF Next, Restart, CancelTask

\* Whoever cancelled a task, and whenever: once the call is past the token, the
\* supervisor runs with a cancelled token or never starts the command.
THEOREM CancelIsHeard == Spec => []CancelHeard
<1>1. Init => HeardInv
  BY DEF Init, HeardInv, CancelHeard, Supervised, SupervisorPC, RunPC, ApprovalPC, NoCall, Written
<1>2. TypeOK /\ RowInv /\ HeardInv /\ [Next]_vars => HeardInv'
  BY HeardStep
<1>3. HeardInv => CancelHeard
  BY DEF HeardInv
<1>4. QED
  BY <1>1, <1>2, <1>3, TypeCorrect, RowsCorrect, PTL DEF Spec
=============================================================================
