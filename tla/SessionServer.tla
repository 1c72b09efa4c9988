---------------------------- MODULE SessionServer ----------------------------
(***************************************************************************)
(* One session as its clients see it: the rows of its tasks and of their   *)
(* approvals, the diagnosis it has stored, and the stream of its events,   *)
(* which trails what is stored because everything is stored first and      *)
(* published afterwards.                                                   *)
(*                                                                         *)
(* It is coarser than TaskSupervisor: no registries, faults or restarts,   *)
(* one step for what a call writes, and a supervisor is the order of the   *)
(* writes of run_task.  The races inside a call are TaskSupervisor's; here *)
(* only the distance between a write and its event matters.                *)
(***************************************************************************)
EXTENDS Naturals, Sequences, FiniteSets, TaskLifecycle

CONSTANTS MaxTasks,  \* bound on tasks; they get their ids in order
          MaxAsks    \* bound on tasks that wait for an approval

ASSUME ServerAssumption == MaxTasks \in Nat \ {0} /\ MaxAsks \in Nat

VARIABLES row,        \* the status of each task's row, "absent" before its INSERT
          ask,        \* the status of the approval of each task
          diagnosis,  \* the task that stored the newest diagnosis, 0 for none
          log,        \* the stored events, in the order of their sequence
          due         \* what the supervisor and a call have still to publish

serverVars == <<row, ask, diagnosis, log, due>>

Tasks      == 1..MaxTasks
Publishers == {"supervisor", "call"}
AskStatus  == {"unsaved", "pending", "approved", "denied", "cancelled"}

\* Only the events that change what a client shows of its task are kept; the
\* session's creation stands for the others.
Event(kind, t, s) == [kind |-> kind, task |-> t, status |-> s]
TaskEvent(t, s)   == Event("task", t, s)
Events == [kind : {"task", "requested", "resolved", "diagnosis", "other"},
           task : Tasks \cup {0}, status : TaskStatus \cup {"none"}]

Started == {t \in Tasks : row[t] # "absent"}
Active  == {t \in Tasks : row[t] \in ActiveStatus}
Asked   == {t \in Tasks : ask[t] # "absent"}
Saved   == Asked \ {t \in Tasks : ask[t] = "unsaved"}
Pending == {t \in Tasks : ask[t] = "pending"}

ServerTypeOK ==
    /\ row \in [Tasks -> TaskStatus \cup {"absent"}]
    /\ ask \in [Tasks -> AskStatus \cup {"absent"}]
    /\ diagnosis \in Tasks \cup {0}
    /\ log \in Seq(Events)
    /\ due \in [Publishers -> Seq(Events)]

ServerInit ==
    /\ row = [t \in Tasks |-> "absent"]
    /\ ask = [t \in Tasks |-> "absent"]
    /\ diagnosis = 0
    /\ log = <<Event("other", 0, "none")>>
    /\ due = [p \in Publishers |-> <<>>]

Announced(p)        == due[p] = <<>>
Announce(p, events) == Announced(p) /\ due' = [due EXCEPT ![p] = events]

-----------------------------------------------------------------------------
(* The supervisor of a task: it publishes what it wrote before it writes    *)
(* again.                                                                   *)

Transition(t, from, to, events) ==
    /\ row[t] = from
    /\ row' = [row EXCEPT ![t] = to]
    /\ Announce("supervisor", events)
    /\ UNCHANGED <<ask, diagnosis, log>>

Run(t)       == Transition(t, "queued", "running", <<TaskEvent(t, "running")>>)
Complete(t)  == Transition(t, "running", "completed", <<TaskEvent(t, "completed")>>)
Fail(t)      == Transition(t, "running", "failed", <<TaskEvent(t, "failed")>>)
EndCancel(t) ==
    /\ ask[t] # "unsaved"
    /\ Transition(t, "cancelling", "cancelled", <<TaskEvent(t, "cancelled")>>)

\* The work of the task stores its diagnosis and then publishes it.  A bound: a
\* task that waits for an approval stores none.
Diagnose(t) ==
    /\ row[t] = "running" /\ diagnosis # t /\ ask[t] = "absent"
    /\ diagnosis' = t
    /\ Announce("supervisor", <<Event("diagnosis", t, "none")>>)
    /\ UNCHANGED <<row, ask, log>>

\* await_task_approval writes the row, then saves the request whatever has become
\* of the row, and publishes the request.
Wait(t) ==
    /\ row[t] = "running" /\ ask[t] = "absent" /\ diagnosis # t
    /\ Cardinality(Asked) < MaxAsks
    /\ Announced("supervisor")
    /\ row' = [row EXCEPT ![t] = "waiting_for_approval"]
    /\ ask' = [ask EXCEPT ![t] = "unsaved"]
    /\ UNCHANGED <<diagnosis, log, due>>

Request(t) ==
    /\ ask[t] = "unsaved"
    /\ ask' = [ask EXCEPT ![t] = "pending"]
    /\ Announce("supervisor", <<Event("requested", t, "none")>>)
    /\ UNCHANGED <<row, diagnosis, log>>

Resume(t) ==
    /\ ask[t] = "approved"
    /\ Transition(t, "waiting_for_approval", "running", <<TaskEvent(t, "running")>>)

Refuse(t) ==
    /\ ask[t] \in {"denied", "cancelled"}
    /\ Transition(t, "waiting_for_approval", "cancelling", <<TaskEvent(t, "cancelling")>>)

Supervise(t) ==
    \/ Run(t) \/ Diagnose(t) \/ Wait(t) \/ Request(t) \/ Resume(t) \/ Refuse(t)
    \/ EndCancel(t) \/ Complete(t) \/ Fail(t)

\* A publisher stores and broadcasts its next event.
Publish(p) ==
    /\ ~Announced(p)
    /\ log' = Append(log, Head(due[p]))
    /\ due' = [due EXCEPT ![p] = Tail(@)]
    /\ UNCHANGED <<row, ask, diagnosis>>

-----------------------------------------------------------------------------
(* What the calls of a client write *)

\* The registry still holds the last task until its supervisor has published.
CanStart == Active = {} /\ Announced("supervisor")

StartTask(t) ==
    /\ CanStart
    /\ t \in Tasks /\ t = Cardinality(Started) + 1
    /\ row' = [row EXCEPT ![t] = "queued"]
    /\ UNCHANGED <<ask, diagnosis, log, due>>

CanCancel(t) == CanTransitionTo(row[t], "cancelled") \/ CanTransitionTo(row[t], "cancelling")

\* A queued task is cancelled at once, another one is left to its supervisor;
\* a pending approval is resolved with it.
CancelTask(t) ==
    /\ row[t] \in {"queued", "running", "waiting_for_approval"}
    /\ row' = [row EXCEPT ![t] = IF @ = "queued" THEN "cancelled" ELSE "cancelling"]
    /\ ask' = [ask EXCEPT ![t] = IF @ = "pending" THEN "cancelled" ELSE @]
    /\ Announce("call",
           (IF ask[t] = "pending" THEN <<Event("resolved", t, "none")>> ELSE <<>>)
           \o (IF row[t] = "queued" THEN <<TaskEvent(t, "cancelled")>> ELSE <<>>))
    /\ UNCHANGED <<diagnosis, log>>

\* approval/respond: the first answer wins.
Respond(t, choice) ==
    /\ ask[t] = "pending"
    /\ ask' = [ask EXCEPT ![t] = choice]
    /\ Announce("call", <<Event("resolved", t, "none")>>)
    /\ UNCHANGED <<row, diagnosis, log>>

-----------------------------------------------------------------------------
(* What session_snapshot reads of the rows: only an active task is shown,   *)
(* approvals are shown whatever their status.                               *)

FirstPending == IF Pending = {} THEN 0 ELSE CHOOSE t \in Pending : \A u \in Pending : t <= u

NoTask == [task |-> 0, status |-> "none"]

ShownTask ==
    IF Active = {} THEN NoTask
    ELSE LET t == CHOOSE t \in Active : TRUE IN [task |-> t, status |-> row[t]]
=============================================================================
