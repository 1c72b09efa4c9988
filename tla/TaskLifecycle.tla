---------------------------- MODULE TaskLifecycle ----------------------------
(***************************************************************************)
(* The status values of a task and the one relation between them that the  *)
(* protocol crate defines.  Every writer of a task row goes through        *)
(* CanTransitionTo except the INSERT of a new row and the restart          *)
(* transaction of the event store.                                         *)
(***************************************************************************)

\* The transitions a status allows; a terminal status allows none.
Successors ==
    [queued               |-> {"running", "cancelled", "failed", "interrupted"},
     running              |-> {"waiting_for_approval", "cancelling", "completed",
                               "failed", "interrupted"},
     waiting_for_approval |-> {"running", "cancelling", "failed", "interrupted"},
     cancelling           |-> {"cancelled", "failed", "interrupted"},
     cancelled            |-> {},
     completed            |-> {},
     failed               |-> {},
     interrupted          |-> {}]

ActiveStatus   == {"queued", "running", "waiting_for_approval", "cancelling"}
TerminalStatus == {"cancelled", "completed", "failed", "interrupted"}
TaskStatus     == ActiveStatus \cup TerminalStatus

IsTerminal(s) == s \in TerminalStatus

CanTransitionTo(s, next) == s \in TaskStatus /\ next \in Successors[s]
=============================================================================
