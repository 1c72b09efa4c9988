----------------------------- MODULE ClientView -----------------------------
(***************************************************************************)
(* What a client shows of the session it has open: the terminal client     *)
(* ("tui") and the desktop client ("desktop").  Both load a snapshot,      *)
(* follow the events after it and put the replies to their own calls into  *)
(* the same view, as these come.                                           *)
(*                                                                         *)
(* They differ in how things arrive - the update loop of the tui reads one *)
(* queue that its subscription and its calls fill, the reducer of the      *)
(* desktop is called by each of them - and in what they do with a snapshot *)
(* they asked for again.  Choosing another session is not modelled.        *)
(***************************************************************************)
EXTENDS SessionServer

CONSTANTS Clients,      \* the clients that are checked: records of the kind of
                        \* client and two bounds on what comes from outside: tasks
                        \* it may start, inputs (the commands of the user, these
                        \* starts included, and subscriptions that break)
          Slots,        \* bound on the requests in flight; the code has none
          QueueSize     \* bound on the events in the queue of the update loop

ASSUME ClientAssumption ==
    /\ \A c \in Clients : c.kind \in {"tui", "desktop"} /\ c.tasks <= MaxTasks /\ c.inputs \in Nat
    /\ Slots # {} /\ QueueSize \in Nat \ {0}

VARIABLES client,     \* which client this is
          view,       \* the session as it is shown, and the last sequence in it
          dialog,     \* Modal of the tui, pendingApproval of the desktop
          feed,       \* the subscription: whether it runs, and its next sequence
          queue,      \* what the update loop has still to read
          request,    \* the requests in flight
          refresh,    \* the desktop has still to ask for a snapshot (refreshVersion)
          \* History, which no action reads:
          stale,      \* something older was put over something newer since a snapshot
          dismissed,  \* approvals whose dialog the user closed
          inputs      \* what has come from outside

clientVars == <<client, view, dialog, feed, queue, request, refresh, stale, dismissed, inputs>>
vars       == <<serverVars, clientVars>>

Calls  == {"start", "cancel", "respond"}
Stages == {"sent", "detail", "watermark", "written", "answered"}
Choices == {"approved", "denied"}  \* "denied" stands for the choice that cancels the task, too

NoReply == [ok |-> TRUE, task |-> 0, status |-> "none", diagnosis |-> 0,
            approvals |-> {}, pending |-> 0, through |-> 0]
Idle == [what |-> "idle", task |-> 0, choice |-> "none", stage |-> "sent", reply |-> NoReply]

\* The view takes a task to be active.
ShowsActive == view.status \in ActiveStatus

\* A bound: the starts in flight and the tasks there are.
MayStart ==
    Cardinality(Started) + Cardinality({i \in Slots : request[i].what = "start"}) < client.tasks

NoDialog    == [shows |-> "none", task |-> 0]
ErrorDialog == [shows |-> "error", task |-> 0]
Approval(t) == [shows |-> "approval", task |-> t]

\* What the two clients keep of a session, and what is on its way to them: the
\* shapes of Model (tui) and AppState (desktop), of their queue and requests.
TypeOK ==
    /\ ServerTypeOK
    /\ client \in Clients
    /\ view \in [open : BOOLEAN, task : Tasks \cup {0}, status : TaskStatus \cup {"none"},
                 diagnosis : Tasks \cup {0}, approvals : SUBSET Tasks, last : Nat]
    /\ dialog \in [shows : {"none", "error", "approval"}, task : Tasks \cup {0}]
    /\ feed \in [on : BOOLEAN, next : Nat]
    /\ \A m \in 1..Len(queue) : queue[m].type \in {"event", "reply", "fatal"}
    /\ \A i \in Slots : /\ request[i].what \in Calls \cup {"snapshot", "idle"}
                        /\ request[i].stage \in Stages
    /\ {refresh, stale} \subseteq BOOLEAN
    /\ dismissed \subseteq Tasks /\ inputs \in 0..client.inputs

-----------------------------------------------------------------------------
(* The requests of the client and the service that answers them *)

Send(what, t, choice) ==
    \E i \in Slots :
        /\ request[i] = Idle
        /\ request' = [request EXCEPT ![i] =
               [what |-> what, task |-> t, choice |-> choice, stage |-> "sent", reply |-> NoReply]]

Input == inputs < client.inputs /\ inputs' = inputs + 1

Command(what, t, choice) ==
    /\ Input
    /\ Send(what, t, choice)

At(i, what, stage) == request[i].what = what /\ request[i].stage = stage

Step(i, stage, reply) ==
    request' = [request EXCEPT ![i] =
        [Idle EXCEPT !.what = request[i].what, !.stage = stage, !.reply = reply]]
Reply(i)  == request[i].reply
Refused   == [NoReply EXCEPT !.ok = FALSE]

OnlyRequests == UNCHANGED <<client, view, dialog, feed, queue, refresh, stale, dismissed, inputs>>

\* session_snapshot: first the stored session with its diagnosis, then the
\* high watermark of its events, then the rows.
ReadDetail(i) ==
    /\ At(i, "snapshot", "sent")
    /\ Step(i, "detail", [NoReply EXCEPT !.diagnosis = diagnosis])
    /\ OnlyRequests /\ UNCHANGED serverVars

ReadWatermark(i) ==
    /\ At(i, "snapshot", "detail")
    /\ Step(i, "watermark", [Reply(i) EXCEPT !.through = Len(log)])
    /\ OnlyRequests /\ UNCHANGED serverVars

ReadRows(i) ==
    /\ At(i, "snapshot", "watermark")
    /\ Step(i, "answered", [Reply(i) EXCEPT !.task = ShownTask.task, !.status = ShownTask.status,
                                            !.approvals = Saved, !.pending = FirstPending])
    /\ OnlyRequests /\ UNCHANGED serverVars

ServeStart(i) ==
    /\ At(i, "start", "sent")
    /\ \/ \E t \in Tasks : StartTask(t) /\ Step(i, "written", [NoReply EXCEPT !.task = t])
       \/ ~CanStart /\ Step(i, "answered", Refused) /\ UNCHANGED serverVars
    /\ OnlyRequests

ServeCancel(i) ==
    /\ At(i, "cancel", "sent")
    /\ LET t == request[i].task
           task(s) == [NoReply EXCEPT !.task = t, !.status = s]
       IN  \/ CancelTask(t) /\ Step(i, "written", task(row'[t]))
           \/ IsTerminal(row[t]) /\ Step(i, "answered", task(row[t])) /\ UNCHANGED serverVars
           \/ row[t] = "cancelling" /\ Step(i, "answered", Refused) /\ UNCHANGED serverVars
    /\ OnlyRequests

ServeRespond(i) ==
    /\ At(i, "respond", "sent")
    /\ LET t == request[i].task
       IN  \/ Respond(t, request[i].choice) /\ Step(i, "written", NoReply)
           \/ ask[t] # "pending" /\ Step(i, "answered", Refused) /\ UNCHANGED serverVars
    /\ OnlyRequests

\* The call has published its events; task/start reads the row once more.
Answer(i) ==
    /\ request[i].stage = "written"
    /\ \/ /\ request[i].what = "start"
          /\ Step(i, "answered", [Reply(i) EXCEPT !.status = row[Reply(i).task]])
       \/ /\ request[i].what # "start" /\ Announced("call")
          /\ Step(i, "answered", Reply(i))
    /\ OnlyRequests /\ UNCHANGED serverVars

Serve(i) ==
    \/ ReadDetail(i) \/ ReadWatermark(i) \/ ReadRows(i)
    \/ ServeStart(i) \/ ServeCancel(i) \/ ServeRespond(i) \/ Answer(i)

-----------------------------------------------------------------------------
(* What both clients do to their view *)

\* Session-less views keep nothing of a task.
WithTask(v, t, s) == IF v.open THEN [v EXCEPT !.task = t, !.status = s] ELSE v

WithEvent(v, n) ==
    LET e == log[n]
        w == [v EXCEPT !.last = n]
    IN  CASE e.kind = "task"      -> WithTask(w, e.task, e.status)
          [] e.kind = "diagnosis" -> [w EXCEPT !.diagnosis = e.task]
          [] OTHER                -> w

\* Mutant: the first event after the snapshot is taken to be in it.
FromSnapshotOneMore(r) ==
    [open |-> TRUE, task |-> r.task, status |-> r.status, diagnosis |-> r.diagnosis,
     approvals |-> r.approvals, last |-> r.through + 1]

FromSnapshot(r) ==
    [open |-> TRUE, task |-> r.task, status |-> r.status, diagnosis |-> r.diagnosis,
     approvals |-> r.approvals, last |-> r.through]

\* The view has shown the end of t, or shows a later task.
EndShown(t) ==
    \E n \in 1..Len(log) : n <= view.last /\ log[n].kind = "task" /\ log[n].task = t /\ IsTerminal(log[n].status)
Outdated(t, s) == view.open /\ (t < view.task \/ (s \in ActiveStatus /\ EndShown(t)))

\* An event that is put into the view although others are missing before it,
\* that is about a task the view has left behind, or that requests an approval
\* whose resolution was published first.
OutOfOrder(n) ==
    \/ n > view.last + 1
    \/ log[n].kind = "requested" /\ \E m \in 1..n : log[m] = Event("resolved", log[n].task, "none")
    \/ log[n].kind = "task" /\ Outdated(log[n].task, log[n].status)

\* The diagnosis of the snapshot is older than its own watermark.
Torn(r) == \E n \in 1..r.through : log[n].kind = "diagnosis" /\ log[n].task > r.diagnosis

-----------------------------------------------------------------------------
(* The tui: subscription and calls post to one queue, the update loop reads it *)

Post(item) == queue' = Append(queue, item)

QueuedEvents == {m \in 1..Len(queue) : queue[m].type = "event"}

TuiForward ==
    /\ feed.on /\ feed.next <= Len(log) /\ Cardinality(QueuedEvents) < QueueSize
    /\ Post([type |-> "event", seq |-> feed.next])
    /\ feed' = [feed EXCEPT !.next = @ + 1]
    /\ UNCHANGED <<serverVars, client, view, dialog, request, refresh, stale, dismissed, inputs>>

\* recv returned an error: a gap, or the end of the stream.
TuiBreak ==
    /\ feed.on /\ Input
    /\ Post([type |-> "fatal"])
    /\ feed' = [feed EXCEPT !.on = FALSE]
    /\ UNCHANGED <<serverVars, client, view, dialog, request, refresh, stale, dismissed>>

TuiPost(i) ==
    /\ request[i].stage = "answered"
    /\ Post([type |-> "reply", what |-> request[i].what, reply |-> Reply(i)])
    /\ request' = [request EXCEPT ![i] = Idle]
    /\ UNCHANGED <<serverVars, client, view, dialog, feed, refresh, stale, dismissed, inputs>>

Taken(type) == queue # <<>> /\ Head(queue).type = type /\ queue' = Tail(queue)

TuiReloads(e) == e.kind \in {"requested", "resolved"} \/ e.status = "completed"

TuiDialog(e) ==
    CASE e.kind = "requested"  -> Approval(e.task)
      [] e.status = "failed"   -> ErrorDialog
      [] OTHER                 -> dialog

\* update drops what it has seen and gives the rest to apply_event.
TuiTakeEvent ==
    /\ Taken("event")
    /\ LET n == Head(queue).seq
       IN  \/ /\ n <= view.last
              /\ UNCHANGED <<view, dialog, request, stale>>
           \/ /\ n > view.last
              /\ view' = WithEvent(view, n)
              /\ dialog' = TuiDialog(log[n])
              /\ stale' = (stale \/ OutOfOrder(n))
              /\ IF TuiReloads(log[n]) THEN Send("snapshot", 0, "none") ELSE UNCHANGED request
    /\ UNCHANGED <<serverVars, client, feed, refresh, dismissed, inputs>>

\* A snapshot replaces everything, the dialog too, and restarts the subscription.
TuiTakeSnapshot ==
    /\ Taken("reply") /\ Head(queue).what = "snapshot"
    /\ LET r == Head(queue).reply
       IN  /\ view' = FromSnapshot(r)
           /\ feed' = [on |-> TRUE, next |-> r.through + 1]
           /\ stale' = Torn(r)
    /\ dialog' = NoDialog
    /\ UNCHANGED <<serverVars, client, request, refresh, dismissed, inputs>>

TuiTakeReply ==
    /\ Taken("reply") /\ Head(queue).what \in Calls
    /\ LET r == Head(queue).reply
       IN  \/ /\ ~r.ok
              /\ dialog' = ErrorDialog
              /\ UNCHANGED <<view, stale>>
           \/ /\ r.ok /\ Head(queue).what = "respond"
              /\ dialog' = NoDialog
              /\ UNCHANGED <<view, stale>>
           \/ /\ r.ok /\ Head(queue).what # "respond"
              /\ view' = WithTask(view, r.task, r.status)
              /\ stale' = (stale \/ Outdated(r.task, r.status))
              /\ UNCHANGED dialog
    /\ UNCHANGED <<serverVars, client, feed, request, refresh, dismissed, inputs>>

TuiTakeFatal ==
    /\ Taken("fatal")
    /\ dialog' = ErrorDialog
    /\ UNCHANGED <<serverVars, client, view, feed, request, refresh, stale, dismissed, inputs>>

\* Keys: a dialog takes all of them.  The slash commands start a task whatever
\* is shown, and cancel the task that is shown whatever its status.
TuiStart  == dialog = NoDialog /\ MayStart /\ Command("start", 0, "none")
TuiCancel == dialog = NoDialog /\ view.task # 0 /\ Command("cancel", view.task, "none")
TuiReopen == dialog = NoDialog /\ Command("snapshot", 0, "none")
TuiAnswer ==
    /\ dialog.shows = "approval" /\ dialog.task \in view.approvals
    /\ \E choice \in Choices : Command("respond", dialog.task, choice)

TuiKey ==
    /\ TuiStart \/ TuiCancel \/ TuiReopen \/ TuiAnswer
    /\ UNCHANGED <<serverVars, client, view, dialog, feed, queue, refresh, stale, dismissed>>

TuiDismiss ==
    /\ dialog # NoDialog
    /\ dialog' = NoDialog
    /\ dismissed' = dismissed \cup ({dialog.task} \cap Tasks)
    /\ UNCHANGED <<serverVars, client, view, feed, queue, request, refresh, stale, inputs>>

Tui ==
    /\ client.kind = "tui"
    /\ \/ TuiForward \/ TuiBreak \/ \E i \in Slots : TuiPost(i)
       \/ TuiTakeEvent \/ TuiTakeSnapshot \/ TuiTakeReply \/ TuiTakeFatal
       \/ TuiKey \/ TuiDismiss

-----------------------------------------------------------------------------
(* The desktop: every event and every reply is reduced as it comes *)

DesktopReloads(e) == e.status \in {"completed", "failed"}

\* Mutant: the resolution of an approval leaves its dialog.
DesktopDialogStays(e) == IF e.kind = "requested" THEN Approval(e.task) ELSE dialog

DesktopDialog(e) ==
    CASE e.kind = "requested"                           -> Approval(e.task)
      [] e.kind = "resolved" /\ dialog.task = e.task    -> NoDialog
      [] OTHER                                          -> dialog

DesktopEvent ==
    /\ feed.on /\ feed.next <= Len(log)
    /\ feed' = [feed EXCEPT !.next = @ + 1]
    /\ LET n == feed.next
       IN  \/ /\ n <= view.last
              /\ UNCHANGED <<view, dialog, refresh, stale>>
           \/ /\ n > view.last
              /\ view' = WithEvent(view, n)
              /\ dialog' = DesktopDialog(log[n])
              /\ refresh' = (refresh \/ DesktopReloads(log[n]))
              /\ stale' = (stale \/ OutOfOrder(n))
    /\ UNCHANGED <<serverVars, client, queue, request, dismissed, inputs>>

\* The forwarding task ends without a word.
DesktopBreak ==
    /\ feed.on /\ Input
    /\ feed' = [feed EXCEPT !.on = FALSE]
    /\ UNCHANGED <<serverVars, client, view, dialog, queue, request, refresh, stale, dismissed>>

\* The effect of refreshVersion; several increments may be one effect.
DesktopRefresh ==
    /\ refresh
    /\ refresh' = FALSE
    /\ Send("snapshot", 0, "none")
    /\ UNCHANGED <<serverVars, client, view, dialog, feed, queue, stale, dismissed, inputs>>

Received(i) == request[i].stage = "answered" /\ request' = [request EXCEPT ![i] = Idle]

\* The subscription starts with the first snapshot and no other one restarts it.
DesktopSnapshot(i) ==
    /\ Received(i) /\ request[i].what = "snapshot"
    /\ LET r == Reply(i)
       IN  /\ view' = FromSnapshot(r)
           /\ dialog' = IF r.pending = 0 THEN NoDialog ELSE Approval(r.pending)
           /\ feed' = IF view.open THEN feed ELSE [on |-> TRUE, next |-> r.through + 1]
           /\ stale' = Torn(r)
    /\ UNCHANGED <<serverVars, client, queue, refresh, dismissed, inputs>>

WouldRegressTerminalTask(r) ==
    view.task = r.task /\ IsTerminal(view.status) /\ ~IsTerminal(r.status)

DesktopReply(i) ==
    /\ Received(i) /\ request[i].what \in Calls
    /\ LET r == Reply(i)
       IN  IF ~r.ok \/ request[i].what = "respond" \/ WouldRegressTerminalTask(r)
             THEN UNCHANGED <<view, stale>>
             ELSE /\ view' = WithTask(view, r.task, r.status)
                  /\ stale' = (stale \/ Outdated(r.task, r.status))
    /\ UNCHANGED <<serverVars, client, dialog, feed, queue, refresh, dismissed, inputs>>

DesktopClick ==
    /\ \/ MayStart /\ Command("start", 0, "none")
       \/ ShowsActive /\ Command("cancel", view.task, "none")
       \/ /\ dialog.shows = "approval"
          /\ \E choice \in Choices : Command("respond", dialog.task, choice)
    /\ UNCHANGED <<serverVars, client, view, dialog, feed, queue, refresh, stale, dismissed>>

Desktop ==
    /\ client.kind = "desktop"
    /\ \/ DesktopEvent \/ DesktopBreak \/ DesktopRefresh \/ DesktopClick
       \/ \E i \in Slots : DesktopSnapshot(i) \/ DesktopReply(i)

-----------------------------------------------------------------------------
\* A session is selected, and its snapshot asked for.
Init ==
    /\ ServerInit
    /\ client \in Clients
    /\ view = [open |-> FALSE, task |-> 0, status |-> "none", diagnosis |-> 0,
               approvals |-> {}, last |-> 0]
    /\ dialog = NoDialog
    /\ feed = [on |-> FALSE, next |-> 1]
    /\ queue = <<>>
    /\ \E s \in Slots :
           request = [i \in Slots |-> IF i = s THEN [Idle EXCEPT !.what = "snapshot"] ELSE Idle]
    /\ refresh = FALSE /\ stale = FALSE /\ dismissed = {} /\ inputs = 0

Service ==
    /\ \/ \E t \in Tasks : Supervise(t)
       \/ \E p \in Publishers : Publish(p)
    /\ UNCHANGED clientVars

Next == Service \/ (\E i \in Slots : Serve(i)) \/ Tui \/ Desktop

Spec == Init /\ [][Next]_vars

-----------------------------------------------------------------------------
(* Properties *)

\* Nothing is on its way, in the service or in the client: a queued task will
\* run and a cancelling one will end without anybody's call.
Quiet ==
    /\ \A t \in Tasks : /\ row[t] \notin {"queued", "cancelling"}
                        /\ row[t] = "waiting_for_approval" => ask[t] = "pending"
    /\ \A p \in Publishers : Announced(p)
    /\ \A i \in Slots : request[i] = Idle
    /\ queue = <<>> /\ ~refresh
    /\ feed.on /\ feed.next > Len(log)

Current == Quiet /\ view.open /\ ~stale /\ view.last = Len(log)

\* The view has its shape; and when nothing is on its way and everything came in order,
\* the client shows
\* the active task of the session if there is one and none otherwise, and the
\* newest diagnosis.  session_snapshot reads the rows after its watermark and
\* the clients drop events up to it, so between them snapshot, events and
\* replies must lose nothing.
QuietViewIsServer ==
    /\ TypeOK
    /\ Current => /\ Active = IF ShowsActive THEN {view.task} ELSE {}
                  /\ view.diagnosis = diagnosis

\* No approval was requested while another one waited.  (An approval that is saved after its
\* task was cancelled waits for good.)
OneAtATime ==
    \A m, n \in DOMAIN log : m < n /\ log[m].kind = "requested" /\ log[n].kind = "requested" =>
        \E r \in m..n : log[r] = Event("resolved", log[m].task, "none")

\* And the desktop then shows no dialog but that of a pending approval: its reducer takes
\* it from the snapshot or from ApprovalRequested and gives it up with ApprovalResolved,
\* whoever resolved it.  Unless approvals waited beside each other, it shows the one that is
\* pending.
DesktopApprovalShown ==
    (Current /\ client.kind = "desktop") =>
        /\ dialog.shows = "approval" => dialog.task \in Pending
        /\ OneAtATime => dialog = IF Pending = {} THEN NoDialog ELSE Approval(FirstPending)

\* docs/protocol.md: an approval comes back with the session snapshot.  The tui
\* then shows the dialog of the pending approval unless the user closed it.
TuiApprovalShown ==
    (Current /\ client.kind = "tui") => \A t \in Pending \ dismissed : dialog = Approval(t)

\* docs/protocol.md: completed, failed and cancelled are final, and no client has
\* a state machine of its own.  So a client at rest does not show as active a
\* task that has ended, whatever order the reply to task/start and the news of
\* the end came in.
EndedTaskIsNotActive ==
    (Quiet /\ view.open /\ ShowsActive) => view.task \in Active
=============================================================================
