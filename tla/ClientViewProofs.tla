--------------------------- MODULE ClientViewProofs ---------------------------
(***************************************************************************)
(* Proof that a client at rest shows the session as it is, for any number  *)
(* of tasks, approvals, inputs, requests in flight and queued events.      *)
(***************************************************************************)
EXTENDS ClientView, FiniteSetTheorems, TLAPS

\* A set of naturals has a least one.
LEMMA LeastExists ==
    ASSUME NEW S \in SUBSET Nat, S # {}
    PROVE  \E x \in S : \A y \in S : x <= y
<1> DEFINE R == {ss \in Nat \X Nat : ss[1] < ss[2]}
<1>1. IsWellFoundedOn(R, Nat)
  BY NatLessThanWellFounded DEF OpToRel
<1>2. \E x \in S : \A y \in S : <<y, x>> \notin R
  <2> HIDE DEF R
  <2> QED BY <1>1, WFMin, Zenon
<1>3. ASSUME NEW x \in S, NEW y \in S, <<y, x>> \notin R PROVE x <= y
  BY <1>3
<1> HIDE DEF R
<1> QED BY <1>2, <1>3

-----------------------------------------------------------------------------
(* The server: how its rows and the events it published or still owes      *)
(* belong together                                                         *)

Decided == {"approved", "denied", "cancelled"}
OnRecord == {"pending"} \cup Decided

RequestOf(t)   == Event("requested", t, "none")
ResolutionOf(t) == Event("resolved", t, "none")
DiagnosisOf(t) == Event("diagnosis", t, "none")

\* The members of a sequence, and the events that are published or will be.
Of(s) == {s[n] : n \in 1..Len(s)}
Told  == Of(log) \cup Of(due["supervisor"]) \cup Of(due["call"])

\* What an event says has happened to the rows R, the approvals K and the diagnosis d.
EventFits(R, K, d, e) ==
    /\ e.kind = "task" => /\ e.task \in Tasks /\ R[e.task] # "absent"
                          /\ e.status \in TaskStatus
                          /\ IsTerminal(e.status) => IsTerminal(R[e.task])
    /\ e.kind = "requested" => e.task \in Tasks /\ e = RequestOf(e.task) /\ K[e.task] \in OnRecord
    /\ e.kind = "resolved" => e.task \in Tasks /\ e = ResolutionOf(e.task) /\ K[e.task] \in Decided
    /\ e.kind = "diagnosis" => e.task <= d

\* What has happened to a row is told.
RowIsTold(R, T, t) ==
    /\ IsTerminal(R[t]) => \E s \in TerminalStatus : TaskEvent(t, s) \in T
    /\ R[t] \in {"running", "waiting_for_approval"} => TaskEvent(t, "running") \in T
AskIsTold(K, T, t) ==
    /\ K[t] \in OnRecord => RequestOf(t) \in T
    /\ K[t] \in Decided => ResolutionOf(t) \in T

\* Tasks run one after the other, and an unsaved approval keeps its task from ending.
RowsInOrder ==
    /\ \A t, u \in Tasks : t < u /\ row[u] # "absent" => IsTerminal(row[t])
    /\ \A t \in Tasks : /\ ask[t] = "unsaved" => row[t] \in {"waiting_for_approval", "cancelling"}
                        /\ ask[t] # "absent" => row[t] # "absent"

\* So their diagnoses and the requests of their approvals are told in their order.
EventsInOrder ==
    /\ \A m, n \in 1..Len(log) :
           m < n /\ log[m].kind = "diagnosis" /\ log[n].kind = "diagnosis" => log[m].task <= log[n].task
    /\ \A k \in 1..Len(due["supervisor"]) :
           due["supervisor"][k].kind = "diagnosis" => due["supervisor"][k].task = diagnosis
    /\ \A k \in 1..Len(due["call"]) : due["call"][k].kind \notin {"requested", "diagnosis"}
    /\ \A t, u \in Tasks : u < t /\ row[t] # "absent" /\ ask[u] # "absent" => RequestOf(u) \in Of(log)
    /\ \A t, u \in Tasks : \A n \in 1..Len(log) :
           u < t /\ ask[u] # "absent" /\ log[n] = RequestOf(t) => \E m \in 1..(n - 1) : log[m] = RequestOf(u)

ServerInv ==
    /\ ServerTypeOK
    /\ RowsInOrder
    /\ \A e \in Told : EventFits(row, ask, diagnosis, e)
    /\ \A t \in Tasks : RowIsTold(row, Told, t) /\ AskIsTold(ask, Told, t)
    /\ diagnosis # 0 => row[diagnosis] # "absent" /\ DiagnosisOf(diagnosis) \in Told
    /\ EventsInOrder

\* What the service does to its state, whatever the client is.
ServerNext ==
    \/ \E t \in Tasks : \/ Supervise(t) \/ StartTask(t) \/ CancelTask(t)
                        \/ \E choice \in Choices : Respond(t, choice)
    \/ \E p \in Publishers : Publish(p)

AskGoes(a, b) ==
    \/ a = b
    \/ a = "absent" /\ b = "unsaved"
    \/ a = "unsaved" /\ b = "pending"
    \/ a = "pending" /\ b \in Decided

\* Nothing is taken back: rows, approvals and diagnosis go forward, events are appended.
Grows ==
    /\ Len(log) <= Len(log') /\ \A n \in 1..Len(log) : log'[n] = log[n]
    /\ \A t \in Tasks : /\ row[t] # "absent" => row'[t] # "absent"
                        /\ IsTerminal(row[t]) => IsTerminal(row'[t])
                        /\ AskGoes(ask[t], ask'[t])
    /\ diagnosis <= diagnosis'

\* The service in its first state.
LEMMA ServerStarts ==
    ASSUME ServerAssumption, ServerInit
    PROVE  ServerInv
<1>1. Event("other", 0, "none") \in Events
  BY DEF Event, Events
<1>2. ServerTypeOK
  BY <1>1 DEF ServerInit, ServerTypeOK
<1>3. Told = {Event("other", 0, "none")}
  BY DEF ServerInit, Told, Of, Publishers
<1>4. RowsInOrder
  BY DEF ServerInit, RowsInOrder, Tasks, IsTerminal
<1>5. \A e \in Told : EventFits(row, ask, diagnosis, e)
  BY <1>3 DEF EventFits, Event
<1>6. \A t \in Tasks : RowIsTold(row, Told, t) /\ AskIsTold(ask, Told, t)
  BY DEF ServerInit, RowIsTold, AskIsTold, IsTerminal, TerminalStatus, OnRecord, Decided
<1>7. EventsInOrder
  BY DEF ServerInit, EventsInOrder, Event, Publishers, RequestOf
<1> QED BY <1>2, <1>4, <1>5, <1>6, <1>7 DEF ServerInv, ServerInit

\* A publisher that announces events tells these beside what was told.
LEMMA AnnounceTells ==
    ASSUME ServerTypeOK, NEW p \in Publishers, NEW events \in Seq(Events),
           Announce(p, events), log' = log
    PROVE  /\ Told' = Told \cup Of(events)
           /\ due' \in [Publishers -> Seq(Events)]
           /\ due'[p] = events /\ \A q \in Publishers \ {p} : due'[q] = due[q]
<1>1. due \in [Publishers -> Seq(Events)] /\ due[p] = <<>> /\ due' = [due EXCEPT ![p] = events]
  BY DEF ServerTypeOK, Announce, Announced
<1>2. /\ due' \in [Publishers -> Seq(Events)]
      /\ due'[p] = events /\ \A q \in Publishers \ {p} : due'[q] = due[q]
  BY <1>1
<1>3. Of(due[p]) = {}
  BY <1>1 DEF Of
<1>4. Told' = Of(log') \cup Of(due'["supervisor"]) \cup Of(due'["call"])
  BY DEF Told, Of
<1>5. p = "supervisor" \/ p = "call"
  BY DEF Publishers
<1>6. /\ p = "supervisor" => due'["call"] = due["call"]
      /\ p = "call" => due'["supervisor"] = due["supervisor"]
  BY <1>2 DEF Publishers
<1> HIDE DEF Of
<1>7. CASE p = "supervisor"
  BY <1>2, <1>3, <1>4, <1>6, <1>7 DEF Told
<1>8. CASE p = "call"
  BY <1>2, <1>3, <1>4, <1>6, <1>8 DEF Told
<1> QED BY <1>2, <1>5, <1>7, <1>8

\* An event goes on fitting while nothing is taken back.
LEMMA EventsStayFit ==
    ASSUME ServerInv, Grows, NEW e \in Told, diagnosis' \in Tasks \cup {0}
    PROVE  EventFits(row', ask', diagnosis', e)
<1>1. EventFits(row, ask, diagnosis, e)
  BY DEF ServerInv
<1>2. e \in Events
  <2>1. /\ log \in Seq(Events) /\ due["supervisor"] \in Seq(Events) /\ due["call"] \in Seq(Events)
    BY DEF ServerInv, ServerTypeOK, Publishers
  <2> QED BY <2>1 DEF Told, Of
<1>3. e.kind = "diagnosis" => e.task <= diagnosis'
  <2>1. e.task \in Nat /\ diagnosis \in Nat /\ diagnosis' \in Nat /\ diagnosis <= diagnosis'
    BY <1>2 DEF ServerInv, ServerTypeOK, Grows, Events, Tasks
  <2>2. \A a, b, c \in Nat : a <= b /\ b <= c => a <= c
    OBVIOUS
  <2> QED BY <1>1, <2>1, <2>2, Zenon DEF EventFits
<1>4. ASSUME NEW t \in Tasks
      PROVE  /\ ask[t] \in OnRecord => ask'[t] \in OnRecord
             /\ ask[t] \in Decided => ask'[t] \in Decided
  BY DEF Grows, AskGoes, OnRecord, Decided
<1>5. e.kind = "task" => /\ e.task \in Tasks /\ row'[e.task] # "absent" /\ e.status \in TaskStatus
                         /\ IsTerminal(e.status) => IsTerminal(row'[e.task])
  BY <1>1 DEF EventFits, Grows
<1> QED BY <1>1, <1>3, <1>4, <1>5 DEF EventFits

\* The write of a row that is announced by one event of its task, and leaves the rest
\* alone: six of the supervisor's writes.
LEMMA TransitionKeeps ==
    ASSUME ServerAssumption, ServerInv, NEW t \in Tasks, NEW from \in ActiveStatus, NEW to \in TaskStatus,
           Transition(t, from, to, <<TaskEvent(t, to)>>),
           to \notin {"queued", "waiting_for_approval"},
           to # "cancelling" => ask[t] # "unsaved"
    PROVE  ServerInv' /\ Grows
<1> DEFINE e == TaskEvent(t, to)
<1>1. /\ row[t] = from /\ row' = [row EXCEPT ![t] = to] /\ ask' = ask /\ diagnosis' = diagnosis /\ log' = log
      /\ Announce("supervisor", <<e>>)
  BY DEF Transition
<1>2. ServerTypeOK /\ row \in [Tasks -> TaskStatus \cup {"absent"}] /\ ask \in [Tasks -> AskStatus \cup {"absent"}]
  BY DEF ServerInv, ServerTypeOK
<1>3. e \in Events /\ <<e>> \in Seq(Events) /\ Of(<<e>>) = {e}
  BY DEF TaskEvent, Event, Events, Of
<1>4. /\ Told' = Told \cup {e}
      /\ due' \in [Publishers -> Seq(Events)]
      /\ due'["supervisor"] = <<e>> /\ due'["call"] = due["call"]
  <2>1. "supervisor" \in Publishers /\ "call" \in Publishers \ {"supervisor"}
    BY DEF Publishers
  <2> HIDE DEF e
  <2> QED BY <1>1, <1>2, <1>3, <2>1, AnnounceTells, Zenon
<1>5. /\ row' \in [Tasks -> TaskStatus \cup {"absent"}]
      /\ row'[t] = to /\ \A u \in Tasks \ {t} : row'[u] = row[u]
  BY <1>1, <1>2
<1>6. ~IsTerminal(row[t]) /\ row[t] # "absent" /\ row'[t] # "absent"
  BY <1>1, <1>5 DEF IsTerminal, ActiveStatus, TerminalStatus, TaskStatus
<1>7. Grows
  <2>1. diagnosis <= diagnosis'
    BY <1>1, <1>2 DEF ServerTypeOK, Tasks
  <2>2. ASSUME NEW u \in Tasks
        PROVE  /\ row[u] # "absent" => row'[u] # "absent"
               /\ IsTerminal(row[u]) => IsTerminal(row'[u])
    BY <1>5, <1>6
  <2>3. Len(log) <= Len(log') /\ \A n \in 1..Len(log) : log'[n] = log[n]
    BY <1>1, <1>2 DEF ServerTypeOK
  <2> QED BY <1>1, <2>1, <2>2, <2>3 DEF Grows, AskGoes
<1>8. ServerTypeOK'
  BY <1>1, <1>2, <1>4, <1>5 DEF ServerTypeOK
<1>9. RowsInOrder'
  <2>1. \A u, v \in Tasks : u < v /\ row'[v] # "absent" => IsTerminal(row'[u])
    BY <1>5, <1>6 DEF ServerInv, RowsInOrder
  <2>2. ASSUME NEW u \in Tasks
        PROVE  /\ ask'[u] = "unsaved" => row'[u] \in {"waiting_for_approval", "cancelling"}
               /\ ask'[u] # "absent" => row'[u] # "absent"
    BY <1>1, <1>5, <1>6 DEF ServerInv, RowsInOrder
  <2> QED BY <2>1, <2>2 DEF RowsInOrder
<1>10. \A x \in Told' : EventFits(row', ask', diagnosis', x)
  <2>1. EventFits(row', ask', diagnosis', e)
    BY <1>5, <1>6 DEF EventFits, TaskEvent, Event
  <2>2. diagnosis' \in Tasks \cup {0}
    BY <1>8 DEF ServerTypeOK
  <2> HIDE DEF e
  <2> QED BY <1>4, <1>7, <2>1, <2>2, EventsStayFit, Zenon
<1>11. ASSUME NEW u \in Tasks
       PROVE  RowIsTold(row', Told', u) /\ AskIsTold(ask', Told', u)
  <2>1. RowIsTold(row, Told, u) /\ AskIsTold(ask, Told, u)
    BY DEF ServerInv
  <2>2. RowIsTold(row', Told', u)
    <3>1. CASE u = t
      <4>1. IsTerminal(to) => to \in TerminalStatus /\ e \in Told'
        BY <1>4 DEF IsTerminal
      <4>2. to = "running" => TaskEvent(t, "running") \in Told'
        BY <1>4
      <4> QED BY <1>5, <3>1, <4>1, <4>2 DEF RowIsTold
    <3>2. CASE u # t
      <4> HIDE DEF e
      <4> QED BY <1>4, <1>5, <2>1, <3>2 DEF RowIsTold
    <3> QED BY <3>1, <3>2
  <2>3. AskIsTold(ask', Told', u)
    <3> HIDE DEF e
    <3> QED BY <1>1, <1>4, <2>1 DEF AskIsTold
  <2> QED BY <2>2, <2>3
<1>12. diagnosis' # 0 => row'[diagnosis'] # "absent" /\ DiagnosisOf(diagnosis') \in Told'
  <2>1. diagnosis # 0 => diagnosis \in Tasks /\ row[diagnosis] # "absent" /\ DiagnosisOf(diagnosis) \in Told
    BY <1>2 DEF ServerInv, ServerTypeOK
  <2> HIDE DEF e
  <2> QED BY <1>1, <1>4, <1>5, <1>6, <2>1
<1>13. EventsInOrder'
  <2>1. e.kind = "task"
    BY DEF TaskEvent, Event
  <2>2. /\ \A k \in 1..Len(due'["supervisor"]) : due'["supervisor"][k].kind = "task"
        /\ \A k \in 1..Len(due'["call"]) : due'["call"][k].kind \notin {"requested", "diagnosis"}
    BY <1>1, <1>4, <2>1 DEF ServerInv, EventsInOrder
  <2>3. \A u, v \in Tasks : v < u /\ row'[u] # "absent" /\ ask'[v] # "absent" => RequestOf(v) \in Of(log')
    BY <1>1, <1>5, <1>6 DEF ServerInv, EventsInOrder
  <2> QED BY <1>1, <1>4, <2>2, <2>3 DEF ServerInv, EventsInOrder
<1> QED BY <1>7, <1>8, <1>9, <1>10, <1>11, <1>12, <1>13 DEF ServerInv

\* A running task stores its diagnosis: no later task has one.
LEMMA DiagnoseKeeps ==
    ASSUME ServerAssumption, ServerInv, NEW t \in Tasks, Diagnose(t)
    PROVE  ServerInv' /\ Grows
<1> DEFINE e == DiagnosisOf(t)
<1>1. /\ row[t] = "running" /\ row' = row /\ ask' = ask /\ diagnosis' = t /\ log' = log
      /\ Announce("supervisor", <<e>>)
  BY DEF Diagnose, DiagnosisOf
<1>2. ServerTypeOK /\ row \in [Tasks -> TaskStatus \cup {"absent"}] /\ ask \in [Tasks -> AskStatus \cup {"absent"}]
  BY DEF ServerInv, ServerTypeOK
<1>3. e \in Events /\ <<e>> \in Seq(Events) /\ Of(<<e>>) = {e}
  BY DEF DiagnosisOf, Event, Events, Of
<1>4. /\ Told' = Told \cup {e}
      /\ due' \in [Publishers -> Seq(Events)]
      /\ due'["supervisor"] = <<e>> /\ due'["call"] = due["call"] /\ due["supervisor"] = <<>>
  <2>1. "supervisor" \in Publishers /\ "call" \in Publishers \ {"supervisor"}
    BY DEF Publishers
  <2>2. due["supervisor"] = <<>>
    BY <1>1 DEF Announce, Announced
  <2> HIDE DEF e
  <2> QED BY <1>1, <1>2, <1>3, <2>1, <2>2, AnnounceTells, Zenon
<1>5. diagnosis <= t
  <2>1. diagnosis \in Nat /\ t \in Nat /\ (diagnosis # 0 => diagnosis \in Tasks /\ row[diagnosis] # "absent")
    BY <1>2 DEF ServerInv, ServerTypeOK, Tasks
  <2>2. ~IsTerminal(row[t])
    BY <1>1 DEF IsTerminal, TerminalStatus
  <2>3. diagnosis # 0 => ~(t < diagnosis)
    BY <2>1, <2>2 DEF ServerInv, RowsInOrder
  <2> QED BY <2>1, <2>3
<1>6. Grows
  BY <1>1, <1>2, <1>5 DEF Grows, AskGoes, ServerTypeOK
<1>7. ServerTypeOK'
  BY <1>1, <1>2, <1>4 DEF ServerTypeOK
<1>8. RowsInOrder'
  BY <1>1 DEF ServerInv, RowsInOrder
<1>9. \A x \in Told' : EventFits(row', ask', diagnosis', x)
  <2>1. EventFits(row', ask', diagnosis', e)
    BY <1>1 DEF EventFits, DiagnosisOf, Event, Tasks
  <2>2. diagnosis' \in Tasks \cup {0}
    BY <1>1
  <2> HIDE DEF e
  <2> QED BY <1>4, <1>6, <2>1, <2>2, EventsStayFit, Zenon
<1>10. ASSUME NEW u \in Tasks
       PROVE  RowIsTold(row', Told', u) /\ AskIsTold(ask', Told', u)
  <2>1. RowIsTold(row, Told, u) /\ AskIsTold(ask, Told, u)
    BY DEF ServerInv
  <2> HIDE DEF e
  <2> QED BY <1>1, <1>4, <2>1 DEF RowIsTold, AskIsTold
<1>11. row'[diagnosis'] # "absent" /\ DiagnosisOf(diagnosis') \in Told'
  BY <1>1, <1>4
<1>12. EventsInOrder'
  <2>1. e.task = t
    BY DEF DiagnosisOf, Event
  <2>2. /\ \A k \in 1..Len(due'["supervisor"]) : due'["supervisor"][k].task = diagnosis'
        /\ \A k \in 1..Len(due'["call"]) : due'["call"][k].kind \notin {"requested", "diagnosis"}
    BY <1>1, <1>4, <2>1 DEF ServerInv, EventsInOrder
  <2> QED BY <1>1, <1>4, <2>2 DEF ServerInv, EventsInOrder
<1> QED BY <1>6, <1>7, <1>8, <1>9, <1>10, <1>11, <1>12 DEF ServerInv

\* A running task begins to wait for an approval, which is not saved yet.
LEMMA WaitKeeps ==
    ASSUME ServerAssumption, ServerInv, NEW t \in Tasks, Wait(t)
    PROVE  ServerInv' /\ Grows
<1>1. /\ row[t] = "running" /\ ask[t] = "absent"
      /\ row' = [row EXCEPT ![t] = "waiting_for_approval"] /\ ask' = [ask EXCEPT ![t] = "unsaved"]
      /\ diagnosis' = diagnosis /\ log' = log /\ due' = due
  BY DEF Wait
<1>2. ServerTypeOK /\ row \in [Tasks -> TaskStatus \cup {"absent"}] /\ ask \in [Tasks -> AskStatus \cup {"absent"}]
  BY DEF ServerInv, ServerTypeOK
<1>3. Told' = Told
  BY <1>1 DEF Told, Of
<1>4. /\ row' \in [Tasks -> TaskStatus \cup {"absent"}]
      /\ row'[t] = "waiting_for_approval" /\ \A u \in Tasks \ {t} : row'[u] = row[u]
      /\ ask' \in [Tasks -> AskStatus \cup {"absent"}]
      /\ ask'[t] = "unsaved" /\ \A u \in Tasks \ {t} : ask'[u] = ask[u]
  BY <1>1, <1>2 DEF TaskStatus, ActiveStatus, AskStatus
<1>5. ~IsTerminal(row[t])
  BY <1>1 DEF IsTerminal, TerminalStatus
<1>6. Grows
  <2>1. diagnosis <= diagnosis'
    BY <1>1, <1>2 DEF ServerTypeOK, Tasks
  <2>2. Len(log) <= Len(log') /\ \A n \in 1..Len(log) : log'[n] = log[n]
    BY <1>1, <1>2 DEF ServerTypeOK
  <2>3. \A u \in Tasks : AskGoes(ask[u], ask'[u])
    BY <1>1, <1>4 DEF AskGoes
  <2> QED BY <1>1, <1>4, <1>5, <2>1, <2>2, <2>3 DEF Grows
<1>7. ServerTypeOK'
  BY <1>1, <1>2, <1>4 DEF ServerTypeOK
<1>8. RowsInOrder'
  <2>1. \A u, v \in Tasks : u < v /\ row'[v] # "absent" => IsTerminal(row'[u])
    BY <1>1, <1>4, <1>5 DEF ServerInv, RowsInOrder
  <2> QED BY <1>4, <2>1 DEF ServerInv, RowsInOrder
<1>9. \A x \in Told' : EventFits(row', ask', diagnosis', x)
  BY <1>3, <1>6, <1>7, EventsStayFit DEF ServerTypeOK
<1>10. ASSUME NEW u \in Tasks
       PROVE  RowIsTold(row', Told', u) /\ AskIsTold(ask', Told', u)
  <2>1. /\ RowIsTold(row, Told, u) /\ AskIsTold(ask, Told, u)
        /\ TaskEvent(t, "running") \in Told
    BY <1>1 DEF ServerInv, RowIsTold
  <2>2. ~IsTerminal("waiting_for_approval") /\ "unsaved" \notin OnRecord
    BY DEF IsTerminal, TerminalStatus, OnRecord, Decided
  <2> QED BY <1>3, <1>4, <2>1, <2>2 DEF RowIsTold, AskIsTold, OnRecord
<1>11. diagnosis' # 0 => row'[diagnosis'] # "absent" /\ DiagnosisOf(diagnosis') \in Told'
  <2>1. diagnosis # 0 => diagnosis \in Tasks /\ row[diagnosis] # "absent" /\ DiagnosisOf(diagnosis) \in Told
    BY <1>2 DEF ServerInv, ServerTypeOK
  <2> QED BY <1>1, <1>3, <1>4, <2>1
<1>12. EventsInOrder'
  <2>1. \A u \in Tasks : t < u => row[u] = "absent"
    BY <1>5 DEF ServerInv, RowsInOrder
  <2>2. ASSUME NEW n \in 1..Len(log), NEW u \in Tasks, t < u PROVE log[n] # RequestOf(u)
    <3>1. log[n] \in Told
      BY DEF Told, Of
    <3>2. log[n] = RequestOf(u) => ask[u] \in OnRecord
      BY <3>1 DEF ServerInv, EventFits, RequestOf, Event
    <3>3. ask[u] = "absent"
      BY <2>1, <2>2 DEF ServerInv, RowsInOrder
    <3> QED BY <3>2, <3>3 DEF OnRecord, Decided
  <2>3. \A u, v \in Tasks : v < u /\ row'[u] # "absent" /\ ask'[v] # "absent" => RequestOf(v) \in Of(log')
    BY <1>1, <1>4, <2>1 DEF ServerInv, EventsInOrder
  <2>4. \A u, v \in Tasks : \A n \in 1..Len(log') : v < u /\ ask'[v] # "absent" /\ log'[n] = RequestOf(u) =>
            \E m \in 1..(n - 1) : log'[m] = RequestOf(v)
    BY <1>1, <1>4, <2>2 DEF ServerInv, EventsInOrder
  <2> QED BY <1>1, <2>3, <2>4 DEF ServerInv, EventsInOrder
<1> QED BY <1>6, <1>7, <1>8, <1>9, <1>10, <1>11, <1>12 DEF ServerInv

\* An approval is saved, and its request owed.
LEMMA RequestKeeps ==
    ASSUME ServerAssumption, ServerInv, NEW t \in Tasks, Request(t)
    PROVE  ServerInv' /\ Grows
<1> DEFINE e == RequestOf(t)
<1>1. /\ ask[t] = "unsaved" /\ ask' = [ask EXCEPT ![t] = "pending"]
      /\ row' = row /\ diagnosis' = diagnosis /\ log' = log
      /\ Announce("supervisor", <<e>>)
  BY DEF Request, RequestOf
<1>2. ServerTypeOK /\ row \in [Tasks -> TaskStatus \cup {"absent"}] /\ ask \in [Tasks -> AskStatus \cup {"absent"}]
  BY DEF ServerInv, ServerTypeOK
<1>3. e \in Events /\ <<e>> \in Seq(Events) /\ Of(<<e>>) = {e}
  BY DEF RequestOf, Event, Events, Of
<1>4. /\ Told' = Told \cup {e}
      /\ due' \in [Publishers -> Seq(Events)]
      /\ due'["supervisor"] = <<e>> /\ due'["call"] = due["call"]
  <2>1. "supervisor" \in Publishers /\ "call" \in Publishers \ {"supervisor"}
    BY DEF Publishers
  <2> HIDE DEF e
  <2> QED BY <1>1, <1>2, <1>3, <2>1, AnnounceTells, Zenon
<1>5. /\ ask' \in [Tasks -> AskStatus \cup {"absent"}]
      /\ ask'[t] = "pending" /\ \A u \in Tasks \ {t} : ask'[u] = ask[u]
  BY <1>1, <1>2 DEF AskStatus
<1>6. Grows
  <2>1. diagnosis <= diagnosis'
    BY <1>1, <1>2 DEF ServerTypeOK, Tasks
  <2>2. Len(log) <= Len(log') /\ \A n \in 1..Len(log) : log'[n] = log[n]
    BY <1>1, <1>2 DEF ServerTypeOK
  <2>3. \A u \in Tasks : AskGoes(ask[u], ask'[u])
    BY <1>1, <1>5 DEF AskGoes
  <2> QED BY <1>1, <2>1, <2>2, <2>3 DEF Grows
<1>7. ServerTypeOK'
  BY <1>1, <1>2, <1>4, <1>5 DEF ServerTypeOK
<1>8. RowsInOrder'
  BY <1>1, <1>5 DEF ServerInv, RowsInOrder
<1>9. \A x \in Told' : EventFits(row', ask', diagnosis', x)
  <2>1. EventFits(row', ask', diagnosis', e)
    BY <1>5 DEF EventFits, RequestOf, Event, OnRecord
  <2>2. diagnosis' \in Tasks \cup {0}
    BY <1>7 DEF ServerTypeOK
  <2> HIDE DEF e
  <2> QED BY <1>4, <1>6, <2>1, <2>2, EventsStayFit, Zenon
<1>10. ASSUME NEW u \in Tasks
       PROVE  RowIsTold(row', Told', u) /\ AskIsTold(ask', Told', u)
  <2>1. RowIsTold(row, Told, u) /\ AskIsTold(ask, Told, u)
    BY DEF ServerInv
  <2>2. "pending" \notin Decided
    BY DEF Decided
  <2> QED BY <1>1, <1>4, <1>5, <2>1, <2>2 DEF RowIsTold, AskIsTold
<1>11. diagnosis' # 0 => row'[diagnosis'] # "absent" /\ DiagnosisOf(diagnosis') \in Told'
  <2> HIDE DEF e
  <2> QED BY <1>1, <1>4 DEF ServerInv
<1>12. EventsInOrder'
  <2>1. /\ \A k \in 1..Len(due'["supervisor"]) : due'["supervisor"][k].kind = "requested"
        /\ \A k \in 1..Len(due'["call"]) : due'["call"][k].kind \notin {"requested", "diagnosis"}
    BY <1>1, <1>4 DEF ServerInv, EventsInOrder, RequestOf, Event
  <2>2. \A u \in Tasks : ask'[u] # "absent" <=> ask[u] # "absent"
    BY <1>1, <1>5
  <2> QED BY <1>1, <2>1, <2>2 DEF ServerInv, EventsInOrder
<1> QED BY <1>6, <1>7, <1>8, <1>9, <1>10, <1>11, <1>12 DEF ServerInv

\* A publisher stores its next event, which was told before.
LEMMA PublishKeeps ==
    ASSUME ServerAssumption, ServerInv, NEW p \in Publishers, Publish(p)
    PROVE  ServerInv' /\ Grows
<1> DEFINE e == Head(due[p])
           N == Len(log)
<1>1. /\ row' = row /\ ask' = ask /\ diagnosis' = diagnosis
      /\ due[p] # <<>> /\ log' = Append(log, e) /\ due' = [due EXCEPT ![p] = Tail(@)]
  BY DEF Publish, Announced
<1>2. /\ row \in [Tasks -> TaskStatus \cup {"absent"}] /\ ask \in [Tasks -> AskStatus \cup {"absent"}]
      /\ log \in Seq(Events) /\ due \in [Publishers -> Seq(Events)] /\ diagnosis \in Tasks \cup {0}
  BY DEF ServerInv, ServerTypeOK
<1>3. e \in Events /\ Tail(due[p]) \in Seq(Events)
  BY <1>1, <1>2
<1>4. /\ log' \in Seq(Events) /\ Len(log') = N + 1 /\ N \in Nat /\ log'[N + 1] = e
      /\ \A n \in 1..N : log'[n] = log[n]
  BY <1>1, <1>2, <1>3
<1>5. /\ due' \in [Publishers -> Seq(Events)]
      /\ due'[p] = Tail(due[p]) /\ \A q \in Publishers \ {p} : due'[q] = due[q]
  BY <1>1, <1>2, <1>3
<1>6. /\ due[p] \in Seq(Events) /\ Len(due[p]) >= 1 /\ due[p][1] = e
      /\ Len(Tail(due[p])) = Len(due[p]) - 1 /\ Len(due[p]) \in Nat
      /\ \A k \in 1..Len(Tail(due[p])) : Tail(due[p])[k] = due[p][k + 1]
  BY <1>1, <1>2
<1>7. Of(log') = Of(log) \cup {e}
  BY <1>4 DEF Of
<1>8. Of(due[p]) = Of(due'[p]) \cup {e}
  <2>1. \A k \in 1..Len(due[p]) : k = 1 \/ k - 1 \in 1..Len(Tail(due[p]))
    BY <1>6
  <2>2. ASSUME NEW k \in 1..Len(due[p]) PROVE due[p][k] \in Of(due'[p]) \cup {e}
    <3>1. CASE k = 1
      BY <1>6, <3>1
    <3>2. CASE k # 1
      <4>1. k - 1 \in 1..Len(Tail(due[p])) /\ Tail(due[p])[k - 1] = due[p][k]
        BY <2>1, <1>6, <3>2
      <4> HIDE DEF e
      <4> QED BY <4>1, <1>5 DEF Of
    <3> QED BY <3>1, <3>2
  <2>3. ASSUME NEW k \in 1..Len(due'[p]) PROVE due'[p][k] \in Of(due[p])
    <3>1. k + 1 \in 1..Len(due[p]) /\ due'[p][k] = due[p][k + 1]
      BY <1>5, <1>6
    <3> QED BY <3>1 DEF Of
  <2>4. e \in Of(due[p])
    BY <1>6 DEF Of
  <2> HIDE DEF e
  <2> QED BY <2>2, <2>3, <2>4 DEF Of
<1> HIDE DEF e
<1>9. Told' = Told
  <2>1. Told' = Of(log') \cup Of(due'["supervisor"]) \cup Of(due'["call"])
    BY DEF Told, Of
  <2>2. /\ p = "supervisor" => due'["call"] = due["call"]
        /\ p = "call" => due'["supervisor"] = due["supervisor"]
        /\ p \in {"supervisor", "call"}
    BY <1>5 DEF Publishers
  <2> HIDE DEF Of
  <2> QED BY <1>7, <1>8, <2>1, <2>2 DEF Told
<1>10. e \in Told
  <2>1. e \in Of(due[p])
    BY <1>8
  <2> QED BY <2>1 DEF Told, Publishers
<1>11. Grows
  <2>1. diagnosis <= diagnosis'
    BY <1>1, <1>2 DEF Tasks
  <2>2. N <= N + 1
    BY <1>4
  <2> QED BY <1>1, <1>4, <2>1, <2>2 DEF Grows, AskGoes
<1>12. ServerTypeOK'
  BY <1>1, <1>2, <1>4, <1>5 DEF ServerTypeOK
<1>13. RowsInOrder'
  BY <1>1 DEF ServerInv, RowsInOrder
<1>14. EventsInOrder'
  <2>1. ASSUME NEW m \in 1..(N + 1), NEW n \in 1..(N + 1),
               m < n, log'[m].kind = "diagnosis", log'[n].kind = "diagnosis"
        PROVE  log'[m].task <= log'[n].task
    <3>1. CASE n \in 1..N
      <4>1. m \in 1..N
        BY <1>4, <2>1, <3>1
      <4> QED BY <1>4, <2>1, <3>1, <4>1 DEF ServerInv, EventsInOrder
    <3>2. CASE n = N + 1
      <4>1. m \in 1..N
        BY <1>4, <2>1, <3>2
      <4>2. log[m].kind = "diagnosis" /\ log[m] \in Told
        BY <1>4, <2>1, <4>1 DEF Told, Of
      <4>3. log[m].task <= diagnosis
        BY <4>2 DEF ServerInv, EventFits
      <4>4. e.kind = "diagnosis"
        BY <1>4, <2>1, <3>2
      <4>5. e.task = diagnosis
        <5>1. p \in {"supervisor", "call"}
          BY DEF Publishers
        <5>2. 1 \in 1..Len(due[p])
          BY <1>6
        <5> QED BY <1>6, <4>4, <5>1, <5>2 DEF ServerInv, EventsInOrder
      <4> QED BY <1>4, <3>2, <4>1, <4>3, <4>5
    <3> QED BY <1>4, <3>1, <3>2
  <2>2. /\ \A k \in 1..Len(due'["supervisor"]) :
               due'["supervisor"][k].kind = "diagnosis" => due'["supervisor"][k].task = diagnosis'
        /\ \A k \in 1..Len(due'["call"]) : due'["call"][k].kind \notin {"requested", "diagnosis"}
    <3>1. ASSUME NEW q \in Publishers, NEW k \in 1..Len(due'[q])
          PROVE  \E j \in 1..Len(due[q]) : due'[q][k] = due[q][j]
      <4>1. CASE q # p
        BY <1>5, <3>1, <4>1
      <4>2. CASE q = p
        <5>1. k + 1 \in 1..Len(due[p]) /\ due'[p][k] = due[p][k + 1]
          BY <1>5, <1>6, <3>1, <4>2
        <5> QED BY <4>2, <5>1
      <4> QED BY <4>1, <4>2
    <3>2. "supervisor" \in Publishers /\ "call" \in Publishers
      BY DEF Publishers
    <3> QED BY <1>1, <3>1, <3>2 DEF ServerInv, EventsInOrder
  <2>3. \A t, u \in Tasks : u < t /\ row'[t] # "absent" /\ ask'[u] # "absent" => RequestOf(u) \in Of(log')
    BY <1>1, <1>7 DEF ServerInv, EventsInOrder
  <2>4. ASSUME NEW t \in Tasks, NEW u \in Tasks, NEW n \in 1..(N + 1),
               u < t, ask'[u] # "absent", log'[n] = RequestOf(t)
        PROVE  \E m \in 1..(n - 1) : log'[m] = RequestOf(u)
    <3>1. CASE n \in 1..N
      <4>1. PICK m \in 1..(n - 1) : log[m] = RequestOf(u)
        BY <1>1, <1>4, <2>4, <3>1 DEF ServerInv, EventsInOrder
      <4>2. m \in 1..N
        BY <1>4, <3>1
      <4> QED BY <1>4, <4>1, <4>2
    <3>2. CASE n = N + 1
      <4>1. e = RequestOf(t)
        BY <1>4, <2>4, <3>2
      <4>2. row[t] # "absent"
        <5>1. ask[t] \in OnRecord
          BY <1>10, <4>1 DEF ServerInv, EventFits, RequestOf, Event
        <5>2. ask[t] # "absent"
          BY <5>1 DEF OnRecord, Decided
        <5> QED BY <5>2 DEF ServerInv, RowsInOrder
      <4>3. PICK m \in 1..N : log[m] = RequestOf(u)
        BY <1>1, <2>4, <4>2 DEF ServerInv, EventsInOrder, Of
      <4>4. n - 1 = N
        BY <1>4, <3>2
      <4> QED BY <1>4, <4>3, <4>4
    <3> QED BY <1>4, <3>1, <3>2
  <2> QED BY <1>4, <2>1, <2>2, <2>3, <2>4 DEF EventsInOrder
<1> QED BY <1>1, <1>9, <1>11, <1>12, <1>13, <1>14 DEF ServerInv

\* Tasks get their ids in order.
LEMMA StartedIsInterval ==
    ASSUME ServerAssumption, ServerInv
    PROVE  \E k \in Nat : Started = 1..k /\ Cardinality(Started) = k
<1> DEFINE B == {n \in Nat : \A u \in Started : u <= n}
<1>1. Started \subseteq Tasks /\ \A u \in Tasks : u \in Nat /\ u >= 1 /\ u <= MaxTasks
  BY DEF Started, Tasks
<1>2. B \in SUBSET Nat /\ MaxTasks \in B
  BY <1>1 DEF ServerAssumption
<1>3. PICK k \in B : \A n \in B : k <= n
  <2> HIDE DEF B
  <2> QED BY <1>2, LeastExists
<1>4. k \in Started \/ k = 0
  <2>1. SUFFICES ASSUME k \notin Started, k # 0 PROVE FALSE
    OBVIOUS
  <2>2. \A u \in Started : u \in Nat /\ u <= k /\ u # k
    BY <1>1, <1>3, <2>1
  <2>3. k - 1 \in Nat /\ \A u \in Started : u <= k - 1
    BY <1>3, <2>1, <2>2
  <2> QED BY <1>3, <2>3
<1>5. Started \subseteq 1..k
  BY <1>1, <1>3
<1>6. 1..k \subseteq Started
  <2>1. ASSUME NEW u \in 1..k PROVE u \in Started
    <3>1. k \in Started
      BY <1>3, <1>4
    <3>2. u \in Tasks /\ (u = k \/ u < k)
      BY <1>1, <1>3, <3>1 DEF Tasks, ServerAssumption
    <3>3. u < k => IsTerminal(row[u])
      BY <3>1, <3>2 DEF ServerInv, RowsInOrder, Started
    <3>4. IsTerminal(row[u]) => row[u] # "absent"
      BY DEF IsTerminal, TerminalStatus
    <3> QED BY <3>1, <3>2, <3>3, <3>4 DEF Started
  <2> QED BY <2>1
<1>7. Cardinality(1..k) = k
  BY <1>3, FS_Interval
<1> QED BY <1>3, <1>5, <1>6, <1>7

\* A task is started when none is active.
LEMMA StartKeeps ==
    ASSUME ServerAssumption, ServerInv, NEW t \in Tasks, StartTask(t)
    PROVE  ServerInv' /\ Grows
<1>1. /\ row' = [row EXCEPT ![t] = "queued"] /\ Active = {} /\ due["supervisor"] = <<>>
      /\ ask' = ask /\ diagnosis' = diagnosis /\ log' = log /\ due' = due
  BY DEF StartTask, CanStart, Announced
<1>2. ServerTypeOK /\ row \in [Tasks -> TaskStatus \cup {"absent"}] /\ ask \in [Tasks -> AskStatus \cup {"absent"}]
  BY DEF ServerInv, ServerTypeOK
<1>3. Told' = Told
  BY <1>1 DEF Told, Of
<1>4. /\ row' \in [Tasks -> TaskStatus \cup {"absent"}]
      /\ row'[t] = "queued" /\ \A u \in Tasks \ {t} : row'[u] = row[u]
  BY <1>1, <1>2 DEF TaskStatus, ActiveStatus
<1>5. /\ row[t] = "absent"
      /\ \A u \in Tasks : u < t => IsTerminal(row[u])
      /\ \A u \in Tasks : t < u => row[u] = "absent"
  <2>1. PICK k \in Nat : Started = 1..k /\ t = k + 1
    BY StartedIsInterval DEF StartTask
  <2>2. \A u \in Tasks : u \in Nat /\ u >= 1
    BY DEF Tasks
  <2>3. \A u \in Tasks : (u \in 1..k <=> row[u] # "absent")
    BY <2>1 DEF Started
  <2>4. \A u \in Tasks : u < t <=> u \in 1..k
    BY <2>1, <2>2
  <2>5. \A u \in Tasks : row[u] # "absent" => IsTerminal(row[u])
    BY <1>1, <1>2 DEF Active, IsTerminal, TaskStatus
  <2>6. ~(t < t) /\ \A u \in Tasks : t < u => ~(u < t)
    BY <2>2
  <2> QED BY <2>3, <2>4, <2>5, <2>6
<1>6. Grows
  <2>1. diagnosis <= diagnosis'
    BY <1>1, <1>2 DEF ServerTypeOK, Tasks
  <2>2. Len(log) <= Len(log') /\ \A n \in 1..Len(log) : log'[n] = log[n]
    BY <1>1, <1>2 DEF ServerTypeOK
  <2>3. ~IsTerminal("absent")
    BY DEF IsTerminal, TerminalStatus
  <2> QED BY <1>1, <1>4, <1>5, <2>1, <2>2, <2>3 DEF Grows, AskGoes
<1>7. ServerTypeOK'
  BY <1>1, <1>2, <1>4 DEF ServerTypeOK
<1>8. RowsInOrder'
  <2>1. \A u, v \in Tasks : u < v /\ row'[v] # "absent" => IsTerminal(row'[u])
    <3>1. ASSUME NEW u \in Tasks, NEW v \in Tasks, u < v, row'[v] # "absent"
          PROVE  IsTerminal(row'[u])
      <4>1. u # t
        <5>1. v # t => row[v] # "absent"
          BY <1>4, <3>1
        <5>2. ~(t < t)
          BY DEF Tasks
        <5> QED BY <1>5, <3>1, <5>1, <5>2
      <4>2. CASE v = t
        BY <1>4, <1>5, <3>1, <4>1, <4>2
      <4>3. CASE v # t
        BY <1>4, <3>1, <4>1, <4>3 DEF ServerInv, RowsInOrder
      <4> QED BY <4>2, <4>3
    <3> QED BY <3>1
  <2>2. ask[t] = "absent"
    BY <1>5 DEF ServerInv, RowsInOrder
  <2> QED BY <1>1, <1>4, <2>1, <2>2 DEF ServerInv, RowsInOrder
<1>9. \A x \in Told' : EventFits(row', ask', diagnosis', x)
  BY <1>3, <1>6, <1>7, EventsStayFit DEF ServerTypeOK
<1>10. ASSUME NEW u \in Tasks
       PROVE  RowIsTold(row', Told', u) /\ AskIsTold(ask', Told', u)
  <2>1. /\ RowIsTold(row, Told, u) /\ AskIsTold(ask, Told, u)
    BY DEF ServerInv
  <2>2. ~IsTerminal("queued")
    BY DEF IsTerminal, TerminalStatus
  <2> QED BY <1>1, <1>3, <1>4, <2>1, <2>2 DEF RowIsTold, AskIsTold
<1>11. diagnosis' # 0 => row'[diagnosis'] # "absent" /\ DiagnosisOf(diagnosis') \in Told'
  <2>1. diagnosis # 0 => diagnosis \in Tasks /\ row[diagnosis] # "absent" /\ DiagnosisOf(diagnosis) \in Told
    BY <1>2 DEF ServerInv, ServerTypeOK
  <2> QED BY <1>1, <1>3, <1>4, <2>1
<1>12. EventsInOrder'
  <2>1. ASSUME NEW u \in Tasks, u < t, ask[u] # "absent"
        PROVE  RequestOf(u) \in Of(log)
    <3>1. ask[u] # "unsaved"
      <4>1. IsTerminal(row[u])
        BY <1>5, <2>1
      <4> QED BY <4>1 DEF ServerInv, RowsInOrder, IsTerminal, TerminalStatus
    <3>2. RequestOf(u) \in Told
      BY <1>2, <2>1, <3>1 DEF ServerInv, AskIsTold, OnRecord, Decided, AskStatus
    <3>3. Of(due["supervisor"]) = {}
      BY <1>1 DEF Of
    <3>4. RequestOf(u) \notin Of(due["call"])
      BY DEF Of, ServerInv, EventsInOrder, RequestOf, Event
    <3> QED BY <3>2, <3>3, <3>4 DEF Told
  <2>2. \A u, v \in Tasks : v < u /\ row'[u] # "absent" /\ ask'[v] # "absent" => RequestOf(v) \in Of(log')
    BY <1>1, <1>4, <2>1 DEF ServerInv, EventsInOrder
  <2> QED BY <1>1, <2>2 DEF ServerInv, EventsInOrder
<1> QED BY <1>6, <1>7, <1>8, <1>9, <1>10, <1>11, <1>12 DEF ServerInv

\* The members of two sequences put together.
LEMMA MembersOfBoth ==
    ASSUME NEW s \in Seq(Events), NEW t \in Seq(Events)
    PROVE  s \o t \in Seq(Events) /\ Of(s \o t) = Of(s) \cup Of(t)
<1>1. /\ s \o t \in Seq(Events) /\ Len(s \o t) = Len(s) + Len(t)
      /\ Len(s) \in Nat /\ Len(t) \in Nat
      /\ \A n \in 1..(Len(s) + Len(t)) : (s \o t)[n] = IF n <= Len(s) THEN s[n] ELSE t[n - Len(s)]
  OBVIOUS
<1> DEFINE u == s \o t
<1> HIDE DEF u
<1>2. ASSUME NEW n \in 1..Len(u) PROVE u[n] \in Of(s) \cup Of(t)
  <2>1. n <= Len(s) => n \in 1..Len(s) /\ u[n] = s[n]
    BY <1>1, <1>2 DEF u
  <2>2. ~(n <= Len(s)) => n - Len(s) \in 1..Len(t) /\ u[n] = t[n - Len(s)]
    BY <1>1, <1>2 DEF u
  <2> QED BY <2>1, <2>2 DEF Of
<1>3. ASSUME NEW n \in 1..Len(s) PROVE s[n] \in Of(u)
  <2>1. n \in 1..Len(u) /\ u[n] = s[n]
    BY <1>1, <1>3 DEF u
  <2> QED BY <2>1 DEF Of
<1>4. ASSUME NEW n \in 1..Len(t) PROVE t[n] \in Of(u)
  <2>1. n + Len(s) \in 1..Len(u) /\ u[n + Len(s)] = t[n]
    BY <1>1, <1>4 DEF u
  <2> QED BY <2>1 DEF Of
<1>5. Of(u) = Of(s) \cup Of(t)
  BY <1>2, <1>3, <1>4 DEF Of
<1> QED BY <1>1, <1>5 DEF u

\* A call cancels a task: a queued one at once, and a pending approval with it.
LEMMA CancelKeeps ==
    ASSUME ServerAssumption, ServerInv, NEW t \in Tasks, CancelTask(t)
    PROVE  ServerInv' /\ Grows
<1> DEFINE resolved == IF ask[t] = "pending" THEN <<ResolutionOf(t)>> ELSE <<>>
           ended    == IF row[t] = "queued" THEN <<TaskEvent(t, "cancelled")>> ELSE <<>>
           events   == resolved \o ended
           E == (IF ask[t] = "pending" THEN {ResolutionOf(t)} ELSE {})
                \cup (IF row[t] = "queued" THEN {TaskEvent(t, "cancelled")} ELSE {})
<1>1. /\ row[t] \in {"queued", "running", "waiting_for_approval"}
      /\ row' = [row EXCEPT ![t] = IF @ = "queued" THEN "cancelled" ELSE "cancelling"]
      /\ ask' = [ask EXCEPT ![t] = IF @ = "pending" THEN "cancelled" ELSE @]
      /\ Announce("call", events) /\ diagnosis' = diagnosis /\ log' = log
  BY DEF CancelTask, ResolutionOf
<1>2. ServerTypeOK /\ row \in [Tasks -> TaskStatus \cup {"absent"}] /\ ask \in [Tasks -> AskStatus \cup {"absent"}]
  BY DEF ServerInv, ServerTypeOK
<1>3. events \in Seq(Events) /\ Of(events) = E
  <2>1. ResolutionOf(t) \in Events /\ TaskEvent(t, "cancelled") \in Events
    BY DEF ResolutionOf, TaskEvent, Event, Events, TaskStatus, TerminalStatus
  <2>2. events \in Seq(Events) /\ Of(events) = Of(resolved) \cup Of(ended)
    <3>1. resolved \in Seq(Events) /\ ended \in Seq(Events)
      BY <2>1
    <3> HIDE DEF resolved, ended
    <3> QED BY <3>1, MembersOfBoth DEF events
  <2>3. Of(resolved) = IF ask[t] = "pending" THEN {ResolutionOf(t)} ELSE {}
    BY DEF Of
  <2>4. Of(ended) = IF row[t] = "queued" THEN {TaskEvent(t, "cancelled")} ELSE {}
    BY DEF Of
  <2> HIDE DEF resolved, ended
  <2> QED BY <2>2, <2>3, <2>4
<1> HIDE DEF events
<1>4. /\ Told' = Told \cup E
      /\ due' \in [Publishers -> Seq(Events)]
      /\ due'["call"] = events /\ due'["supervisor"] = due["supervisor"]
  <2>1. "call" \in Publishers /\ "supervisor" \in Publishers \ {"call"}
    BY DEF Publishers
  <2> HIDE DEF E
  <2> QED BY <1>1, <1>2, <1>3, <2>1, AnnounceTells, Zenon
<1>5. /\ row' \in [Tasks -> TaskStatus \cup {"absent"}] /\ ask' \in [Tasks -> AskStatus \cup {"absent"}]
      /\ row'[t] = IF row[t] = "queued" THEN "cancelled" ELSE "cancelling"
      /\ ask'[t] = IF ask[t] = "pending" THEN "cancelled" ELSE ask[t]
      /\ \A u \in Tasks \ {t} : row'[u] = row[u] /\ ask'[u] = ask[u]
  BY <1>1, <1>2 DEF TaskStatus, ActiveStatus, TerminalStatus, AskStatus
<1>6. ~IsTerminal(row[t]) /\ row[t] # "absent" /\ row'[t] # "absent"
  BY <1>1, <1>5 DEF IsTerminal, TerminalStatus
<1>7. Grows
  <2>1. diagnosis <= diagnosis'
    BY <1>1, <1>2 DEF ServerTypeOK, Tasks
  <2>2. Len(log) <= Len(log') /\ \A n \in 1..Len(log) : log'[n] = log[n]
    BY <1>1, <1>2 DEF ServerTypeOK
  <2>3. \A u \in Tasks : AskGoes(ask[u], ask'[u])
    BY <1>5 DEF AskGoes, Decided
  <2> QED BY <1>5, <1>6, <2>1, <2>2, <2>3 DEF Grows
<1>8. ServerTypeOK'
  BY <1>1, <1>2, <1>4, <1>5, <1>3 DEF ServerTypeOK
<1>9. RowsInOrder'
  <2>1. \A u, v \in Tasks : u < v /\ row'[v] # "absent" => IsTerminal(row'[u])
    BY <1>5, <1>6 DEF ServerInv, RowsInOrder
  <2>2. row[t] = "queued" => ask[t] # "unsaved"
    BY DEF ServerInv, RowsInOrder
  <2> QED BY <1>5, <1>6, <2>1, <2>2 DEF ServerInv, RowsInOrder
<1>10. \A x \in Told' : EventFits(row', ask', diagnosis', x)
  <2>1. ASSUME NEW x \in E PROVE EventFits(row', ask', diagnosis', x)
    <3>1. ASSUME x = ResolutionOf(t), ask[t] = "pending" PROVE EventFits(row', ask', diagnosis', x)
      BY <1>5, <3>1 DEF EventFits, ResolutionOf, Event, Decided
    <3>2. ASSUME x = TaskEvent(t, "cancelled"), row[t] = "queued" PROVE EventFits(row', ask', diagnosis', x)
      BY <1>5, <3>2 DEF EventFits, TaskEvent, Event, IsTerminal, TaskStatus, TerminalStatus
    <3> QED BY <3>1, <3>2
  <2>2. diagnosis' \in Tasks \cup {0}
    BY <1>8 DEF ServerTypeOK
  <2> HIDE DEF E
  <2> QED BY <1>4, <1>7, <2>1, <2>2, EventsStayFit, Zenon
<1>11. ASSUME NEW u \in Tasks
       PROVE  RowIsTold(row', Told', u) /\ AskIsTold(ask', Told', u)
  <2>1. RowIsTold(row, Told, u) /\ AskIsTold(ask, Told, u)
    BY DEF ServerInv
  <2>2. CASE u # t
    <3> HIDE DEF E
    <3> QED BY <1>4, <1>5, <2>1, <2>2 DEF RowIsTold, AskIsTold
  <2>3. CASE u = t
    <3>1. RowIsTold(row', Told', t)
      <4>1. CASE row[t] = "queued"
        <5>1. TaskEvent(t, "cancelled") \in Told' /\ row'[t] = "cancelled"
          BY <1>4, <1>5, <4>1
        <5> QED BY <5>1 DEF RowIsTold, TerminalStatus
      <4>2. CASE row[t] # "queued"
        <5>1. row'[t] = "cancelling" /\ ~IsTerminal("cancelling")
          BY <1>5, <4>2 DEF IsTerminal, TerminalStatus
        <5> QED BY <5>1 DEF RowIsTold
      <4> QED BY <4>1, <4>2
    <3>2. AskIsTold(ask', Told', t)
      <4>1. CASE ask[t] = "pending"
        <5>1. ResolutionOf(t) \in Told' /\ Told \subseteq Told'
          BY <1>4, <4>1
        <5>2. RequestOf(t) \in Told
          BY <2>1, <2>3, <4>1 DEF AskIsTold, OnRecord
        <5> QED BY <5>1, <5>2 DEF AskIsTold
      <4>2. CASE ask[t] # "pending"
        <5>1. Told \subseteq Told' /\ ask'[t] = ask[t]
          BY <1>4, <1>5, <4>2
        <5> QED BY <5>1, <2>1, <2>3 DEF AskIsTold
      <4> QED BY <4>1, <4>2
    <3> QED BY <2>3, <3>1, <3>2
  <2> QED BY <2>2, <2>3
<1>12. diagnosis' # 0 => row'[diagnosis'] # "absent" /\ DiagnosisOf(diagnosis') \in Told'
  <2>1. diagnosis # 0 => diagnosis \in Tasks /\ row[diagnosis] # "absent" /\ DiagnosisOf(diagnosis) \in Told
    BY <1>2 DEF ServerInv, ServerTypeOK
  <2> HIDE DEF E
  <2> QED BY <1>1, <1>4, <1>5, <1>6, <2>1
<1>13. EventsInOrder'
  <2>1. \A k \in 1..Len(due'["call"]) : due'["call"][k].kind \notin {"requested", "diagnosis"}
    <3>1. \A k \in 1..Len(events) : events[k] \in E
      BY <1>3 DEF Of
    <3>2. \A x \in E : x.kind \in {"resolved", "task"}
      BY DEF ResolutionOf, TaskEvent, Event
    <3> HIDE DEF E
    <3> QED BY <1>4, <3>1, <3>2
  <2>2. \A u \in Tasks : ask'[u] # "absent" <=> ask[u] # "absent"
    BY <1>5
  <2>3. \A u \in Tasks : row'[u] # "absent" <=> row[u] # "absent"
    BY <1>5, <1>6
  <2> HIDE DEF E
  <2> QED BY <1>1, <1>4, <2>1, <2>2, <2>3 DEF ServerInv, EventsInOrder
<1> QED BY <1>7, <1>8, <1>9, <1>10, <1>11, <1>12, <1>13 DEF ServerInv

\* A call answers a pending approval.
LEMMA RespondKeeps ==
    ASSUME ServerAssumption, ServerInv, NEW t \in Tasks, NEW choice \in Choices, Respond(t, choice)
    PROVE  ServerInv' /\ Grows
<1> DEFINE e == ResolutionOf(t)
<1>1. /\ ask[t] = "pending" /\ ask' = [ask EXCEPT ![t] = choice]
      /\ row' = row /\ diagnosis' = diagnosis /\ log' = log
      /\ Announce("call", <<e>>)
  BY DEF Respond, ResolutionOf
<1>2. ServerTypeOK /\ row \in [Tasks -> TaskStatus \cup {"absent"}] /\ ask \in [Tasks -> AskStatus \cup {"absent"}]
  BY DEF ServerInv, ServerTypeOK
<1>3. e \in Events /\ <<e>> \in Seq(Events) /\ Of(<<e>>) = {e}
  BY DEF ResolutionOf, Event, Events, Of
<1>4. /\ Told' = Told \cup {e}
      /\ due' \in [Publishers -> Seq(Events)]
      /\ due'["call"] = <<e>> /\ due'["supervisor"] = due["supervisor"]
  <2>1. "call" \in Publishers /\ "supervisor" \in Publishers \ {"call"}
    BY DEF Publishers
  <2> HIDE DEF e
  <2> QED BY <1>1, <1>2, <1>3, <2>1, AnnounceTells, Zenon
<1>5. /\ ask' \in [Tasks -> AskStatus \cup {"absent"}] /\ choice \in Decided
      /\ ask'[t] = choice /\ \A u \in Tasks \ {t} : ask'[u] = ask[u]
  BY <1>1, <1>2 DEF AskStatus, Choices, Decided
<1>6. Grows
  <2>1. diagnosis <= diagnosis'
    BY <1>1, <1>2 DEF ServerTypeOK, Tasks
  <2>2. Len(log) <= Len(log') /\ \A n \in 1..Len(log) : log'[n] = log[n]
    BY <1>1, <1>2 DEF ServerTypeOK
  <2>3. \A u \in Tasks : AskGoes(ask[u], ask'[u])
    BY <1>1, <1>5 DEF AskGoes
  <2> QED BY <1>1, <2>1, <2>2, <2>3 DEF Grows
<1>7. ServerTypeOK'
  BY <1>1, <1>2, <1>4, <1>5 DEF ServerTypeOK
<1>8. RowsInOrder'
  BY <1>1, <1>5 DEF ServerInv, RowsInOrder, Decided
<1>9. \A x \in Told' : EventFits(row', ask', diagnosis', x)
  <2>1. EventFits(row', ask', diagnosis', e)
    BY <1>5 DEF EventFits, ResolutionOf, Event
  <2>2. diagnosis' \in Tasks \cup {0}
    BY <1>7 DEF ServerTypeOK
  <2> HIDE DEF e
  <2> QED BY <1>4, <1>6, <2>1, <2>2, EventsStayFit, Zenon
<1>10. ASSUME NEW u \in Tasks
       PROVE  RowIsTold(row', Told', u) /\ AskIsTold(ask', Told', u)
  <2>1. RowIsTold(row, Told, u) /\ AskIsTold(ask, Told, u) /\ RequestOf(t) \in Told
    BY <1>1 DEF ServerInv, AskIsTold, OnRecord
  <2> QED BY <1>1, <1>4, <1>5, <2>1 DEF RowIsTold, AskIsTold
<1>11. diagnosis' # 0 => row'[diagnosis'] # "absent" /\ DiagnosisOf(diagnosis') \in Told'
  <2> HIDE DEF e
  <2> QED BY <1>1, <1>4 DEF ServerInv
<1>12. EventsInOrder'
  <2>1. \A k \in 1..Len(due'["call"]) : due'["call"][k].kind \notin {"requested", "diagnosis"}
    BY <1>4 DEF ResolutionOf, Event
  <2>2. \A u \in Tasks : ask'[u] # "absent" <=> ask[u] # "absent"
    BY <1>1, <1>5 DEF Decided
  <2> HIDE DEF e
  <2> QED BY <1>1, <1>4, <2>1, <2>2 DEF ServerInv, EventsInOrder
<1> QED BY <1>6, <1>7, <1>8, <1>9, <1>10, <1>11, <1>12 DEF ServerInv

\* Whatever the service does keeps its invariant and takes nothing back.
LEMMA ServerKeeps ==
    ASSUME ServerAssumption, ServerInv, ServerNext
    PROVE  ServerInv' /\ Grows
<1>1. ASSUME NEW t \in Tasks, Supervise(t) PROVE ServerInv' /\ Grows
  <2>1. /\ ask[t] = "unsaved" => row[t] \in {"waiting_for_approval", "cancelling"}
        /\ {"queued", "running", "waiting_for_approval", "cancelling"} \subseteq ActiveStatus
        /\ {"running", "completed", "failed", "cancelled", "cancelling"} \subseteq TaskStatus
    BY DEF ServerInv, RowsInOrder, TaskStatus, ActiveStatus, TerminalStatus
  <2>2. CASE Run(t)
    <3>1. ask[t] # "unsaved" /\ Transition(t, "queued", "running", <<TaskEvent(t, "running")>>)
      BY <2>1, <2>2 DEF Run, Transition
    <3> QED BY <2>1, <3>1, TransitionKeeps
  <2>3. CASE Complete(t)
    <3>1. ask[t] # "unsaved" /\ Transition(t, "running", "completed", <<TaskEvent(t, "completed")>>)
      BY <2>1, <2>3 DEF Complete, Transition
    <3> QED BY <2>1, <3>1, TransitionKeeps
  <2>4. CASE Fail(t)
    <3>1. ask[t] # "unsaved" /\ Transition(t, "running", "failed", <<TaskEvent(t, "failed")>>)
      BY <2>1, <2>4 DEF Fail, Transition
    <3> QED BY <2>1, <3>1, TransitionKeeps
  <2>5. CASE EndCancel(t)
    <3>1. ask[t] # "unsaved" /\ Transition(t, "cancelling", "cancelled", <<TaskEvent(t, "cancelled")>>)
      BY <2>5 DEF EndCancel
    <3> QED BY <2>1, <3>1, TransitionKeeps
  <2>6. CASE Resume(t)
    <3>1. ask[t] # "unsaved" /\ Transition(t, "waiting_for_approval", "running", <<TaskEvent(t, "running")>>)
      BY <2>6 DEF Resume
    <3> QED BY <2>1, <3>1, TransitionKeeps
  <2>7. CASE Refuse(t)
    <3>1. Transition(t, "waiting_for_approval", "cancelling", <<TaskEvent(t, "cancelling")>>)
      BY <2>7 DEF Refuse
    <3> QED BY <2>1, <3>1, TransitionKeeps
  <2> QED BY <1>1, <2>2, <2>3, <2>4, <2>5, <2>6, <2>7, DiagnoseKeeps, WaitKeeps, RequestKeeps
          DEF Supervise
<1> QED BY <1>1, StartKeeps, CancelKeeps, RespondKeeps, PublishKeeps DEF ServerNext

-----------------------------------------------------------------------------
(* The client: what it shows, and what is on its way to it, fits the server *)

\* A task and its status fit the rows R and the first n events of the log L: what is
\* shown as active has not been told to end, and what was told to run and still is
\* active is shown.
TaskFits(R, L, task, status, n) ==
    /\ status \in ActiveStatus =>
           /\ task \in Tasks /\ R[task] # "absent"
           /\ \A m \in 1..n : \A s \in TerminalStatus : L[m] # TaskEvent(task, s)
    /\ \A t \in Tasks : \A m \in 1..n :
           R[t] \in ActiveStatus /\ L[m] = TaskEvent(t, "running") => task = t /\ status \in ActiveStatus

\* A diagnosis is stored, and none of the first n events tells a newer one.
DiagnosisFits(d, L, shown, n) ==
    /\ shown <= d
    /\ \A m \in 1..n : L[m].kind = "diagnosis" => L[m].task <= shown

\* An approval (0 for none) is saved and the first n events do not resolve it; if the
\* approvals K waited one at a time, it is the one requested there that still waits.
Serial(L) ==
    \A m, n \in DOMAIN L : m < n /\ L[m].kind = "requested" /\ L[n].kind = "requested" =>
        \E r \in m..n : L[r] = Event("resolved", L[m].task, "none")
DialogFits(K, L, p, n) ==
    /\ p # 0 => p \in Tasks /\ K[p] \in OnRecord /\ \A m \in 1..n : L[m] # ResolutionOf(p)
    /\ \A t \in Tasks : \A m \in 1..n :
           Serial(L) /\ K[t] = "pending" /\ L[m] = RequestOf(t) => p = t

\* What a request has read at each stage, for the rows R, approvals K, diagnosis d and log L.
SnapshotFits(R, K, d, L, stage, r) ==
    /\ stage # "sent" => r.diagnosis <= d
    /\ stage \in {"watermark", "answered"} => r.through <= Len(L)
    /\ stage = "answered" => /\ TaskFits(R, L, r.task, r.status, r.through)
                             /\ DialogFits(K, L, r.pending, r.through)
CallFits(R, what, stage, r) ==
    /\ stage = "written" => r.ok
    /\ r.ok /\ stage \in {"written", "answered"} =>
           /\ r.task \in Tasks /\ R[r.task] # "absent"
           /\ stage = "answered" \/ what = "cancel" =>
                  r.status \in TaskStatus /\ (IsTerminal(r.status) => IsTerminal(R[r.task]))
ReplyFits(R, K, d, L, what, stage, r) ==
    /\ what = "snapshot" => stage # "written" /\ SnapshotFits(R, K, d, L, stage, r)
    /\ what \in {"start", "cancel"} => CallFits(R, what, stage, r)

Replies  == [ok : BOOLEAN, task : Tasks \cup {0}, status : TaskStatus \cup {"none"},
             diagnosis : Tasks \cup {0}, approvals : SUBSET Tasks, pending : Tasks \cup {0},
             through : Nat]
Requests == [what : Calls \cup {"snapshot", "idle"}, task : Tasks \cup {0},
             choice : Choices \cup {"none"}, stage : Stages, reply : Replies]
Items    == [type : {"event"}, seq : Nat \ {0}]
            \cup [type : {"reply"}, what : Calls \cup {"snapshot"}, reply : Replies]
            \cup [type : {"fatal"}]
Views    == {v \in [open : BOOLEAN, task : Tasks \cup {0}, status : TaskStatus \cup {"none"},
                    diagnosis : Tasks \cup {0}, approvals : SUBSET Tasks, last : Nat] :
                v.status \in ActiveStatus => v.task # 0}

RequestFits(R, K, d, L, q) ==
    /\ ReplyFits(R, K, d, L, q.what, q.stage, q.reply)
    /\ q.what = "idle" => q.stage = "sent"
    /\ q.what \in {"cancel", "respond"} /\ q.stage = "sent" => q.task \in Tasks
    /\ q.what = "respond" /\ q.stage = "sent" => q.choice \in Choices
ItemFits(R, K, d, L, m) ==
    /\ m.type = "event" => m.seq <= Len(L)
    /\ m.type = "reply" => ReplyFits(R, K, d, L, m.what, "answered", m.reply)

Shapes ==
    /\ client \in Clients
    /\ view \in Views
    /\ dialog \in [shows : {"none", "error", "approval"}, task : Tasks \cup {0}]
    /\ client.kind = "desktop" => dialog = NoDialog \/ (dialog.task # 0 /\ dialog.shows = "approval")
    /\ feed \in [on : BOOLEAN, next : Nat \ {0}]
    /\ queue \in Seq(Items)
    /\ request \in [Slots -> Requests]
    /\ refresh \in BOOLEAN /\ stale \in BOOLEAN
    /\ dismissed \subseteq Tasks /\ inputs \in 0..client.inputs

ViewFits ==
    /\ TaskFits(row, log, view.task, view.status, view.last)
    /\ DiagnosisFits(diagnosis, log, view.diagnosis, view.last)
    /\ client.kind = "desktop" => DialogFits(ask, log, dialog.task, view.last)

ClientInv ==
    /\ Shapes
    /\ \A i \in Slots : RequestFits(row, ask, diagnosis, log, request[i])
    /\ \A m \in 1..Len(queue) : ItemFits(row, ask, diagnosis, log, queue[m])
    /\ view.last <= Len(log)
    /\ view.open /\ ~stale => ViewFits

Inv == ServerInv /\ ClientInv

\* What fits goes on to fit while the service takes nothing back.
LEMMA TaskStaysFit ==
    ASSUME ServerInv, Grows, NEW task, NEW status, NEW n \in 0..Len(log),
           TaskFits(row, log, task, status, n)
    PROVE  TaskFits(row', log', task, status, n)
<1>1. Len(log) \in Nat /\ \A m \in 1..n : m \in 1..Len(log) /\ log'[m] = log[m] /\ log[m] \in Told
  <2>1. Len(log) \in Nat
    BY DEF ServerInv, ServerTypeOK
  <2>2. \A m \in 1..n : m \in 1..Len(log)
    BY <2>1
  <2> QED BY <2>1, <2>2 DEF Grows, Told, Of
<1>2. status \in ActiveStatus =>
           /\ task \in Tasks /\ row'[task] # "absent"
           /\ \A m \in 1..n : \A s \in TerminalStatus : log'[m] # TaskEvent(task, s)
  BY <1>1 DEF TaskFits, Grows
<1>3. ASSUME NEW t \in Tasks, NEW m \in 1..n, row'[t] \in ActiveStatus, log'[m] = TaskEvent(t, "running")
      PROVE  task = t /\ status \in ActiveStatus
  <2>1. log[m] = TaskEvent(t, "running") /\ row[t] # "absent"
    <3>1. EventFits(row, ask, diagnosis, log[m])
      BY <1>1 DEF ServerInv
    <3> QED BY <1>1, <1>3, <3>1 DEF EventFits, TaskEvent, Event
  <2>2. row[t] \in ActiveStatus
    <3>1. ~IsTerminal(row'[t])
      BY <1>3 DEF IsTerminal, ActiveStatus, TerminalStatus
    <3>2. ~IsTerminal(row[t])
      BY <3>1 DEF Grows
    <3> QED BY <2>1, <3>2 DEF ServerInv, ServerTypeOK, IsTerminal, TaskStatus
  <2> QED BY <2>1, <2>2 DEF TaskFits
<1> QED BY <1>2, <1>3 DEF TaskFits

\* Nor does a later event spoil what a view or a reply knows of the diagnosis.
LEMMA DiagnosisStaysFit ==
    ASSUME ServerInv, ServerTypeOK', Grows, NEW d \in Tasks \cup {0}, NEW n \in 0..Len(log),
           DiagnosisFits(diagnosis, log, d, n)
    PROVE  DiagnosisFits(diagnosis', log', d, n)
<1>1. \A m \in 1..n : log'[m] = log[m]
  <2>1. Len(log) \in Nat
    BY DEF ServerInv, ServerTypeOK
  <2> QED BY <2>1 DEF Grows
<1>2. d <= diagnosis'
  <2>1. d \in Nat /\ diagnosis \in Nat /\ diagnosis' \in Nat
    BY DEF ServerInv, ServerTypeOK, Tasks
  <2> QED BY <2>1 DEF DiagnosisFits, Grows
<1> QED BY <1>1, <1>2 DEF DiagnosisFits

\* The same of a dialog: what it shows is what the log up to n says.
LEMMA DialogStaysFit ==
    ASSUME ServerInv, ServerTypeOK', Grows, NEW p, NEW n \in 0..Len(log),
           DialogFits(ask, log, p, n)
    PROVE  DialogFits(ask', log', p, n)
<1>1. /\ Len(log) \in Nat /\ Len(log') \in Nat /\ Len(log) <= Len(log')
      /\ \A m \in 1..Len(log) : log'[m] = log[m]
  BY DEF ServerInv, ServerTypeOK, Grows
<1>2. \A m \in 1..n : m \in 1..Len(log) /\ log'[m] = log[m] /\ log[m] \in Told
  BY <1>1 DEF Told, Of
<1>3. p # 0 => p \in Tasks /\ ask'[p] \in OnRecord /\ \A m \in 1..n : log'[m] # ResolutionOf(p)
  BY <1>2 DEF DialogFits, Grows, AskGoes, OnRecord, Decided
<1>4. Serial(log') => Serial(log)
  <2>1. DOMAIN log = 1..Len(log) /\ DOMAIN log' = 1..Len(log')
    BY DEF ServerInv, ServerTypeOK
  <2>2. \A m \in DOMAIN log : m \in DOMAIN log' /\ log'[m] = log[m]
    BY <1>1, <2>1
  <2>3. ASSUME NEW m \in DOMAIN log, NEW k \in DOMAIN log, NEW r \in m..k
        PROVE  r \in DOMAIN log
    BY <1>1, <2>1
  <2> QED BY <2>2, <2>3 DEF Serial
<1>5. ASSUME NEW t \in Tasks, NEW m \in 1..n, Serial(log'), ask'[t] = "pending", log'[m] = RequestOf(t)
      PROVE  p = t
  <2>1. log[m] = RequestOf(t) /\ ask[t] \in OnRecord
    <3>1. EventFits(row, ask, diagnosis, log[m])
      BY <1>2 DEF ServerInv
    <3> QED BY <1>2, <1>5, <3>1 DEF EventFits, RequestOf, Event
  <2>2. ask[t] = "pending"
    BY <1>5, <2>1 DEF Grows, AskGoes, OnRecord, Decided
  <2> QED BY <1>4, <1>5, <2>1, <2>2 DEF DialogFits
<1> QED BY <1>3, <1>5 DEF DialogFits

\* The same of a reply on its way.
LEMMA ReplyStaysFit ==
    ASSUME ServerInv, ServerTypeOK', Grows, NEW what, NEW stage \in Stages, NEW r \in Replies,
           ReplyFits(row, ask, diagnosis, log, what, stage, r)
    PROVE  ReplyFits(row', ask', diagnosis', log', what, stage, r)
<1>1. CASE what = "snapshot"
  <2>1. stage # "written" /\ SnapshotFits(row, ask, diagnosis, log, stage, r)
    BY <1>1 DEF ReplyFits
  <2>2. /\ r.diagnosis \in Nat /\ diagnosis \in Nat /\ diagnosis' \in Nat /\ diagnosis <= diagnosis'
        /\ r.through \in Nat /\ Len(log) \in Nat /\ Len(log') \in Nat /\ Len(log) <= Len(log')
    BY DEF ServerInv, ServerTypeOK, Grows, Replies, Tasks
  <2>3. stage # "sent" => r.diagnosis <= diagnosis'
    BY <2>1, <2>2 DEF SnapshotFits
  <2>4. stage \in {"watermark", "answered"} => r.through <= Len(log')
    BY <2>1, <2>2 DEF SnapshotFits
  <2>5. ASSUME stage = "answered"
        PROVE  /\ TaskFits(row', log', r.task, r.status, r.through)
               /\ DialogFits(ask', log', r.pending, r.through)
    <3>1. /\ r.through \in 0..Len(log)
          /\ TaskFits(row, log, r.task, r.status, r.through)
          /\ DialogFits(ask, log, r.pending, r.through)
      BY <2>1, <2>2, <2>5 DEF SnapshotFits
    <3> QED BY <3>1, TaskStaysFit, DialogStaysFit
  <2> QED BY <1>1, <2>1, <2>3, <2>4, <2>5 DEF ReplyFits, SnapshotFits
<1>2. CASE what # "snapshot"
  <2>1. what \in {"start", "cancel"} => CallFits(row, what, stage, r)
    BY DEF ReplyFits
  <2>2. CallFits(row, what, stage, r) => CallFits(row', what, stage, r)
    BY DEF CallFits, Grows
  <2> QED BY <1>2, <2>1, <2>2 DEF ReplyFits
<1> QED BY <1>1, <1>2

\* So a step of the service that leaves the client alone keeps the client's invariant,
\* but for the requests it may answer.
LEMMA ClientStaysFit ==
    ASSUME ServerInv, ServerTypeOK', Grows, ClientInv
    PROVE  /\ \A i \in Slots : RequestFits(row', ask', diagnosis', log', request[i])
           /\ \A m \in 1..Len(queue) : ItemFits(row', ask', diagnosis', log', queue[m])
           /\ view.last <= Len(log')
           /\ view.open /\ ~stale =>
                  /\ TaskFits(row', log', view.task, view.status, view.last)
                  /\ DiagnosisFits(diagnosis', log', view.diagnosis, view.last)
                  /\ client.kind = "desktop" => DialogFits(ask', log', dialog.task, view.last)
<1>1. /\ Len(log) \in Nat /\ Len(log') \in Nat /\ Len(log) <= Len(log')
      /\ view \in Views /\ queue \in Seq(Items) /\ request \in [Slots -> Requests]
      /\ view.last \in Nat /\ view.last <= Len(log) /\ view.diagnosis \in Tasks \cup {0}
  BY DEF ServerInv, ServerTypeOK, Grows, ClientInv, Shapes, Views
<1>2. ASSUME NEW i \in Slots PROVE RequestFits(row', ask', diagnosis', log', request[i])
  <2>1. RequestFits(row, ask, diagnosis, log, request[i])
    BY DEF ClientInv
  <2>2. request[i].stage \in Stages /\ request[i].reply \in Replies
    BY <1>1 DEF Requests
  <2> QED BY <2>1, <2>2, ReplyStaysFit DEF RequestFits
<1>3. ASSUME NEW m \in 1..Len(queue) PROVE ItemFits(row', ask', diagnosis', log', queue[m])
  <2>1. ItemFits(row, ask, diagnosis, log, queue[m]) /\ queue[m] \in Items
    BY <1>1 DEF ClientInv
  <2>2. queue[m].type = "event" => queue[m].seq <= Len(log')
    <3>1. queue[m].type = "event" => queue[m].seq \in Nat
      BY <2>1 DEF Items
    <3> QED BY <1>1, <2>1, <3>1 DEF ItemFits
  <2>3. queue[m].type = "reply" => queue[m].reply \in Replies
    BY <2>1 DEF Items
  <2>4. "answered" \in Stages
    BY DEF Stages
  <2> QED BY <2>1, <2>2, <2>3, <2>4, ReplyStaysFit DEF ItemFits
<1>4. view.last \in 0..Len(log) /\ view.last <= Len(log')
  BY <1>1
<1>5. view.open /\ ~stale => ViewFits
  BY DEF ClientInv
<1> QED BY <1>1, <1>2, <1>3, <1>4, <1>5, TaskStaysFit, DiagnosisStaysFit, DialogStaysFit DEF ViewFits

-----------------------------------------------------------------------------
(* The service and the requests *)

\* A step of the service, or one that leaves it alone, takes nothing back.
LEMMA ServiceStep ==
    ASSUME ServerAssumption, ServerInv, ServerNext \/ UNCHANGED serverVars
    PROVE  ServerInv' /\ ServerTypeOK' /\ Grows
<1>1. CASE ServerNext
  BY <1>1, ServerKeeps DEF ServerInv
<1>2. CASE UNCHANGED serverVars
  <2>1. row' = row /\ ask' = ask /\ diagnosis' = diagnosis /\ log' = log /\ due' = due
    BY <1>2 DEF serverVars
  <2>2. Told' = Told
    BY <2>1 DEF Told, Of
  <2>3. ServerTypeOK' /\ RowsInOrder' /\ EventsInOrder'
    BY <2>1 DEF ServerInv, ServerTypeOK, RowsInOrder, EventsInOrder
  <2>4. Grows
    <3>1. diagnosis \in Nat /\ Len(log) \in Nat
      BY DEF ServerInv, ServerTypeOK, Tasks
    <3> QED BY <2>1, <3>1 DEF Grows, AskGoes
  <2> QED BY <2>1, <2>2, <2>3, <2>4 DEF ServerInv
<1> QED BY <1>1, <1>2

\* The constants among replies and requests have their type.
LEMMA RecordShapes == NoReply \in Replies /\ Refused \in Replies /\ Idle \in Requests
<1>1. NoReply \in Replies /\ Refused \in Replies
  BY DEF NoReply, Refused, Replies
<1> QED BY <1>1 DEF Idle, Requests, Stages

\* The service reads or answers for a request, and the reply fits what is stored now.
LEMMA StepKeeps ==
    ASSUME ServerAssumption, Inv, NEW i \in Slots, NEW stage \in Stages \ {"sent"}, NEW reply \in Replies,
           request[i].what # "idle", Step(i, stage, reply), OnlyRequests,
           ServerNext \/ UNCHANGED serverVars,
           ReplyFits(row', ask', diagnosis', log', request[i].what, stage, reply)
    PROVE  Inv'
<1> DEFINE q == [Idle EXCEPT !.what = request[i].what, !.stage = stage, !.reply = reply]
<1>1. ServerInv' /\ ServerTypeOK' /\ Grows
  BY ServiceStep DEF Inv
<1>2. request \in [Slots -> Requests] /\ request[i] \in Requests /\ request' = [request EXCEPT ![i] = q]
  BY DEF Inv, ClientInv, Shapes, Step
<1>3. q \in Requests /\ q.what = request[i].what /\ q.stage = stage /\ q.reply = reply
  <2>1. request[i].what \in Calls \cup {"snapshot", "idle"}
    BY <1>2 DEF Requests
  <2> QED BY <2>1 DEF Idle, Requests
<1> HIDE DEF q
<1>4. /\ request' \in [Slots -> Requests]
      /\ request'[i] = q /\ \A j \in Slots \ {i} : request'[j] = request[j]
  BY <1>2, <1>3
<1>5. RequestFits(row', ask', diagnosis', log', q)
  BY <1>3 DEF RequestFits
<1>6. /\ client' = client /\ view' = view /\ dialog' = dialog /\ feed' = feed /\ queue' = queue
      /\ refresh' = refresh /\ stale' = stale /\ dismissed' = dismissed /\ inputs' = inputs
  BY DEF OnlyRequests
<1>7. Shapes'
  BY <1>4, <1>6 DEF Inv, ClientInv, Shapes
<1>8. \A j \in Slots : RequestFits(row', ask', diagnosis', log', request'[j])
  <2>1. \A j \in Slots : RequestFits(row', ask', diagnosis', log', request[j])
    BY <1>1, ClientStaysFit DEF Inv
  <2> QED BY <1>4, <1>5, <2>1
<1>9. /\ \A m \in 1..Len(queue') : ItemFits(row', ask', diagnosis', log', queue'[m])
      /\ view'.last <= Len(log')
      /\ view'.open /\ ~stale' => ViewFits'
  <2>1. /\ \A m \in 1..Len(queue) : ItemFits(row', ask', diagnosis', log', queue[m])
        /\ view.last <= Len(log')
        /\ view.open /\ ~stale =>
               /\ TaskFits(row', log', view.task, view.status, view.last)
               /\ DiagnosisFits(diagnosis', log', view.diagnosis, view.last)
               /\ client.kind = "desktop" => DialogFits(ask', log', dialog.task, view.last)
    BY <1>1, ClientStaysFit DEF Inv
  <2> QED BY <1>6, <2>1 DEF ViewFits
<1> QED BY <1>1, <1>7, <1>8, <1>9 DEF Inv, ClientInv

\* What a snapshot reads of the rows fits every watermark that was read before.
LEMMA ShownTaskFits ==
    ASSUME ServerInv, NEW n \in 0..Len(log)
    PROVE  /\ ShownTask.task \in Tasks \cup {0} /\ ShownTask.status \in TaskStatus \cup {"none"}
           /\ TaskFits(row, log, ShownTask.task, ShownTask.status, n)
<1>1. Len(log) \in Nat /\ \A m \in 1..n : log[m] \in Told
  <2>1. Len(log) \in Nat
    BY DEF ServerInv, ServerTypeOK
  <2> QED BY <2>1 DEF Told, Of
<1>2. CASE Active = {}
  <2>1. ShownTask = NoTask /\ ShownTask.task = 0 /\ ShownTask.status = "none" /\ "none" \notin ActiveStatus
    BY <1>2 DEF ShownTask, NoTask, ActiveStatus
  <2>2. \A t \in Tasks : row[t] \notin ActiveStatus
    BY <1>2 DEF Active
  <2> QED BY <2>1, <2>2 DEF TaskFits
<1>3. ASSUME Active # {}
      PROVE  \E t \in Active : ShownTask = [task |-> t, status |-> row[t]]
  BY <1>3 DEF ShownTask
<1>4. ASSUME NEW t \in Active, ShownTask = [task |-> t, status |-> row[t]]
      PROVE  /\ ShownTask.task \in Tasks \cup {0} /\ ShownTask.status \in TaskStatus \cup {"none"}
             /\ TaskFits(row, log, ShownTask.task, ShownTask.status, n)
  <2>1. t \in Tasks /\ row[t] \in ActiveStatus /\ ~IsTerminal(row[t]) /\ row[t] # "absent"
    BY DEF Active, IsTerminal, ActiveStatus, TerminalStatus
  <2>2. ASSUME NEW m \in 1..n, NEW s \in TerminalStatus PROVE log[m] # TaskEvent(t, s)
    <3>1. EventFits(row, ask, diagnosis, log[m])
      BY <1>1 DEF ServerInv
    <3> QED BY <2>1, <3>1 DEF EventFits, TaskEvent, Event, IsTerminal
  <2>3. ASSUME NEW u \in Tasks, row[u] \in ActiveStatus PROVE t = u
    <3>1. ~IsTerminal(row[u]) /\ row[u] # "absent"
      BY <2>3 DEF IsTerminal, ActiveStatus, TerminalStatus
    <3>2. t \in Nat /\ u \in Nat
      BY <2>1 DEF Tasks
    <3>3. ~(t < u) /\ ~(u < t)
      BY <2>1, <3>1 DEF ServerInv, RowsInOrder
    <3> QED BY <3>2, <3>3
  <2>4. ShownTask.task = t /\ ShownTask.status = row[t]
    BY <1>4
  <2>5. TaskFits(row, log, t, row[t], n)
    BY <2>1, <2>2, <2>3 DEF TaskFits
  <2> QED BY <2>1, <2>4, <2>5 DEF TaskStatus
<1> QED BY <1>2, <1>3, <1>4

\* So does the first pending approval.
LEMMA FirstPendingFits ==
    ASSUME ServerInv, NEW n \in 0..Len(log)
    PROVE  /\ FirstPending \in Pending \cup {0} /\ (Pending # {} => FirstPending \in Pending)
           /\ DialogFits(ask, log, FirstPending, n)
<1>1. Len(log) \in Nat /\ \A m \in 1..n : m \in 1..Len(log) /\ log[m] \in Told
  <2>1. Len(log) \in Nat
    BY DEF ServerInv, ServerTypeOK
  <2> QED BY <2>1 DEF Told, Of
<1>2. Pending \in SUBSET Nat /\ Pending \subseteq Tasks /\ 0 \notin Pending
  BY DEF Pending, Tasks
<1>3. Pending # {} => FirstPending \in Pending /\ \A u \in Pending : FirstPending <= u
  <2>1. Pending # {} => \E t \in Pending : \A u \in Pending : t <= u
    BY <1>2, LeastExists
  <2> QED BY <2>1 DEF FirstPending
<1>4. Pending = {} => FirstPending = 0
  BY DEF FirstPending
<1>5. FirstPending # 0 => /\ FirstPending \in Tasks /\ ask[FirstPending] \in OnRecord
                          /\ \A m \in 1..n : log[m] # ResolutionOf(FirstPending)
  <2>1. FirstPending # 0 => FirstPending \in Tasks /\ ask[FirstPending] = "pending"
    BY <1>2, <1>3, <1>4 DEF Pending
  <2>2. ASSUME NEW t \in Tasks, ask[t] = "pending", NEW m \in 1..n PROVE log[m] # ResolutionOf(t)
    <3>1. EventFits(row, ask, diagnosis, log[m])
      BY <1>1 DEF ServerInv
    <3> QED BY <2>2, <3>1 DEF EventFits, ResolutionOf, Event, Decided
  <2> QED BY <2>1, <2>2 DEF OnRecord
<1>6. ASSUME NEW t \in Tasks, NEW m \in 1..n, Serial(log), ask[t] = "pending", log[m] = RequestOf(t)
      PROVE  FirstPending = t
  <2> DEFINE u == FirstPending
  <2>1. t \in Pending /\ u \in Pending /\ u <= t /\ u \in Nat /\ t \in Nat /\ u \in Tasks /\ ask[u] = "pending"
    BY <1>2, <1>3, <1>6 DEF Pending
  <2> HIDE DEF u
  <2>2. SUFFICES ASSUME u < t PROVE FALSE
    BY <2>1 DEF u
  <2>3. PICK k \in 1..(m - 1) : log[k] = RequestOf(u)
    BY <1>1, <1>6, <2>1, <2>2 DEF ServerInv, EventsInOrder
  <2>4. DOMAIN log = 1..Len(log)
    BY DEF ServerInv, ServerTypeOK
  <2>5. k \in DOMAIN log /\ m \in DOMAIN log /\ k < m
    BY <1>1, <2>4
  <2>6. PICK r \in k..m : log[r] = ResolutionOf(u)
    <3>1. log[k].kind = "requested" /\ log[m].kind = "requested" /\ log[k].task = u
      BY <1>6, <2>3 DEF RequestOf, Event
    <3> QED BY <1>6, <2>5, <3>1 DEF Serial, ResolutionOf
  <2>7. log[r] \in Told
    <3>1. r \in 1..n
      BY <1>1
    <3> QED BY <1>1, <3>1
  <2>8. ask[u] \in Decided
    <3>1. EventFits(row, ask, diagnosis, log[r])
      BY <2>7 DEF ServerInv
    <3> QED BY <2>6, <3>1 DEF EventFits, ResolutionOf, Event
  <2> QED BY <2>1, <2>8 DEF Decided
<1> QED BY <1>3, <1>4, <1>5, <1>6 DEF DialogFits

\* The service answers.
LEMMA ServeKeeps ==
    ASSUME ServerAssumption, Inv, NEW i \in Slots, Serve(i)
    PROVE  Inv'
<1> DEFINE q == request[i]
<1>1. q \in Requests /\ RequestFits(row, ask, diagnosis, log, q)
  BY DEF Inv, ClientInv, Shapes
<1>2. /\ q.reply \in Replies /\ q.stage \in Stages /\ q.task \in Tasks \cup {0}
      /\ {"detail", "watermark", "written", "answered"} \subseteq Stages \ {"sent"}
      /\ NoReply \in Replies /\ Refused \in Replies
  BY <1>1, RecordShapes DEF Requests, Stages
<1>3. UNCHANGED serverVars => row' = row /\ ask' = ask /\ diagnosis' = diagnosis /\ log' = log
  BY DEF serverVars
<1>4. ServerTypeOK /\ Len(log) \in Nat /\ diagnosis \in Tasks \cup {0}
  BY DEF Inv, ServerInv, ServerTypeOK
<1>5. CASE ReadDetail(i)
  <2> DEFINE r == [NoReply EXCEPT !.diagnosis = diagnosis]
  <2>1. q.what = "snapshot" /\ Step(i, "detail", r) /\ OnlyRequests /\ UNCHANGED serverVars
    BY <1>5 DEF ReadDetail, At
  <2>2. r \in Replies /\ r.diagnosis = diagnosis
    BY <1>2, <1>4 DEF NoReply, Replies
  <2>3. ReplyFits(row', ask', diagnosis', log', "snapshot", "detail", r)
    <3>1. r.diagnosis <= diagnosis'
      BY <1>3, <1>4, <2>1, <2>2 DEF Tasks
    <3> QED BY <3>1 DEF ReplyFits, SnapshotFits
  <2> QED BY <1>2, <2>1, <2>2, <2>3, StepKeeps
<1>6. CASE ReadWatermark(i)
  <2> DEFINE r == [q.reply EXCEPT !.through = Len(log)]
  <2>1. q.what = "snapshot" /\ q.stage = "detail" /\ Step(i, "watermark", r) /\ OnlyRequests /\ UNCHANGED serverVars
    BY <1>6 DEF ReadWatermark, At, Reply
  <2>2. r \in Replies /\ r.diagnosis = q.reply.diagnosis /\ r.through = Len(log)
    BY <1>2, <1>4 DEF Replies
  <2>3. ReplyFits(row', ask', diagnosis', log', "snapshot", "watermark", r)
    <3>1. q.reply.diagnosis <= diagnosis
      BY <1>1, <2>1 DEF RequestFits, ReplyFits, SnapshotFits
    <3>2. r.diagnosis <= diagnosis' /\ r.through <= Len(log')
      BY <1>3, <1>4, <2>1, <2>2, <3>1
    <3> HIDE DEF r
    <3> QED BY <3>2 DEF ReplyFits, SnapshotFits
  <2> QED BY <1>2, <2>1, <2>2, <2>3, StepKeeps
<1>7. CASE ReadRows(i)
  <2> DEFINE r == [q.reply EXCEPT !.task = ShownTask.task, !.status = ShownTask.status,
                                  !.approvals = Saved, !.pending = FirstPending]
  <2>1. q.what = "snapshot" /\ q.stage = "watermark" /\ Step(i, "answered", r) /\ OnlyRequests /\ UNCHANGED serverVars
    BY <1>7 DEF ReadRows, At, Reply
  <2>2. q.reply.diagnosis <= diagnosis /\ q.reply.through <= Len(log) /\ q.reply.through \in 0..Len(log)
    <3>1. q.reply.diagnosis <= diagnosis /\ q.reply.through <= Len(log)
      BY <1>1, <2>1 DEF RequestFits, ReplyFits, SnapshotFits
    <3> QED BY <1>2, <1>4, <3>1 DEF Replies
  <2>3. /\ ShownTask.task \in Tasks \cup {0} /\ ShownTask.status \in TaskStatus \cup {"none"}
        /\ TaskFits(row, log, ShownTask.task, ShownTask.status, q.reply.through)
        /\ FirstPending \in Tasks \cup {0} /\ DialogFits(ask, log, FirstPending, q.reply.through)
        /\ Saved \in SUBSET Tasks
    <3>1. ServerInv
      BY DEF Inv
    <3>2. Pending \subseteq Tasks /\ Saved \in SUBSET Tasks
      BY DEF Pending, Saved, Asked
    <3> HIDE DEF q
    <3> QED BY <2>2, <3>1, <3>2, ShownTaskFits, FirstPendingFits
  <2>4. /\ r \in Replies /\ r.diagnosis = q.reply.diagnosis /\ r.through = q.reply.through
        /\ r.task = ShownTask.task /\ r.status = ShownTask.status /\ r.pending = FirstPending
    BY <1>2, <2>3 DEF Replies
  <2>5. ReplyFits(row', ask', diagnosis', log', "snapshot", "answered", r)
    <3> HIDE DEF r
    <3> QED BY <1>3, <2>1, <2>2, <2>3, <2>4 DEF ReplyFits, SnapshotFits
  <2> QED BY <1>2, <2>1, <2>4, <2>5, StepKeeps
<1>8. CASE ServeStart(i)
  <2>1. q.what = "start" /\ OnlyRequests
    BY <1>8 DEF ServeStart, At
  <2>2. ASSUME NEW t \in Tasks, StartTask(t), Step(i, "written", [NoReply EXCEPT !.task = t])
        PROVE  Inv'
    <3> DEFINE r == [NoReply EXCEPT !.task = t]
    <3>1. r \in Replies /\ r.task = t /\ r.ok
      BY <1>2 DEF NoReply, Replies
    <3>2. row'[t] # "absent"
      BY <1>4, <2>2 DEF StartTask, ServerTypeOK
    <3>3. ServerNext
      BY <2>2 DEF ServerNext
    <3> HIDE DEF r
    <3>4. ReplyFits(row', ask', diagnosis', log', "start", "written", r)
      BY <3>1, <3>2 DEF ReplyFits, CallFits
    <3> QED BY <1>2, <2>1, <2>2, <3>1, <3>3, <3>4, StepKeeps DEF r
  <2>3. ASSUME Step(i, "answered", Refused), UNCHANGED serverVars
        PROVE  Inv'
    <3>1. ReplyFits(row', ask', diagnosis', log', "start", "answered", Refused)
      BY DEF ReplyFits, CallFits, Refused, NoReply
    <3> QED BY <1>2, <2>1, <2>3, <3>1, StepKeeps
  <2> QED BY <1>8, <2>2, <2>3 DEF ServeStart
<1>9. CASE ServeCancel(i)
  <2> DEFINE t == q.task
             answer(s) == [NoReply EXCEPT !.task = t, !.status = s]
  <2>1. q.what = "cancel" /\ q.stage = "sent" /\ OnlyRequests /\ t \in Tasks
    <3>1. q.what = "cancel" /\ q.stage = "sent" /\ OnlyRequests
      BY <1>9 DEF ServeCancel, At
    <3> QED BY <1>1, <3>1 DEF RequestFits
  <2>2. ASSUME NEW s \in TaskStatus
        PROVE  answer(s) \in Replies /\ answer(s).task = t /\ answer(s).status = s /\ answer(s).ok
    BY <1>2, <2>2 DEF NoReply, Replies
  <2>3. ASSUME CancelTask(t), Step(i, "written", answer(row'[t]))
        PROVE  Inv'
    <3>1. row'[t] \in {"cancelled", "cancelling"}
      BY <1>4, <2>1, <2>3 DEF CancelTask, ServerTypeOK
    <3>2. row'[t] \in TaskStatus /\ row'[t] # "absent"
      BY <3>1 DEF TaskStatus, ActiveStatus, TerminalStatus
    <3>3. ServerNext
      BY <2>1, <2>3 DEF ServerNext
    <3>4. /\ answer(row'[t]) \in Replies /\ answer(row'[t]).task = t
          /\ answer(row'[t]).status = row'[t] /\ answer(row'[t]).ok
      BY <2>2, <3>2
    <3> HIDE DEF answer, t
    <3>5. ReplyFits(row', ask', diagnosis', log', "cancel", "written", answer(row'[t]))
      BY <2>1, <3>2, <3>4 DEF ReplyFits, CallFits
    <3> QED BY <1>2, <2>1, <2>3, <3>3, <3>4, <3>5, StepKeeps
  <2>4. ASSUME IsTerminal(row[t]), Step(i, "answered", answer(row[t])), UNCHANGED serverVars
        PROVE  Inv'
    <3>1. row[t] \in TaskStatus /\ row[t] # "absent"
      BY <2>4 DEF IsTerminal, TaskStatus, TerminalStatus
    <3>2. /\ answer(row[t]) \in Replies /\ answer(row[t]).task = t
          /\ answer(row[t]).status = row[t]
      BY <2>2, <3>1
    <3> HIDE DEF answer, t
    <3>3. ReplyFits(row', ask', diagnosis', log', "cancel", "answered", answer(row[t]))
      BY <1>3, <2>1, <2>4, <3>1, <3>2 DEF ReplyFits, CallFits
    <3> QED BY <1>2, <2>1, <2>4, <3>2, <3>3, StepKeeps
  <2>5. ASSUME Step(i, "answered", Refused), UNCHANGED serverVars
        PROVE  Inv'
    <3>1. ReplyFits(row', ask', diagnosis', log', "cancel", "answered", Refused)
      BY DEF ReplyFits, CallFits, Refused, NoReply
    <3> QED BY <1>2, <2>1, <2>5, <3>1, StepKeeps
  <2> QED BY <1>9, <2>3, <2>4, <2>5 DEF ServeCancel
<1>10. CASE ServeRespond(i)
  <2>1. /\ q.what = "respond" /\ q.stage = "sent" /\ OnlyRequests
        /\ q.task \in Tasks /\ q.choice \in Choices
    <3>1. q.what = "respond" /\ q.stage = "sent" /\ OnlyRequests
      BY <1>10 DEF ServeRespond, At
    <3> QED BY <1>1, <3>1 DEF RequestFits
  <2>2. \A stage, r : ReplyFits(row', ask', diagnosis', log', "respond", stage, r)
    BY DEF ReplyFits
  <2>3. CASE Respond(q.task, q.choice) /\ Step(i, "written", NoReply)
    <3>1. ServerNext
      BY <2>1, <2>3 DEF ServerNext
    <3> QED BY <1>2, <2>1, <2>2, <2>3, <3>1, StepKeeps
  <2>4. CASE Step(i, "answered", Refused) /\ UNCHANGED serverVars
    BY <1>2, <2>1, <2>2, <2>4, StepKeeps
  <2> QED BY <1>10, <2>3, <2>4 DEF ServeRespond
<1>11. CASE Answer(i)
  <2>1. q.stage = "written" /\ OnlyRequests /\ UNCHANGED serverVars /\ q.what \in Calls
    <3>1. q.stage = "written" /\ OnlyRequests /\ UNCHANGED serverVars
      BY <1>11 DEF Answer
    <3>2. q.what # "idle" /\ q.what # "snapshot"
      BY <1>1, <3>1 DEF RequestFits, ReplyFits
    <3> QED BY <1>1, <3>1, <3>2 DEF Requests
  <2>2. q.what \in {"start", "cancel"} => CallFits(row, q.what, "written", q.reply)
    BY <1>1, <2>1 DEF RequestFits, ReplyFits
  <2>3. CASE q.what = "start"
    <3> DEFINE r == [q.reply EXCEPT !.status = row[q.reply.task]]
    <3>1. Step(i, "answered", r)
      BY <1>11, <2>3 DEF Answer, Reply
    <3>2. q.reply.ok /\ q.reply.task \in Tasks /\ row[q.reply.task] \in TaskStatus
      BY <1>4, <2>2, <2>3 DEF CallFits, ServerTypeOK
    <3>3. r \in Replies /\ r.task = q.reply.task /\ r.status = row[q.reply.task]
      BY <1>2, <3>2 DEF Replies
    <3>4. row[q.reply.task] # "absent"
      BY <3>2 DEF TaskStatus, ActiveStatus, TerminalStatus
    <3> HIDE DEF r
    <3>5. ReplyFits(row', ask', diagnosis', log', "start", "answered", r)
      BY <1>3, <2>1, <3>2, <3>3, <3>4 DEF ReplyFits, CallFits
    <3> QED BY <1>2, <2>1, <2>3, <3>1, <3>3, <3>5, StepKeeps
  <2>4. CASE q.what # "start"
    <3>1. Step(i, "answered", q.reply)
      BY <1>11, <2>4 DEF Answer, Reply
    <3>2. ReplyFits(row', ask', diagnosis', log', q.what, "answered", q.reply)
      BY <1>3, <2>1, <2>2, <2>4 DEF ReplyFits, CallFits, Calls
    <3> QED BY <1>2, <2>1, <3>1, <3>2, StepKeeps DEF Calls
  <2> QED BY <2>3, <2>4
<1> QED BY <1>5, <1>6, <1>7, <1>8, <1>9, <1>10, <1>11 DEF Serve

-----------------------------------------------------------------------------
(* What both clients do with their view, their requests and their queue *)

\* A view that is given a task shows it, and changes in nothing else.
LEMMA TaskShown ==
    ASSUME NEW v \in Views, NEW t \in Tasks \cup {0}, t # 0, NEW s \in TaskStatus \cup {"none"}
    PROVE  /\ WithTask(v, t, s) \in Views
           /\ WithTask(v, t, s).open = v.open /\ WithTask(v, t, s).last = v.last
           /\ WithTask(v, t, s).diagnosis = v.diagnosis
           /\ v.open => WithTask(v, t, s).task = t /\ WithTask(v, t, s).status = s
<1> DEFINE w == [v EXCEPT !.task = t, !.status = s]
<1>1. /\ w \in Views /\ w.open = v.open /\ w.last = v.last /\ w.diagnosis = v.diagnosis
      /\ w.task = t /\ w.status = s
  BY DEF Views
<1>2. CASE v.open
  BY <1>1, <1>2 DEF WithTask
<1>3. CASE ~v.open
  BY <1>3 DEF WithTask
<1> QED BY <1>2, <1>3

\* The next event leaves a view that has seen it.
LEMMA EventShape ==
    ASSUME Inv, NEW n \in 1..Len(log)
    PROVE  /\ WithEvent(view, n) \in Views
           /\ WithEvent(view, n).last = n /\ WithEvent(view, n).open = view.open
<1>1. log[n] \in Events /\ view \in Views /\ n \in Nat /\ log[n] \in Told
  BY DEF Inv, ServerInv, ServerTypeOK, ClientInv, Shapes, Told, Of
<1> DEFINE e == log[n]
           w == [view EXCEPT !.last = n]
<1>2. w \in Views /\ w.last = n /\ w.open = view.open
  BY <1>1 DEF Views
<1>3. CASE e.kind = "task"
  <2>1. WithEvent(view, n) = WithTask(w, e.task, e.status)
    BY <1>3 DEF WithEvent
  <2>2. e.task \in Tasks \cup {0} /\ e.status \in TaskStatus \cup {"none"} /\ e.task # 0
    <3>1. EventFits(row, ask, diagnosis, e)
      BY <1>1 DEF Inv, ServerInv
    <3> QED BY <1>1, <1>3, <3>1 DEF Events, EventFits, Tasks
  <2> HIDE DEF w, e
  <2> QED BY <1>2, <2>1, <2>2, TaskShown
<1>4. CASE e.kind = "diagnosis"
  <2>1. WithEvent(view, n) = [w EXCEPT !.diagnosis = e.task]
    BY <1>4 DEF WithEvent
  <2>2. e.task \in Tasks \cup {0}
    BY <1>1 DEF Events
  <2> HIDE DEF w, e
  <2> QED BY <1>2, <2>1, <2>2 DEF Views
<1>5. CASE e.kind \notin {"task", "diagnosis"}
  <2>1. WithEvent(view, n) = w
    BY <1>5 DEF WithEvent
  <2> QED BY <1>2, <2>1
<1> QED BY <1>3, <1>4, <1>5

\* Of what an event changes.
LEMMA EventShows ==
    ASSUME Inv, NEW n \in 1..Len(log), view.open
    PROVE  /\ log[n].kind = "task" => /\ WithEvent(view, n).task = log[n].task
                                      /\ WithEvent(view, n).status = log[n].status
           /\ log[n].kind # "task" => /\ WithEvent(view, n).task = view.task
                                      /\ WithEvent(view, n).status = view.status
           /\ WithEvent(view, n).diagnosis =
                  IF log[n].kind = "diagnosis" THEN log[n].task ELSE view.diagnosis
<1>1. view \in Views
  BY DEF Inv, ClientInv, Shapes
<1> QED BY <1>1 DEF WithEvent, WithTask, Views

\* The next event keeps the view fit, if it does not come out of order.
LEMMA EventKeepsTask ==
    ASSUME Inv, NEW n \in 1..Len(log), n > view.last, view.open, ~stale, ~OutOfOrder(n)
    PROVE  TaskFits(row, log, WithEvent(view, n).task, WithEvent(view, n).status, n)
<1>1. view.last \in Nat /\ n \in Nat /\ n = view.last + 1 /\ log[n] \in Events /\ view \in Views /\ log[n] \in Told
  <2>1. view.last \in Nat /\ n \in Nat /\ ~(n > view.last + 1) /\ log[n] \in Events /\ view \in Views
    BY DEF Inv, ServerInv, ServerTypeOK, ClientInv, Shapes, Views, OutOfOrder
  <2>2. log[n] \in Told
    BY DEF Told, Of
  <2> QED BY <2>1, <2>2
<1>2. TaskFits(row, log, view.task, view.status, view.last)
  BY DEF Inv, ClientInv, ViewFits
<1>3. \A m \in 1..n : m \in 1..view.last \/ m = n
  BY <1>1
<1>4. EventFits(row, ask, diagnosis, log[n])
  BY <1>1 DEF Inv, ServerInv
<1>5. CASE log[n].kind # "task"
  <2>1. \A t, s : log[n] # TaskEvent(t, s)
    BY <1>5 DEF TaskEvent, Event
  <2>2. TaskFits(row, log, view.task, view.status, n)
    BY <1>2, <1>3, <2>1 DEF TaskFits
  <2> QED BY <1>5, <2>2, EventShows
<1>6. CASE log[n].kind = "task"
  <2> DEFINE u == log[n].task
             s == log[n].status
  <2>1. /\ u \in Tasks /\ row[u] # "absent" /\ s \in TaskStatus /\ (IsTerminal(s) => IsTerminal(row[u]))
        /\ ~Outdated(u, s)
    BY <1>4, <1>6 DEF EventFits, OutOfOrder
  <2>2. ~(u < view.task) /\ (s \in ActiveStatus => ~EndShown(u))
    BY <2>1 DEF Outdated
  <2>3. \A t, x : log[n] = TaskEvent(t, x) => t = u /\ x = s
    BY DEF TaskEvent, Event
  <2>4. ASSUME s \in ActiveStatus, NEW m \in 1..n, NEW x \in TerminalStatus PROVE log[m] # TaskEvent(u, x)
    <3>1. CASE m = n
      <4>1. x # s
        BY <2>4 DEF ActiveStatus, TerminalStatus
      <4> QED BY <2>3, <3>1, <4>1
    <3>2. CASE m \in 1..view.last
      <4>1. ~EndShown(u)
        BY <2>2, <2>4
      <4>2. m \in 1..Len(log) /\ m <= view.last
        BY <1>1, <3>2
      <4> QED BY <2>4, <4>1, <4>2 DEF EndShown, TaskEvent, Event, IsTerminal
    <3> QED BY <1>3, <3>1, <3>2
  <2>5. ASSUME NEW t \in Tasks, NEW m \in 1..n, row[t] \in ActiveStatus, log[m] = TaskEvent(t, "running")
        PROVE  u = t /\ s \in ActiveStatus
    <3>1. ~IsTerminal(row[t])
      BY <2>5 DEF IsTerminal, ActiveStatus, TerminalStatus
    <3>2. u = t
      <4>1. CASE m = n
        BY <2>3, <2>5, <4>1
      <4>2. CASE m \in 1..view.last
        <5>1. view.task = t
          BY <1>2, <2>5, <4>2 DEF TaskFits
        <5>2. ~(t < u)
          BY <2>1, <3>1 DEF Inv, ServerInv, RowsInOrder
        <5>3. t \in Nat /\ u \in Nat
          BY <2>1 DEF Tasks
        <5> QED BY <2>2, <5>1, <5>2, <5>3
      <4> QED BY <1>3, <4>1, <4>2
    <3> QED BY <2>1, <3>1, <3>2 DEF IsTerminal, TaskStatus
  <2>6. TaskFits(row, log, u, s, n)
    BY <2>1, <2>4, <2>5 DEF TaskFits
  <2> QED BY <1>6, <2>6, EventShows
<1> QED BY <1>5, <1>6

\* So with the diagnosis: only its event sets it.
LEMMA EventKeepsDiagnosis ==
    ASSUME Inv, NEW n \in 1..Len(log), n > view.last, view.open, ~stale, ~OutOfOrder(n)
    PROVE  DiagnosisFits(diagnosis, log, WithEvent(view, n).diagnosis, n)
<1>1. view.last \in Nat /\ n \in Nat /\ n = view.last + 1 /\ log[n] \in Told /\ Len(log) \in Nat
  <2>1. view.last \in Nat /\ n \in Nat /\ ~(n > view.last + 1) /\ Len(log) \in Nat
    BY DEF Inv, ServerInv, ServerTypeOK, ClientInv, Shapes, Views, OutOfOrder
  <2>2. log[n] \in Told
    BY DEF Told, Of
  <2> QED BY <2>1, <2>2
<1>2. DiagnosisFits(diagnosis, log, view.diagnosis, view.last)
  BY DEF Inv, ClientInv, ViewFits
<1>3. \A m \in 1..n : m \in 1..view.last \/ m = n
  BY <1>1
<1>4. CASE log[n].kind # "diagnosis"
  <2>1. DiagnosisFits(diagnosis, log, view.diagnosis, n)
    BY <1>2, <1>3, <1>4 DEF DiagnosisFits
  <2> QED BY <1>4, <2>1, EventShows
<1>5. CASE log[n].kind = "diagnosis"
  <2>1. log[n].task <= diagnosis
    BY <1>1, <1>5 DEF Inv, ServerInv, EventFits
  <2>2. log[n].task <= log[n].task
    <3>1. log[n] \in Events
      BY DEF Inv, ServerInv, ServerTypeOK
    <3>2. log[n].task \in Nat
      BY <3>1 DEF Events, Tasks
    <3> QED BY <3>2
  <2>3. ASSUME NEW m \in 1..n, log[m].kind = "diagnosis" PROVE log[m].task <= log[n].task
    <3>1. m \in 1..Len(log) /\ (m = n \/ m < n)
      BY <1>1
    <3> QED BY <1>5, <2>2, <2>3, <3>1 DEF Inv, ServerInv, EventsInOrder
  <2>4. DiagnosisFits(diagnosis, log, log[n].task, n)
    BY <2>1, <2>3 DEF DiagnosisFits
  <2> QED BY <1>5, <2>4, EventShows
<1> QED BY <1>4, <1>5

\* And with the desktop's dialog: a request opens it, a resolution closes it.
LEMMA EventKeepsDialog ==
    ASSUME Inv, NEW n \in 1..Len(log), n > view.last, view.open, ~stale, ~OutOfOrder(n),
           client.kind = "desktop"
    PROVE  DialogFits(ask, log, DesktopDialog(log[n]).task, n)
<1>1. view.last \in Nat /\ n \in Nat /\ n = view.last + 1 /\ log[n] \in Told /\ Len(log) \in Nat
  <2>1. view.last \in Nat /\ n \in Nat /\ ~(n > view.last + 1) /\ Len(log) \in Nat
    BY DEF Inv, ServerInv, ServerTypeOK, ClientInv, Shapes, Views, OutOfOrder
  <2>2. log[n] \in Told
    BY DEF Told, Of
  <2> QED BY <2>1, <2>2
<1>2. DialogFits(ask, log, dialog.task, view.last)
  BY DEF Inv, ClientInv, ViewFits
<1>3. \A m \in 1..n : m \in 1..view.last \/ m = n
  BY <1>1
<1>4. EventFits(row, ask, diagnosis, log[n])
  BY <1>1 DEF Inv, ServerInv
<1>5. CASE log[n].kind = "requested"
  <2> DEFINE u == log[n].task
  <2>1. u \in Tasks /\ log[n] = RequestOf(u) /\ ask[u] \in OnRecord
    BY <1>4, <1>5 DEF EventFits
  <2>2. \A m \in 1..n : log[m] # ResolutionOf(u)
    BY <1>5 DEF OutOfOrder, ResolutionOf
  <2>3. ASSUME NEW t \in Tasks, NEW m \in 1..n, Serial(log), ask[t] = "pending", log[m] = RequestOf(t)
        PROVE  u = t
    <3>1. CASE m = n
      BY <2>1, <2>3, <3>1 DEF RequestOf, Event
    <3>2. CASE m # n
      <4>1. m \in DOMAIN log /\ n \in DOMAIN log /\ m < n
        <5>1. DOMAIN log = 1..Len(log)
          BY DEF Inv, ServerInv, ServerTypeOK
        <5> QED BY <1>1, <3>2, <5>1
      <4>2. PICK r \in m..n : log[r] = ResolutionOf(t)
        <5>1. log[m].kind = "requested" /\ log[m].task = t
          BY <2>3 DEF RequestOf, Event
        <5> QED BY <1>5, <2>3, <4>1, <5>1 DEF Serial, ResolutionOf
      <4>3. log[r] \in Told
        <5>1. r \in 1..Len(log)
          BY <1>1
        <5> QED BY <5>1 DEF Told, Of
      <4>4. EventFits(row, ask, diagnosis, log[r])
        BY <4>3 DEF Inv, ServerInv
      <4> QED BY <2>3, <4>2, <4>4 DEF EventFits, ResolutionOf, Event, Decided
    <3> QED BY <3>1, <3>2
  <2>4. DesktopDialog(log[n]).task = u
    BY <1>5 DEF DesktopDialog, Approval
  <2> HIDE DEF u
  <2> QED BY <2>1, <2>2, <2>3, <2>4 DEF DialogFits
<1>6. CASE log[n].kind # "requested"
  <2>1. \A t : log[n] # RequestOf(t)
    BY <1>6 DEF RequestOf, Event
  <2>2. CASE log[n].kind = "resolved" /\ dialog.task = log[n].task
    <3>1. DesktopDialog(log[n]).task = 0
      BY <2>2 DEF DesktopDialog, NoDialog
    <3>2. ASSUME NEW t \in Tasks, NEW m \in 1..n, Serial(log), ask[t] = "pending", log[m] = RequestOf(t)
          PROVE  0 = t
      <4>1. m \in 1..view.last
        BY <1>3, <2>1, <3>2
      <4>2. dialog.task = t
        BY <1>2, <3>2, <4>1 DEF DialogFits
      <4>3. ask[t] \in Decided
        BY <1>4, <2>2, <4>2 DEF EventFits
      <4> QED BY <3>2, <4>3 DEF Decided
    <3>3. DialogFits(ask, log, 0, n)
      BY <3>2 DEF DialogFits
    <3> QED BY <3>1, <3>3
  <2>3. CASE ~(log[n].kind = "resolved" /\ dialog.task = log[n].task)
    <3>1. DesktopDialog(log[n]) = dialog
      BY <1>6, <2>3 DEF DesktopDialog
    <3>2. log[n] # ResolutionOf(dialog.task)
      BY <2>3 DEF ResolutionOf, Event
    <3>3. DialogFits(ask, log, dialog.task, n)
      BY <1>2, <1>3, <2>1, <3>2 DEF DialogFits
    <3> QED BY <3>1, <3>3
  <2> QED BY <2>2, <2>3
<1> QED BY <1>5, <1>6

\* The reply to a call keeps the view fit, if it is not outdated.
LEMMA ReplyKeepsTask ==
    ASSUME Inv, NEW r \in Replies, NEW what \in {"start", "cancel"},
           ReplyFits(row, ask, diagnosis, log, what, "answered", r),
           r.ok, ~Outdated(r.task, r.status), view.open, ~stale
    PROVE  TaskFits(row, log, r.task, r.status, view.last)
<1>1. view.last \in Nat /\ view.last <= Len(log) /\ Len(log) \in Nat
  BY DEF Inv, ServerInv, ServerTypeOK, ClientInv, Shapes, Views
<1>2. TaskFits(row, log, view.task, view.status, view.last)
  BY DEF Inv, ClientInv, ViewFits
<1>3. /\ r.task \in Tasks /\ row[r.task] # "absent" /\ r.status \in TaskStatus
      /\ IsTerminal(r.status) => IsTerminal(row[r.task])
  BY DEF ReplyFits, CallFits
<1>4. ~(r.task < view.task) /\ (r.status \in ActiveStatus => ~EndShown(r.task))
  BY DEF Outdated
<1>5. ASSUME r.status \in ActiveStatus, NEW m \in 1..view.last, NEW s \in TerminalStatus
      PROVE  log[m] # TaskEvent(r.task, s)
  <2>1. m \in 1..Len(log) /\ m <= view.last
    BY <1>1
  <2> QED BY <1>4, <1>5, <2>1 DEF EndShown, TaskEvent, Event, IsTerminal
<1>6. ASSUME NEW t \in Tasks, NEW m \in 1..view.last, row[t] \in ActiveStatus, log[m] = TaskEvent(t, "running")
      PROVE  r.task = t /\ r.status \in ActiveStatus
  <2>1. ~IsTerminal(row[t])
    BY <1>6 DEF IsTerminal, ActiveStatus, TerminalStatus
  <2>2. view.task = t
    BY <1>2, <1>6 DEF TaskFits
  <2>3. ~(t < r.task)
    BY <1>3, <2>1 DEF Inv, ServerInv, RowsInOrder
  <2>4. t \in Nat /\ r.task \in Nat
    BY <1>3 DEF Tasks
  <2>5. r.task = t
    BY <1>4, <2>2, <2>3, <2>4
  <2> QED BY <1>3, <2>1, <2>5 DEF IsTerminal, TaskStatus
<1> QED BY <1>3, <1>5, <1>6 DEF TaskFits

\* A snapshot makes the view fit, unless its diagnosis is older than its watermark.
LEMMA SnapshotMakesFit ==
    ASSUME Inv, NEW r \in Replies, ReplyFits(row, ask, diagnosis, log, "snapshot", "answered", r)
    PROVE  /\ FromSnapshot(r) \in Views /\ r.through \in Nat
           /\ FromSnapshot(r).last = r.through /\ FromSnapshot(r).last <= Len(log)
           /\ DialogFits(ask, log, r.pending, FromSnapshot(r).last)
           /\ TaskFits(row, log, FromSnapshot(r).task, FromSnapshot(r).status, FromSnapshot(r).last)
           /\ ~Torn(r) => DiagnosisFits(diagnosis, log, FromSnapshot(r).diagnosis, FromSnapshot(r).last)
<1>1. SnapshotFits(row, ask, diagnosis, log, "answered", r)
  BY DEF ReplyFits
<1>2. /\ r.diagnosis <= diagnosis /\ r.through <= Len(log) /\ r.through \in Nat
      /\ TaskFits(row, log, r.task, r.status, r.through)
      /\ DialogFits(ask, log, r.pending, r.through)
  BY <1>1 DEF SnapshotFits, Replies
<1>3. /\ FromSnapshot(r) \in Views
      /\ FromSnapshot(r).task = r.task /\ FromSnapshot(r).status = r.status
      /\ FromSnapshot(r).diagnosis = r.diagnosis /\ FromSnapshot(r).last = r.through
  <2>1. r.status \in ActiveStatus => r.task # 0
    BY <1>2 DEF TaskFits, Tasks
  <2> QED BY <2>1 DEF FromSnapshot, Views, Replies
<1>4. ASSUME ~Torn(r) PROVE DiagnosisFits(diagnosis, log, r.diagnosis, r.through)
  <2>1. ASSUME NEW n \in 1..r.through, log[n].kind = "diagnosis" PROVE log[n].task <= r.diagnosis
    <3>1. ~(log[n].task > r.diagnosis)
      BY <1>4, <2>1 DEF Torn
    <3>2. log[n] \in Events
      <4>1. log \in Seq(Events) /\ n \in 1..Len(log)
        BY <1>2 DEF Inv, ServerInv, ServerTypeOK
      <4> QED BY <4>1
    <3>3. log[n].task \in Nat /\ r.diagnosis \in Nat
      BY <3>2 DEF Events, Replies, Tasks
    <3> QED BY <3>1, <3>3
  <2> QED BY <1>2, <2>1 DEF DiagnosisFits
<1> QED BY <1>2, <1>3, <1>4

\* A new request has read nothing yet.
LEMMA SendKeeps ==
    ASSUME Inv, NEW what \in Calls \cup {"snapshot"}, NEW t \in Tasks \cup {0}, NEW choice \in Choices \cup {"none"},
           Send(what, t, choice),
           what \in {"cancel", "respond"} => t \in Tasks, what = "respond" => choice \in Choices
    PROVE  /\ request' \in [Slots -> Requests]
           /\ \A i \in Slots : RequestFits(row, ask, diagnosis, log, request'[i])
<1> DEFINE q == [what |-> what, task |-> t, choice |-> choice, stage |-> "sent", reply |-> NoReply]
<1>1. q \in Requests
  BY RecordShapes DEF Requests, Stages
<1>2. RequestFits(row, ask, diagnosis, log, q)
  BY DEF RequestFits, ReplyFits, SnapshotFits, CallFits, Calls
<1>3. PICK i \in Slots : request' = [request EXCEPT ![i] = q]
  BY DEF Send
<1>4. request \in [Slots -> Requests] /\ \A j \in Slots : RequestFits(row, ask, diagnosis, log, request[j])
  BY DEF Inv, ClientInv, Shapes
<1> HIDE DEF q
<1> QED BY <1>1, <1>2, <1>3, <1>4

\* Nor has an idle slot.
LEMMA FreeKeeps ==
    ASSUME Inv, NEW i \in Slots, request' = [request EXCEPT ![i] = Idle]
    PROVE  /\ request' \in [Slots -> Requests]
           /\ \A j \in Slots : RequestFits(row, ask, diagnosis, log, request'[j])
<1>1. Idle \in Requests /\ RequestFits(row, ask, diagnosis, log, Idle)
  BY RecordShapes DEF Idle, RequestFits, ReplyFits
<1>2. request \in [Slots -> Requests] /\ \A j \in Slots : RequestFits(row, ask, diagnosis, log, request[j])
  BY DEF Inv, ClientInv, Shapes
<1> QED BY <1>1, <1>2

\* What fits is put at the end of a queue that fits.
LEMMA PostKeeps ==
    ASSUME Inv, NEW item \in Items, Post(item), ItemFits(row, ask, diagnosis, log, item)
    PROVE  /\ queue' \in Seq(Items)
           /\ \A m \in 1..Len(queue') : ItemFits(row, ask, diagnosis, log, queue'[m])
<1>1. queue \in Seq(Items) /\ queue' = Append(queue, item)
  BY DEF Inv, ClientInv, Shapes, Post
<1>2. /\ queue' \in Seq(Items) /\ Len(queue') = Len(queue) + 1 /\ Len(queue) \in Nat
      /\ queue'[Len(queue) + 1] = item
      /\ \A m \in 1..Len(queue) : queue'[m] = queue[m]
  BY <1>1
<1>3. \A m \in 1..Len(queue') : m \in 1..Len(queue) \/ m = Len(queue) + 1
  BY <1>2
<1> QED BY <1>2, <1>3 DEF Inv, ClientInv

\* What is taken from the head fits, and the rest still does.
LEMMA TakeKeeps ==
    ASSUME Inv, NEW type, Taken(type)
    PROVE  /\ Head(queue) \in Items /\ Head(queue).type = type
           /\ ItemFits(row, ask, diagnosis, log, Head(queue))
           /\ queue' \in Seq(Items)
           /\ \A m \in 1..Len(queue') : ItemFits(row, ask, diagnosis, log, queue'[m])
<1>1. queue \in Seq(Items) /\ queue # <<>> /\ queue' = Tail(queue) /\ Head(queue).type = type
  BY DEF Inv, ClientInv, Shapes, Taken
<1>2. /\ Head(queue) \in Items /\ Head(queue) = queue[1] /\ Len(queue) \in Nat /\ 1 \in 1..Len(queue)
      /\ queue' \in Seq(Items) /\ Len(queue') = Len(queue) - 1
      /\ \A m \in 1..Len(queue') : queue'[m] = queue[m + 1]
  BY <1>1
<1>3. \A m \in 1..Len(queue') : m + 1 \in 1..Len(queue)
  BY <1>2
<1> QED BY <1>1, <1>2, <1>3 DEF Inv, ClientInv

\* A step of the client alone.
LEMMA ClientStepKeeps ==
    ASSUME ServerAssumption, Inv, UNCHANGED serverVars, Shapes',
           \A i \in Slots : RequestFits(row, ask, diagnosis, log, request'[i]),
           \A m \in 1..Len(queue') : ItemFits(row, ask, diagnosis, log, queue'[m]),
           view'.last <= Len(log),
           view'.open /\ ~stale' =>
               /\ TaskFits(row, log, view'.task, view'.status, view'.last)
               /\ DiagnosisFits(diagnosis, log, view'.diagnosis, view'.last)
               /\ client'.kind = "desktop" => DialogFits(ask, log, dialog'.task, view'.last)
    PROVE  Inv'
<1>1. row' = row /\ ask' = ask /\ diagnosis' = diagnosis /\ log' = log
  BY DEF serverVars
<1>2. ServerInv'
  BY ServiceStep DEF Inv
<1> QED BY <1>1, <1>2 DEF Inv, ClientInv, ViewFits

-----------------------------------------------------------------------------
(* The steps of each client *)

\* Inputs are counted up to the client's bound.
LEMMA InputKeeps ==
    ASSUME ClientAssumption, Inv, Input, client' = client
    PROVE  inputs' \in 0..client'.inputs
<1>1. client \in Clients /\ client.inputs \in Nat /\ inputs \in 0..client.inputs
  BY DEF ClientAssumption, Inv, ClientInv, Shapes
<1> QED BY <1>1 DEF Input

\* Every action of the terminal client keeps the invariant.
LEMMA TuiKeeps ==
    ASSUME ServerAssumption, ClientAssumption, Inv, Tui
    PROVE  Inv'
<1>1. /\ client.kind = "tui" /\ client.kind # "desktop"
      /\ Shapes /\ view.last <= Len(log) /\ (view.open /\ ~stale => ViewFits)
      /\ \A i \in Slots : RequestFits(row, ask, diagnosis, log, request[i])
      /\ \A m \in 1..Len(queue) : ItemFits(row, ask, diagnosis, log, queue[m])
  BY DEF Tui, Inv, ClientInv
<1>2. /\ view \in Views /\ view.last \in Nat /\ view.task \in Tasks \cup {0} /\ Len(log) \in Nat
      /\ dialog \in [shows : {"none", "error", "approval"}, task : Tasks \cup {0}]
      /\ feed \in [on : BOOLEAN, next : Nat \ {0}]
      /\ request \in [Slots -> Requests] /\ queue \in Seq(Items)
      /\ refresh \in BOOLEAN /\ stale \in BOOLEAN /\ dismissed \subseteq Tasks
  BY <1>1 DEF Shapes, Views, Inv, ServerInv, ServerTypeOK
<1>3. CASE TuiForward
  <2> DEFINE item == [type |-> "event", seq |-> feed.next]
  <2>1. /\ feed.next <= Len(log) /\ Post(item) /\ feed' = [feed EXCEPT !.next = @ + 1]
        /\ UNCHANGED <<serverVars, client, view, dialog, request, refresh, stale, dismissed, inputs>>
    BY <1>3 DEF TuiForward
  <2>2. feed' \in [on : BOOLEAN, next : Nat \ {0}] /\ feed.next \in Nat \ {0}
    <3>1. feed.next \in Nat \ {0} /\ feed.next + 1 \in Nat \ {0}
      BY <1>2
    <3> QED BY <1>2, <2>1, <3>1
  <2>3. item \in Items
    BY <2>2 DEF Items
  <2>4. ItemFits(row, ask, diagnosis, log, item)
    BY <2>1 DEF ItemFits
  <2> HIDE DEF item
  <2>5. /\ queue' \in Seq(Items)
        /\ \A m \in 1..Len(queue') : ItemFits(row, ask, diagnosis, log, queue'[m])
    BY <2>1, <2>3, <2>4, PostKeeps
  <2>6. Shapes'
    BY <1>1, <2>1, <2>2, <2>5 DEF Shapes
  <2> QED BY <1>1, <2>1, <2>5, <2>6, ClientStepKeeps DEF ViewFits
<1>4. CASE TuiBreak
  <2> DEFINE item == [type |-> "fatal"]
  <2>1. /\ Post(item) /\ feed' = [feed EXCEPT !.on = FALSE] /\ Input
        /\ UNCHANGED <<serverVars, client, view, dialog, request, refresh, stale, dismissed>>
    BY <1>4 DEF TuiBreak
  <2>2. feed' \in [on : BOOLEAN, next : Nat \ {0}] /\ inputs' \in 0..client'.inputs
    BY <1>2, <2>1, InputKeeps
  <2>3. item \in Items /\ ItemFits(row, ask, diagnosis, log, item)
    BY DEF Items, ItemFits
  <2> HIDE DEF item
  <2>4. /\ queue' \in Seq(Items)
        /\ \A m \in 1..Len(queue') : ItemFits(row, ask, diagnosis, log, queue'[m])
    BY <2>1, <2>3, PostKeeps
  <2>5. Shapes'
    BY <1>1, <2>1, <2>2, <2>4 DEF Shapes
  <2> QED BY <1>1, <2>1, <2>4, <2>5, ClientStepKeeps DEF ViewFits
<1>5. ASSUME NEW i \in Slots, TuiPost(i) PROVE Inv'
  <2> DEFINE item == [type |-> "reply", what |-> request[i].what, reply |-> request[i].reply]
  <2>1. /\ request[i].stage = "answered" /\ Post(item) /\ request' = [request EXCEPT ![i] = Idle]
        /\ UNCHANGED <<serverVars, client, view, dialog, feed, refresh, stale, dismissed, inputs>>
    BY <1>5 DEF TuiPost, Reply
  <2>2. request[i] \in Requests /\ RequestFits(row, ask, diagnosis, log, request[i])
    BY <1>1, <1>2
  <2>3. request[i].what \in Calls \cup {"snapshot"} /\ request[i].reply \in Replies
    BY <2>1, <2>2 DEF Requests, RequestFits
  <2>4. item \in Items
    BY <2>3 DEF Items
  <2>5. ItemFits(row, ask, diagnosis, log, item)
    BY <2>1, <2>2 DEF ItemFits, RequestFits
  <2> HIDE DEF item
  <2>6. /\ queue' \in Seq(Items)
        /\ \A m \in 1..Len(queue') : ItemFits(row, ask, diagnosis, log, queue'[m])
    BY <2>1, <2>4, <2>5, PostKeeps
  <2>7. /\ request' \in [Slots -> Requests]
        /\ \A j \in Slots : RequestFits(row, ask, diagnosis, log, request'[j])
    BY <2>1, FreeKeeps
  <2>8. Shapes'
    BY <1>1, <2>1, <2>6, <2>7 DEF Shapes
  <2> QED BY <1>1, <2>1, <2>6, <2>7, <2>8, ClientStepKeeps DEF ViewFits
<1>6. CASE TuiTakeEvent
  <2> DEFINE n == Head(queue).seq
  <2>1. /\ Taken("event") /\ UNCHANGED <<serverVars, client, feed, refresh, dismissed, inputs>>
    BY <1>6 DEF TuiTakeEvent
  <2>2. /\ Head(queue) \in Items /\ Head(queue).type = "event" /\ ItemFits(row, ask, diagnosis, log, Head(queue))
        /\ queue' \in Seq(Items)
        /\ \A m \in 1..Len(queue') : ItemFits(row, ask, diagnosis, log, queue'[m])
    BY <2>1, TakeKeeps
  <2>3. n \in 1..Len(log)
    <3>1. n \in Nat \ {0} /\ n <= Len(log)
      BY <2>2 DEF Items, ItemFits
    <3> HIDE DEF n
    <3> QED BY <1>2, <3>1
  <2>4. CASE n <= view.last /\ UNCHANGED <<view, dialog, request, stale>>
    <3>1. Shapes'
      BY <1>1, <2>1, <2>2, <2>4 DEF Shapes
    <3> HIDE DEF n
    <3> QED BY <1>1, <2>1, <2>2, <2>4, <3>1, ClientStepKeeps DEF ViewFits
  <2>5. ASSUME /\ n > view.last /\ view' = WithEvent(view, n) /\ dialog' = TuiDialog(log[n])
               /\ stale' = (stale \/ OutOfOrder(n))
               /\ IF TuiReloads(log[n]) THEN Send("snapshot", 0, "none") ELSE UNCHANGED request
        PROVE  Inv'
    <3> HIDE DEF n
    <3>1. /\ request' \in [Slots -> Requests]
          /\ \A j \in Slots : RequestFits(row, ask, diagnosis, log, request'[j])
      <4>1. CASE Send("snapshot", 0, "none")
        BY <4>1, SendKeeps
      <4>2. CASE UNCHANGED request
        BY <1>1, <1>2, <4>2
      <4> QED BY <2>5, <4>1, <4>2
    <3>2. view' \in Views /\ view'.last = n /\ view'.open = view.open
      BY <2>3, <2>5, EventShape
    <3>3. dialog' \in [shows : {"none", "error", "approval"}, task : Tasks \cup {0}]
      <4>1. log[n].task \in Tasks \cup {0}
        <5>1. log[n] \in Events
          BY <2>3 DEF Inv, ServerInv, ServerTypeOK
        <5> QED BY <5>1 DEF Events
      <4> QED BY <1>2, <2>5, <4>1 DEF TuiDialog, Approval, ErrorDialog
    <3>4. stale' \in BOOLEAN
      BY <1>2, <2>5
    <3>5. view'.last <= Len(log)
      BY <1>2, <2>3, <3>2
    <3>6. ASSUME view'.open, ~stale'
          PROVE  /\ TaskFits(row, log, view'.task, view'.status, view'.last)
                 /\ DiagnosisFits(diagnosis, log, view'.diagnosis, view'.last)
      BY <2>3, <2>5, <3>2, <3>6, EventKeepsTask, EventKeepsDiagnosis
    <3>7. Shapes'
      BY <1>1, <2>1, <2>2, <3>1, <3>2, <3>3, <3>4 DEF Shapes
    <3> QED BY <1>1, <2>1, <2>2, <3>1, <3>5, <3>6, <3>7, ClientStepKeeps
  <2> QED BY <1>6, <2>4, <2>5 DEF TuiTakeEvent
<1>7. CASE TuiTakeSnapshot
  <2> DEFINE r == Head(queue).reply
  <2>1. /\ Taken("reply") /\ Head(queue).what = "snapshot"
        /\ view' = FromSnapshot(r) /\ feed' = [on |-> TRUE, next |-> r.through + 1]
        /\ stale' = Torn(r) /\ dialog' = NoDialog
        /\ UNCHANGED <<serverVars, client, request, refresh, dismissed, inputs>>
    BY <1>7 DEF TuiTakeSnapshot
  <2>2. /\ Head(queue) \in Items /\ Head(queue).type = "reply" /\ ItemFits(row, ask, diagnosis, log, Head(queue))
        /\ queue' \in Seq(Items)
        /\ \A m \in 1..Len(queue') : ItemFits(row, ask, diagnosis, log, queue'[m])
    BY <2>1, TakeKeeps
  <2>3. r \in Replies /\ ReplyFits(row, ask, diagnosis, log, "snapshot", "answered", r)
    BY <2>1, <2>2 DEF Items, ItemFits
  <2> HIDE DEF r
  <2>4. /\ FromSnapshot(r) \in Views /\ r.through \in Nat /\ FromSnapshot(r).last <= Len(log)
        /\ TaskFits(row, log, FromSnapshot(r).task, FromSnapshot(r).status, FromSnapshot(r).last)
        /\ ~Torn(r) => DiagnosisFits(diagnosis, log, FromSnapshot(r).diagnosis, FromSnapshot(r).last)
    BY <2>3, SnapshotMakesFit
  <2>5. /\ feed' \in [on : BOOLEAN, next : Nat \ {0}] /\ stale' \in BOOLEAN
        /\ dialog' \in [shows : {"none", "error", "approval"}, task : Tasks \cup {0}]
    BY <2>1, <2>4 DEF NoDialog, Torn
  <2>6. Shapes'
    BY <1>1, <2>1, <2>2, <2>4, <2>5 DEF Shapes
  <2> QED BY <1>1, <2>1, <2>2, <2>4, <2>6, ClientStepKeeps
<1>8. CASE TuiTakeReply
  <2> DEFINE r == Head(queue).reply
             what == Head(queue).what
  <2>1. /\ Taken("reply") /\ what \in Calls
        /\ UNCHANGED <<serverVars, client, feed, request, refresh, dismissed, inputs>>
    BY <1>8 DEF TuiTakeReply
  <2>2. /\ Head(queue) \in Items /\ Head(queue).type = "reply" /\ ItemFits(row, ask, diagnosis, log, Head(queue))
        /\ queue' \in Seq(Items)
        /\ \A m \in 1..Len(queue') : ItemFits(row, ask, diagnosis, log, queue'[m])
    BY <2>1, TakeKeeps
  <2>3. r \in Replies /\ ReplyFits(row, ask, diagnosis, log, what, "answered", r)
    BY <2>1, <2>2 DEF Items, ItemFits
  <2>4. CASE dialog' \in {ErrorDialog, NoDialog} /\ UNCHANGED <<view, stale>>
    <3>1. dialog' \in [shows : {"none", "error", "approval"}, task : Tasks \cup {0}]
      BY <2>4 DEF ErrorDialog, NoDialog
    <3>2. Shapes'
      BY <1>1, <2>1, <2>2, <2>4, <3>1 DEF Shapes
    <3> QED BY <1>1, <2>1, <2>2, <2>4, <3>2, ClientStepKeeps DEF ViewFits
  <2>5. ASSUME /\ r.ok /\ what # "respond"
               /\ view' = WithTask(view, r.task, r.status)
               /\ stale' = (stale \/ Outdated(r.task, r.status))
               /\ UNCHANGED dialog
        PROVE  Inv'
    <3>1. what \in {"start", "cancel"}
      BY <2>1, <2>5 DEF Calls
    <3> HIDE DEF r, what
    <3>2. r.task # 0 /\ r.task \in Tasks \cup {0} /\ r.status \in TaskStatus \cup {"none"}
      BY <2>3, <2>5, <3>1 DEF ReplyFits, CallFits, Tasks
    <3>3. /\ view' \in Views /\ view'.open = view.open /\ view'.last = view.last /\ view'.diagnosis = view.diagnosis
          /\ view.open => view'.task = r.task /\ view'.status = r.status
      BY <1>2, <2>3, <2>5, <3>2, TaskShown
    <3>4. stale' \in BOOLEAN
      BY <1>2, <2>5
    <3>5. ASSUME view'.open, ~stale'
          PROVE  /\ TaskFits(row, log, view'.task, view'.status, view'.last)
                 /\ DiagnosisFits(diagnosis, log, view'.diagnosis, view'.last)
      BY <1>1, <2>3, <2>5, <3>1, <3>3, <3>5, ReplyKeepsTask DEF ViewFits
    <3>6. Shapes'
      BY <1>1, <2>1, <2>2, <2>5, <3>3, <3>4 DEF Shapes
    <3> QED BY <1>1, <2>1, <2>2, <2>5, <3>3, <3>5, <3>6, ClientStepKeeps
  <2> QED BY <1>8, <2>4, <2>5 DEF TuiTakeReply
<1>9. CASE TuiTakeFatal
  <2>1. /\ Taken("fatal") /\ dialog' = ErrorDialog
        /\ UNCHANGED <<serverVars, client, view, feed, request, refresh, stale, dismissed, inputs>>
    BY <1>9 DEF TuiTakeFatal
  <2>2. /\ queue' \in Seq(Items)
        /\ \A m \in 1..Len(queue') : ItemFits(row, ask, diagnosis, log, queue'[m])
    BY <2>1, TakeKeeps
  <2>3. dialog' \in [shows : {"none", "error", "approval"}, task : Tasks \cup {0}]
    BY <2>1 DEF ErrorDialog
  <2>4. Shapes'
    BY <1>1, <2>1, <2>2, <2>3 DEF Shapes
  <2> QED BY <1>1, <2>1, <2>2, <2>4, ClientStepKeeps DEF ViewFits
<1>10. CASE TuiKey
  <2>1. UNCHANGED <<serverVars, client, view, dialog, feed, queue, refresh, stale, dismissed>>
    BY <1>10 DEF TuiKey
  <2>2. /\ request' \in [Slots -> Requests] /\ Input
        /\ \A j \in Slots : RequestFits(row, ask, diagnosis, log, request'[j])
    <3>1. CASE TuiStart
      BY <3>1, SendKeeps DEF TuiStart, Command, Calls
    <3>2. CASE TuiCancel
      BY <1>2, <3>2, SendKeeps DEF TuiCancel, Command, Calls
    <3>3. CASE TuiReopen
      BY <3>3, SendKeeps DEF TuiReopen, Command, Calls
    <3>4. CASE TuiAnswer
      <4>1. dialog.task \in Tasks
        BY <1>2, <3>4 DEF TuiAnswer, Views
      <4> QED BY <3>4, <4>1, SendKeeps DEF TuiAnswer, Command, Calls
    <3> QED BY <1>10, <3>1, <3>2, <3>3, <3>4 DEF TuiKey
  <2>3. inputs' \in 0..client'.inputs
    BY <2>1, <2>2, InputKeeps
  <2>4. Shapes'
    BY <1>1, <2>1, <2>2, <2>3 DEF Shapes
  <2> QED BY <1>1, <2>1, <2>2, <2>4, ClientStepKeeps DEF ViewFits
<1>11. CASE TuiDismiss
  <2>1. /\ dialog' = NoDialog /\ dismissed' = dismissed \cup ({dialog.task} \cap Tasks)
        /\ UNCHANGED <<serverVars, client, view, feed, queue, request, refresh, stale, inputs>>
    BY <1>11 DEF TuiDismiss
  <2>2. /\ dialog' \in [shows : {"none", "error", "approval"}, task : Tasks \cup {0}]
        /\ dismissed' \subseteq Tasks
    BY <1>2, <2>1 DEF NoDialog
  <2>3. Shapes'
    BY <1>1, <2>1, <2>2 DEF Shapes
  <2> QED BY <1>1, <2>1, <2>3, ClientStepKeeps DEF ViewFits
<1> QED BY <1>3, <1>4, <1>5, <1>6, <1>7, <1>8, <1>9, <1>10, <1>11 DEF Tui

\* Every action of the desktop keeps the invariant.
LEMMA DesktopKeeps ==
    ASSUME ServerAssumption, ClientAssumption, Inv, Desktop
    PROVE  Inv'
<1>1. /\ client.kind = "desktop"
      /\ Shapes /\ view.last <= Len(log) /\ (view.open /\ ~stale => ViewFits)
      /\ \A i \in Slots : RequestFits(row, ask, diagnosis, log, request[i])
      /\ \A m \in 1..Len(queue) : ItemFits(row, ask, diagnosis, log, queue[m])
  BY DEF Desktop, Inv, ClientInv
<1>2. /\ view \in Views /\ view.last \in Nat /\ view.task \in Tasks \cup {0} /\ Len(log) \in Nat
      /\ dialog \in [shows : {"none", "error", "approval"}, task : Tasks \cup {0}]
      /\ dialog = NoDialog \/ (dialog.task # 0 /\ dialog.shows = "approval")
      /\ feed \in [on : BOOLEAN, next : Nat \ {0}]
      /\ request \in [Slots -> Requests] /\ refresh \in BOOLEAN /\ stale \in BOOLEAN
  BY <1>1 DEF Shapes, Views, Inv, ServerInv, ServerTypeOK
<1>3. CASE DesktopEvent
  <2> DEFINE n == feed.next
  <2>1. /\ feed.next <= Len(log) /\ feed' = [feed EXCEPT !.next = @ + 1]
        /\ UNCHANGED <<serverVars, client, queue, request, dismissed, inputs>>
    BY <1>3 DEF DesktopEvent
  <2>2. feed' \in [on : BOOLEAN, next : Nat \ {0}] /\ n \in 1..Len(log)
    <3>1. n \in Nat \ {0} /\ n + 1 \in Nat \ {0}
      BY <1>2
    <3> QED BY <1>2, <2>1, <3>1
  <2> HIDE DEF n
  <2>3. CASE n <= view.last /\ UNCHANGED <<view, dialog, refresh, stale>>
    <3>1. Shapes'
      BY <1>1, <2>1, <2>2, <2>3 DEF Shapes
    <3> QED BY <1>1, <2>1, <2>3, <3>1, ClientStepKeeps DEF ViewFits
  <2>4. ASSUME /\ n > view.last /\ view' = WithEvent(view, n) /\ dialog' = DesktopDialog(log[n])
               /\ refresh' = (refresh \/ DesktopReloads(log[n]))
               /\ stale' = (stale \/ OutOfOrder(n))
        PROVE  Inv'
    <3>1. view' \in Views /\ view'.last = n /\ view'.open = view.open /\ view'.last <= Len(log)
      BY <1>2, <2>2, <2>4, EventShape
    <3>2. /\ dialog' \in [shows : {"none", "error", "approval"}, task : Tasks \cup {0}]
          /\ dialog' = NoDialog \/ (dialog'.task # 0 /\ dialog'.shows = "approval")
      <4>1. log[n] \in Events /\ log[n] \in Told
        BY <2>2 DEF Inv, ServerInv, ServerTypeOK, Told, Of
      <4>2. log[n].task \in Tasks \cup {0} /\ (log[n].kind = "requested" => log[n].task # 0)
        <5>1. EventFits(row, ask, diagnosis, log[n])
          BY <4>1 DEF Inv, ServerInv
        <5> QED BY <4>1, <5>1 DEF Events, EventFits, Tasks
      <4> QED BY <1>2, <2>4, <4>2 DEF DesktopDialog, Approval, NoDialog
    <3>3. stale' \in BOOLEAN /\ refresh' \in BOOLEAN
      BY <1>2, <2>4
    <3>4. ASSUME view'.open, ~stale'
          PROVE  /\ TaskFits(row, log, view'.task, view'.status, view'.last)
                 /\ DiagnosisFits(diagnosis, log, view'.diagnosis, view'.last)
                 /\ DialogFits(ask, log, dialog'.task, view'.last)
      BY <1>1, <2>2, <2>4, <3>1, <3>4, EventKeepsTask, EventKeepsDiagnosis, EventKeepsDialog
    <3>5. Shapes'
      BY <1>1, <2>1, <2>2, <3>1, <3>2, <3>3 DEF Shapes
    <3> QED BY <1>1, <2>1, <3>1, <3>4, <3>5, ClientStepKeeps
  <2> QED BY <1>3, <2>3, <2>4 DEF DesktopEvent, n
<1>4. CASE DesktopBreak
  <2>1. /\ feed' = [feed EXCEPT !.on = FALSE] /\ Input
        /\ UNCHANGED <<serverVars, client, view, dialog, queue, request, refresh, stale, dismissed>>
    BY <1>4 DEF DesktopBreak
  <2>2. feed' \in [on : BOOLEAN, next : Nat \ {0}] /\ inputs' \in 0..client'.inputs
    BY <1>2, <2>1, InputKeeps
  <2>3. Shapes'
    BY <1>1, <2>1, <2>2 DEF Shapes
  <2> QED BY <1>1, <2>1, <2>3, ClientStepKeeps DEF ViewFits
<1>5. CASE DesktopRefresh
  <2>1. /\ refresh' = FALSE /\ Send("snapshot", 0, "none")
        /\ UNCHANGED <<serverVars, client, view, dialog, feed, queue, stale, dismissed, inputs>>
    BY <1>5 DEF DesktopRefresh
  <2>2. /\ request' \in [Slots -> Requests]
        /\ \A j \in Slots : RequestFits(row, ask, diagnosis, log, request'[j])
    BY <2>1, SendKeeps
  <2>3. Shapes'
    BY <1>1, <2>1, <2>2 DEF Shapes
  <2> QED BY <1>1, <2>1, <2>2, <2>3, ClientStepKeeps DEF ViewFits
<1>6. CASE DesktopClick
  <2>1. UNCHANGED <<serverVars, client, view, dialog, feed, queue, refresh, stale, dismissed>>
    BY <1>6 DEF DesktopClick
  <2>2. /\ request' \in [Slots -> Requests] /\ Input
        /\ \A j \in Slots : RequestFits(row, ask, diagnosis, log, request'[j])
    <3>1. CASE Command("start", 0, "none")
      BY <3>1, SendKeeps DEF Command, Calls
    <3>2. CASE ShowsActive /\ Command("cancel", view.task, "none")
      <4>1. view.task \in Tasks
        BY <1>2, <3>2 DEF ShowsActive, Views
      <4> QED BY <3>2, <4>1, SendKeeps DEF Command, Calls
    <3>3. CASE dialog.shows = "approval" /\ \E choice \in Choices : Command("respond", dialog.task, choice)
      <4>1. dialog.task \in Tasks
        BY <1>2, <3>3 DEF NoDialog
      <4> QED BY <3>3, <4>1, SendKeeps DEF Command, Calls
    <3> QED BY <1>6, <3>1, <3>2, <3>3 DEF DesktopClick
  <2>3. inputs' \in 0..client'.inputs
    BY <2>1, <2>2, InputKeeps
  <2>4. Shapes'
    BY <1>1, <2>1, <2>2, <2>3 DEF Shapes
  <2> QED BY <1>1, <2>1, <2>2, <2>4, ClientStepKeeps DEF ViewFits
<1>7. ASSUME NEW i \in Slots, DesktopSnapshot(i) PROVE Inv'
  <2> DEFINE r == request[i].reply
  <2>1. /\ request[i].stage = "answered" /\ request' = [request EXCEPT ![i] = Idle]
        /\ request[i].what = "snapshot" /\ view' = FromSnapshot(r) /\ stale' = Torn(r)
        /\ dialog' = IF r.pending = 0 THEN NoDialog ELSE Approval(r.pending)
        /\ feed' = IF view.open THEN feed ELSE [on |-> TRUE, next |-> r.through + 1]
        /\ UNCHANGED <<serverVars, client, queue, refresh, dismissed, inputs>>
    BY <1>7 DEF DesktopSnapshot, Received, Reply
  <2>2. r \in Replies /\ ReplyFits(row, ask, diagnosis, log, "snapshot", "answered", r)
    <3>1. request[i] \in Requests /\ RequestFits(row, ask, diagnosis, log, request[i])
      BY <1>1, <1>2
    <3> QED BY <2>1, <3>1 DEF RequestFits, Requests
  <2> HIDE DEF r
  <2>3. /\ FromSnapshot(r) \in Views /\ r.through \in Nat /\ FromSnapshot(r).last <= Len(log)
        /\ DialogFits(ask, log, r.pending, FromSnapshot(r).last)
        /\ TaskFits(row, log, FromSnapshot(r).task, FromSnapshot(r).status, FromSnapshot(r).last)
        /\ ~Torn(r) => DiagnosisFits(diagnosis, log, FromSnapshot(r).diagnosis, FromSnapshot(r).last)
    BY <2>2, SnapshotMakesFit
  <2>4. /\ dialog' \in [shows : {"none", "error", "approval"}, task : Tasks \cup {0}]
        /\ dialog' = NoDialog \/ (dialog'.task # 0 /\ dialog'.shows = "approval")
        /\ dialog'.task = r.pending
    BY <2>1, <2>2 DEF NoDialog, Approval, Replies
  <2>5. feed' \in [on : BOOLEAN, next : Nat \ {0}] /\ stale' \in BOOLEAN
    BY <1>2, <2>1, <2>3 DEF Torn
  <2>6. /\ request' \in [Slots -> Requests]
        /\ \A j \in Slots : RequestFits(row, ask, diagnosis, log, request'[j])
    BY <2>1, FreeKeeps
  <2>7. Shapes'
    BY <1>1, <2>1, <2>3, <2>4, <2>5, <2>6 DEF Shapes
  <2> QED BY <1>1, <2>1, <2>3, <2>4, <2>6, <2>7, ClientStepKeeps
<1>8. ASSUME NEW i \in Slots, DesktopReply(i) PROVE Inv'
  <2> DEFINE r == request[i].reply
             what == request[i].what
  <2>1. /\ request[i].stage = "answered" /\ request' = [request EXCEPT ![i] = Idle] /\ what \in Calls
        /\ UNCHANGED <<serverVars, client, dialog, feed, queue, refresh, dismissed, inputs>>
    BY <1>8 DEF DesktopReply, Received
  <2>2. r \in Replies /\ ReplyFits(row, ask, diagnosis, log, what, "answered", r)
    <3>1. request[i] \in Requests /\ RequestFits(row, ask, diagnosis, log, request[i])
      BY <1>1, <1>2
    <3> QED BY <2>1, <3>1 DEF RequestFits, Requests
  <2>3. /\ request' \in [Slots -> Requests]
        /\ \A j \in Slots : RequestFits(row, ask, diagnosis, log, request'[j])
    BY <2>1, FreeKeeps
  <2>4. CASE UNCHANGED <<view, stale>>
    <3>1. Shapes'
      BY <1>1, <2>1, <2>3, <2>4 DEF Shapes
    <3> QED BY <1>1, <2>1, <2>3, <2>4, <3>1, ClientStepKeeps DEF ViewFits
  <2>5. ASSUME /\ r.ok /\ what # "respond"
               /\ view' = WithTask(view, r.task, r.status)
               /\ stale' = (stale \/ Outdated(r.task, r.status))
        PROVE  Inv'
    <3>1. what \in {"start", "cancel"}
      BY <2>1, <2>5 DEF Calls
    <3> HIDE DEF r, what
    <3>2. r.task # 0 /\ r.task \in Tasks \cup {0} /\ r.status \in TaskStatus \cup {"none"}
      BY <2>2, <2>5, <3>1 DEF ReplyFits, CallFits, Tasks
    <3>3. /\ view' \in Views /\ view'.open = view.open /\ view'.last = view.last /\ view'.diagnosis = view.diagnosis
          /\ view.open => view'.task = r.task /\ view'.status = r.status
      BY <1>2, <2>2, <2>5, <3>2, TaskShown
    <3>4. stale' \in BOOLEAN
      BY <1>2, <2>5
    <3>5. ASSUME view'.open, ~stale'
          PROVE  /\ TaskFits(row, log, view'.task, view'.status, view'.last)
                 /\ DiagnosisFits(diagnosis, log, view'.diagnosis, view'.last)
                 /\ DialogFits(ask, log, dialog'.task, view'.last)
      BY <1>1, <2>1, <2>2, <2>5, <3>1, <3>3, <3>5, ReplyKeepsTask DEF ViewFits
    <3>6. Shapes'
      BY <1>1, <2>1, <2>3, <3>3, <3>4 DEF Shapes
    <3> QED BY <1>1, <2>1, <2>3, <3>3, <3>5, <3>6, ClientStepKeeps
  <2> QED BY <1>8, <2>4, <2>5 DEF DesktopReply, Reply
<1> QED BY <1>3, <1>4, <1>5, <1>6, <1>7, <1>8 DEF Desktop

-----------------------------------------------------------------------------
(* The theorems *)

\* The invariant holds at first: the client has sent its request for a snapshot.
LEMMA Starts ==
    ASSUME ServerAssumption, ClientAssumption, Init
    PROVE  Inv
<1>1. ServerInv /\ ServerTypeOK
  BY ServerStarts DEF Init, ServerInv
<1>2. PICK s \in Slots : request = [i \in Slots |-> IF i = s THEN [Idle EXCEPT !.what = "snapshot"] ELSE Idle]
  BY DEF Init
<1>3. /\ Idle \in Requests /\ [Idle EXCEPT !.what = "snapshot"] \in Requests
      /\ RequestFits(row, ask, diagnosis, log, Idle)
      /\ RequestFits(row, ask, diagnosis, log, [Idle EXCEPT !.what = "snapshot"])
  <2>1. Idle \in Requests /\ [Idle EXCEPT !.what = "snapshot"] \in Requests
    BY RecordShapes DEF Idle, Requests
  <2>2. RequestFits(row, ask, diagnosis, log, Idle)
    BY DEF Idle, RequestFits, ReplyFits
  <2>3. RequestFits(row, ask, diagnosis, log, [Idle EXCEPT !.what = "snapshot"])
    BY DEF Idle, RequestFits, ReplyFits, SnapshotFits
  <2> QED BY <2>1, <2>2, <2>3
<1>4. /\ request \in [Slots -> Requests]
      /\ \A i \in Slots : RequestFits(row, ask, diagnosis, log, request[i])
  BY <1>2, <1>3
<1>5. /\ client \in Clients /\ client.inputs \in Nat
      /\ dialog = NoDialog /\ feed = [on |-> FALSE, next |-> 1] /\ queue = <<>>
      /\ refresh = FALSE /\ stale = FALSE /\ dismissed = {} /\ inputs = 0
      /\ view = [open |-> FALSE, task |-> 0, status |-> "none", diagnosis |-> 0, approvals |-> {}, last |-> 0]
  BY DEF Init, ClientAssumption
<1>6. view \in Views /\ view.last <= Len(log) /\ ~view.open
  <2>1. Len(log) \in Nat
    BY <1>1 DEF ServerTypeOK
  <2> QED BY <1>5, <2>1 DEF Views, ActiveStatus
<1>7. Shapes
  <2>1. /\ dialog \in [shows : {"none", "error", "approval"}, task : Tasks \cup {0}]
        /\ feed \in [on : BOOLEAN, next : Nat \ {0}]
    BY <1>5 DEF NoDialog
  <2>2. queue \in Seq(Items)
    BY <1>5
  <2>3. dismissed \subseteq Tasks /\ refresh \in BOOLEAN /\ stale \in BOOLEAN
    BY <1>5
  <2>4. inputs \in 0..client.inputs
    <3>1. \A n \in Nat : 0 \in 0..n
      OBVIOUS
    <3> QED BY <1>5, <3>1, Zenon
  <2> QED BY <1>4, <1>5, <1>6, <2>1, <2>2, <2>3, <2>4 DEF Shapes
<1>8. \A m \in 1..Len(queue) : ItemFits(row, ask, diagnosis, log, queue[m])
  BY <1>5
<1> QED BY <1>1, <1>4, <1>6, <1>7, <1>8 DEF Inv, ClientInv

\* Every step of service or client keeps the invariant.
LEMMA NextKeeps ==
    ASSUME ServerAssumption, ClientAssumption, Inv, [Next]_vars
    PROVE  Inv'
<1>1. CASE Service
  <2>1. ServerNext /\ UNCHANGED clientVars
    BY <1>1 DEF Service, ServerNext
  <2>2. ServerInv' /\ ServerTypeOK' /\ Grows
    BY <2>1, ServiceStep DEF Inv
  <2>3. /\ \A i \in Slots : RequestFits(row', ask', diagnosis', log', request[i])
        /\ \A m \in 1..Len(queue) : ItemFits(row', ask', diagnosis', log', queue[m])
        /\ view.last <= Len(log')
        /\ view.open /\ ~stale =>
               /\ TaskFits(row', log', view.task, view.status, view.last)
               /\ DiagnosisFits(diagnosis', log', view.diagnosis, view.last)
               /\ client.kind = "desktop" => DialogFits(ask', log', dialog.task, view.last)
    BY <2>2, ClientStaysFit DEF Inv
  <2>4. /\ client' = client /\ view' = view /\ dialog' = dialog /\ feed' = feed /\ queue' = queue
        /\ request' = request /\ refresh' = refresh /\ stale' = stale /\ dismissed' = dismissed /\ inputs' = inputs
    BY <2>1 DEF clientVars
  <2>5. Shapes'
    BY <2>4 DEF Inv, ClientInv, Shapes
  <2> QED BY <2>2, <2>3, <2>4, <2>5 DEF Inv, ClientInv, ViewFits
<1>2. ASSUME NEW i \in Slots, Serve(i) PROVE Inv'
  BY <1>2, ServeKeeps
<1>3. CASE Tui
  BY <1>3, TuiKeeps
<1>4. CASE Desktop
  BY <1>4, DesktopKeeps
<1>5. CASE UNCHANGED vars
  <2>1. UNCHANGED serverVars /\ UNCHANGED clientVars
    BY <1>5 DEF vars
  <2>2. /\ client' = client /\ view' = view /\ dialog' = dialog /\ feed' = feed /\ queue' = queue
        /\ request' = request /\ refresh' = refresh /\ stale' = stale /\ dismissed' = dismissed /\ inputs' = inputs
    BY <2>1 DEF clientVars
  <2>3. Shapes'
    BY <2>2 DEF Inv, ClientInv, Shapes
  <2> QED BY <2>1, <2>2, <2>3, ClientStepKeeps DEF Inv, ClientInv, ViewFits
<1> QED BY <1>1, <1>2, <1>3, <1>4, <1>5 DEF Next

\* What happened to a row, and to an approval, is in the log once nothing is owed.
LEMMA QuietLog ==
    ASSUME ServerInv, \A p \in Publishers : Announced(p)
    PROVE  Told = Of(log)
BY DEF Told, Of, Announced, Publishers

\* A client at rest has no reply, item or request that its view could be behind.
LEMMA InvIsQuietView ==
    ASSUME ServerAssumption, ClientAssumption, Inv
    PROVE  QuietViewIsServer
<1>1. TypeOK
  <2>1. Shapes /\ ServerTypeOK
    BY DEF Inv, ServerInv, ClientInv
  <2>2. \A m \in 1..Len(queue) : queue[m].type \in {"event", "reply", "fatal"}
    <3>1. \A m \in 1..Len(queue) : queue[m] \in Items
      BY <2>1 DEF Shapes
    <3> QED BY <3>1 DEF Items
  <2>3. \A i \in Slots : /\ request[i].what \in Calls \cup {"snapshot", "idle"}
                         /\ request[i].stage \in Stages
    BY <2>1 DEF Shapes, Requests
  <2>4. feed \in [on : BOOLEAN, next : Nat] /\ {refresh, stale} \subseteq BOOLEAN
    BY <2>1 DEF Shapes
  <2> QED BY <2>1, <2>2, <2>3, <2>4 DEF TypeOK, Shapes, Views
<1>2. ASSUME Current
      PROVE  /\ Active = IF ShowsActive THEN {view.task} ELSE {}
             /\ view.diagnosis = diagnosis
  <2>1. /\ TaskFits(row, log, view.task, view.status, Len(log))
        /\ DiagnosisFits(diagnosis, log, view.diagnosis, Len(log))
        /\ ServerInv /\ Told = Of(log)
    BY <1>2, QuietLog DEF Current, Quiet, Inv, ClientInv, ViewFits
  <2>2. ASSUME NEW t \in Active PROVE t = view.task /\ ShowsActive
    <3>1. row[t] \in {"running", "waiting_for_approval"} /\ t \in Tasks /\ row[t] \in ActiveStatus
      BY <1>2 DEF Current, Quiet, Active, ActiveStatus
    <3>2. TaskEvent(t, "running") \in Told
      BY <2>1, <3>1 DEF ServerInv, RowIsTold
    <3>3. PICK m \in 1..Len(log) : log[m] = TaskEvent(t, "running")
      BY <2>1, <3>2 DEF Of
    <3> QED BY <2>1, <3>1, <3>3 DEF TaskFits, ShowsActive
  <2>3. ASSUME ShowsActive PROVE view.task \in Active
    <3>1. /\ view.task \in Tasks /\ row[view.task] # "absent"
          /\ \A m \in 1..Len(log) : \A s \in TerminalStatus : log[m] # TaskEvent(view.task, s)
      BY <2>1, <2>3 DEF TaskFits, ShowsActive
    <3>2. ~IsTerminal(row[view.task])
      BY <2>1, <3>1 DEF ServerInv, RowIsTold, Of
    <3> QED BY <2>1, <3>1, <3>2 DEF ServerInv, ServerTypeOK, TaskStatus, IsTerminal, Active
  <2>4. view.diagnosis = diagnosis
    <3>1. view.diagnosis \in Nat /\ diagnosis \in Nat
      BY DEF Inv, ServerInv, ServerTypeOK, ClientInv, Shapes, Views, Tasks
    <3>2. view.diagnosis <= diagnosis
      BY <2>1 DEF DiagnosisFits
    <3>3. diagnosis # 0 => diagnosis <= view.diagnosis
      <4>1. diagnosis # 0 => \E m \in 1..Len(log) : log[m] = DiagnosisOf(diagnosis)
        BY <2>1 DEF ServerInv, Of
      <4> QED BY <2>1, <4>1 DEF DiagnosisFits, DiagnosisOf, Event
    <3> QED BY <3>1, <3>2, <3>3
  <2> QED BY <2>2, <2>3, <2>4
<1> QED BY <1>1, <1>2 DEF QuietViewIsServer

\* A desktop at rest shows the dialog that the whole log gives.
LEMMA InvIsDialog ==
    ASSUME ServerAssumption, ClientAssumption, Inv
    PROVE  DesktopApprovalShown
<1>1. SUFFICES ASSUME Current, client.kind = "desktop"
      PROVE  /\ dialog.shows = "approval" => dialog.task \in Pending
             /\ OneAtATime => dialog = IF Pending = {} THEN NoDialog ELSE Approval(FirstPending)
  BY DEF DesktopApprovalShown
<1>2. /\ DialogFits(ask, log, dialog.task, Len(log))
      /\ ServerInv /\ Told = Of(log) /\ Shapes
  BY <1>1, QuietLog DEF Current, Quiet, Inv, ClientInv, ViewFits
<1>3. dialog.task # 0 => dialog.task \in Pending
  <2>1. SUFFICES ASSUME dialog.task # 0 PROVE dialog.task \in Pending
    OBVIOUS
  <2>2. /\ dialog.task \in Tasks /\ ask[dialog.task] \in OnRecord
        /\ \A m \in 1..Len(log) : log[m] # ResolutionOf(dialog.task)
    BY <1>2, <2>1 DEF DialogFits
  <2>3. ask[dialog.task] \notin Decided
    BY <1>2, <2>2 DEF ServerInv, AskIsTold, Of
  <2> QED BY <2>2, <2>3 DEF OnRecord, Pending
<1>4. /\ dialog = NoDialog \/ (dialog.task # 0 /\ dialog.shows = "approval")
      /\ dialog \in [shows : {"none", "error", "approval"}, task : Tasks \cup {0}]
  BY <1>1, <1>2 DEF Shapes
<1>5. ASSUME OneAtATime, NEW t \in Pending PROVE dialog.task = t
  <2>1. t \in Tasks /\ ask[t] = "pending" /\ Serial(log)
    BY <1>5 DEF Pending, OneAtATime, Serial
  <2>2. RequestOf(t) \in Of(log)
    BY <1>2, <2>1 DEF ServerInv, AskIsTold, OnRecord
  <2>3. PICK m \in 1..Len(log) : log[m] = RequestOf(t)
    BY <2>2 DEF Of
  <2> QED BY <1>2, <2>1, <2>3 DEF DialogFits
<1>6. ASSUME OneAtATime PROVE dialog = IF Pending = {} THEN NoDialog ELSE Approval(FirstPending)
  <2>1. CASE Pending = {}
    BY <1>3, <1>4, <2>1
  <2>2. CASE Pending # {}
    <3>1. FirstPending \in Pending
      <4>1. 0 \in 0..Len(log)
        BY <1>2 DEF ServerInv, ServerTypeOK
      <4> QED BY <1>2, <2>2, <4>1, FirstPendingFits
    <3>2. dialog.task = FirstPending /\ FirstPending # 0
      BY <1>5, <1>6, <3>1 DEF Pending, Tasks
    <3> QED BY <1>4, <2>2, <3>2 DEF Approval, NoDialog
  <2> QED BY <2>1, <2>2
<1>7. dialog.shows = "approval" => dialog.task \in Pending
  BY <1>3, <1>4 DEF NoDialog
<1> QED BY <1>6, <1>7

\* The view of a client at rest is the session's: its active task, if it has one, and its
\* newest diagnosis (reducers of both clients, session_snapshot and the stream between).
THEOREM ViewCorrect == ServerAssumption /\ ClientAssumption => (Spec => []QuietViewIsServer)
<1> SUFFICES ASSUME ServerAssumption, ClientAssumption PROVE Spec => []QuietViewIsServer
  OBVIOUS
<1>1. Init => Inv
  BY Starts
<1>2. Inv /\ [Next]_vars => Inv'
  BY NextKeeps
<1>3. Inv => QuietViewIsServer
  BY InvIsQuietView
<1> QED BY <1>1, <1>2, <1>3, PTL DEF Spec

\* And the desktop at rest shows the dialog of a pending approval or none, and the one that
\* is pending unless approvals waited beside each other (reducer and ApprovalDialog).
THEOREM DialogCorrect == ServerAssumption /\ ClientAssumption => (Spec => []DesktopApprovalShown)
<1> SUFFICES ASSUME ServerAssumption, ClientAssumption PROVE Spec => []DesktopApprovalShown
  OBVIOUS
<1>1. Init => Inv
  BY Starts
<1>2. Inv /\ [Next]_vars => Inv'
  BY NextKeeps
<1>3. Inv => DesktopApprovalShown
  BY InvIsDialog
<1> QED BY <1>1, <1>2, <1>3, PTL DEF Spec

\* Of the invariant's shapes the type invariant is the plain part.
LEMMA InvIsTyped == Inv => TypeOK
<1> SUFFICES ASSUME Inv PROVE TypeOK
  OBVIOUS
<1>1. ServerTypeOK /\ Shapes
  BY DEF Inv, ServerInv, ClientInv
<1>2. \A m \in 1..Len(queue) : queue[m].type \in {"event", "reply", "fatal"}
  <2>1. \A m \in 1..Len(queue) : queue[m] \in Items
    BY <1>1 DEF Shapes
  <2> QED BY <2>1 DEF Items
<1>3. \A i \in Slots : /\ request[i].what \in Calls \cup {"snapshot", "idle"}
                       /\ request[i].stage \in Stages
  <2>1. \A i \in Slots : request[i] \in Requests
    BY <1>1 DEF Shapes
  <2> QED BY <2>1 DEF Requests
<1>4. feed \in [on : BOOLEAN, next : Nat] /\ {refresh, stale} \subseteq BOOLEAN
  BY <1>1 DEF Shapes
<1>5. view \in [open : BOOLEAN, task : Tasks \cup {0}, status : TaskStatus \cup {"none"},
                diagnosis : Tasks \cup {0}, approvals : SUBSET Tasks, last : Nat]
  BY <1>1 DEF Shapes, Views
<1> QED BY <1>1, <1>2, <1>3, <1>4, <1>5 DEF Shapes, TypeOK

\* Server, requests, queue and view of either client keep their shapes (the records of
\* model.rs, state.ts and session_snapshot).
THEOREM TypeCorrect == ServerAssumption /\ ClientAssumption => (Spec => []TypeOK)
<1> SUFFICES ASSUME ServerAssumption, ClientAssumption PROVE Spec => []TypeOK
  OBVIOUS
<1>1. Init => Inv
  BY Starts
<1>2. Inv /\ [Next]_vars => Inv'
  BY NextKeeps
<1>3. Inv => TypeOK
  BY InvIsTyped
<1> QED BY <1>1, <1>2, <1>3, PTL DEF Spec
===============================================================================
