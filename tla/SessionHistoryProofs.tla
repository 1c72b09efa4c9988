------------------------- MODULE SessionHistoryProofs -------------------------
(***************************************************************************)
(* Proof that tasks never undo each other's saves of a session, however    *)
(* many: only what an archive, the title of a new session, a shell or an   *)
(* analysis of the command line is a part of gets lost; and that, where    *)
(* only analyses undo each other, what may be analyzed was replayed as it  *)
(* stands.                                                                 *)
(***************************************************************************)
EXTENDS SessionHistory, FiniteSetTheorems, TLAPS

\* A recorder here has loaded the journal; unless it is crowded nobody else writes to it.
Loaded == {"prompt", "execute", "touch", "replay"}

IsJob(j) == j \in [kind : {j.kind}, pc : {j.pc}, record : {j.record}, actions : {j.actions},
                   missed : {j.missed}]

\* A job is of its worker's kinds, and a request never comes to where actions are recorded.
IsOf(w, j) ==
    /\ j.pc # "idle" => j.kind \in Kinds(w)
    /\ j.pc = "actions" => j.kind \notin {"archive", "import"}
    /\ w \in Requests => j.pc \notin {"prompt", "execute"}

\* Jobs and journal have their shape.
ShapeInv ==
    /\ jobs = [v \in Workers |-> jobs[v]]
    /\ \A v \in Workers : IsJob(jobs[v]) /\ (jobs[v].pc = "idle" => jobs[v].record = NoRecord)
    /\ \A v \in Workers : IsOf(v, jobs[v])
    /\ journal = [s \in Sessions |-> journal[s]]
    /\ ~crowded => \E n \in Nat : DOMAIN journal["source"] = 1..n

\* One task at a time: the entry of session_tasks is the active task's.  A shell is alone
\* until it is crowded.
AloneInv ==
    /\ \A t \in Tasks : Active(t) => holder = t
    /\ ~crowded => \A s \in Shells, v \in Recorders : Active(s) /\ Active(v) => v = s

\* So a task has missed no other task's save, and a recorder's journal is the stored one.
MissedInv ==
    /\ \A t \in Tasks : jobs[t].missed \subseteq {"archive", "init", "shell", "analysis"}
    /\ \A v \in Workers : jobs[v].missed \subseteq {"archive", "init", "shell", "analysis", "task"}
    /\ ~crowded => \A v \in Recorders : jobs[v].pc \in Loaded => jobs[v].actions = journal["source"]

HistoryInv == ShapeInv /\ AloneInv /\ MissedInv /\ LossesAreKnown

\* Only this worker's job changes.
OnlyJob(w) ==
    /\ jobs' = [v \in Workers |-> jobs'[v]]
    /\ \A v \in Workers \ {w} : jobs'[v] = jobs[v]

\* A step of one job that saves neither the record nor an action of the source.
Moves(w) ==
    /\ OnlyJob(w)
    /\ IsJob(jobs'[w])
    /\ jobs'[w].missed \subseteq jobs[w].missed
    /\ jobs'[w].pc = "idle" => jobs'[w].record = NoRecord
    /\ IsOf(w, jobs'[w])
    /\ ~crowded /\ w \in Recorders /\ jobs'[w].pc \in Loaded => jobs'[w].actions = journal["source"]
    /\ holder' = holder \/ (Free(w) /\ (w \in Tasks => jobs'[w].pc = "idle"))
    /\ journal' = [s \in Sessions |-> journal'[s]]
    /\ journal'["source"] = journal["source"]
    /\ lost' = lost /\ crowded' = crowded

\* Two recorders are never active together, unless it is crowded.
LEMMA OneRecorder ==
    ASSUME HistoryAssumption, AloneInv, ~crowded, NEW v \in Recorders, NEW w \in Recorders,
           Active(v), Active(w)
    PROVE  v = w
BY DEF AloneInv, Recorders, Workers

\* Such a step keeps the invariant.
LEMMA MoveKeeps ==
    ASSUME HistoryAssumption, HistoryInv, NEW w \in Workers, Active(w), Moves(w)
    PROVE  HistoryInv'
<1>1. ShapeInv'
  <2>1. \A v \in Workers : /\ IsJob(jobs'[v])
                           /\ jobs'[v].pc = "idle" => jobs'[v].record = NoRecord
    BY DEF HistoryInv, ShapeInv, Moves, OnlyJob
  <2>2. \A v \in Workers : IsOf(v, jobs'[v])
    BY DEF HistoryInv, ShapeInv, Moves, OnlyJob
  <2>3. ~crowded' => \E n \in Nat : DOMAIN journal'["source"] = 1..n
    BY DEF HistoryInv, ShapeInv, Moves, OnlyJob
  <2>4. /\ jobs' = [v \in Workers |-> jobs'[v]]
        /\ journal' = [s \in Sessions |-> journal'[s]]
    BY DEF Moves, OnlyJob
  <2> QED BY <2>1, <2>2, <2>3, <2>4 DEF ShapeInv, IsJob, IsOf, Kinds, None
<1>2. AloneInv'
  <2>1. ASSUME NEW v \in Workers, Active(v)' PROVE Active(v)
    BY <2>1 DEF Moves, OnlyJob, Active
  <2>2. ~crowded' => \A s \in Shells, v \in Recorders : Active(s)' /\ Active(v)' => v = s
    BY <2>1 DEF HistoryInv, AloneInv, Workers, Recorders, Moves
  <2>3. ASSUME NEW t \in Tasks, Active(t)' PROVE holder' = t
    <3>1. holder = t
      BY <2>1, <2>3 DEF HistoryInv, AloneInv, Workers
    <3>2. CASE holder' = holder
      BY <3>1, <3>2
    <3>3. CASE Free(w) /\ (w \in Tasks => jobs'[w].pc = "idle")
      BY <2>3, <3>1, <3>3 DEF Free, Active
    <3> QED BY <3>2, <3>3 DEF Moves
  <2> QED BY <2>2, <2>3 DEF AloneInv
<1>3. MissedInv'
  BY DEF HistoryInv, MissedInv, Moves, OnlyJob, Recorders, Workers
<1>4. LossesAreKnown'
  BY DEF HistoryInv, LossesAreKnown, Moves
<1> QED BY <1>1, <1>2, <1>3, <1>4 DEF HistoryInv

\* What a job looks like when it ends: it is idle, or a shell at its prompt again.
LEMMA EndMoves ==
    ASSUME HistoryAssumption, HistoryInv, NEW w \in Workers, Active(w),
           Quit(w) \/ (w \in Requests /\ End(w)) \/ (jobs[w].pc \in Loaded /\ End(w)),
           UNCHANGED <<journal, lost, crowded>>
    PROVE  Moves(w)
<1>1. /\ jobs = [v \in Workers |-> jobs[v]] /\ IsJob(jobs[w])
      /\ journal = [s \in Sessions |-> journal[s]]
  BY DEF HistoryInv, ShapeInv
<1>2. CASE jobs' = [jobs EXCEPT ![w] = Idle] /\ Free(w)
  BY <1>1, <1>2 DEF Moves, OnlyJob, Idle, IsJob, IsOf, None, Loaded
<1>3. CASE w \in Shells /\ jobs[w].pc \in Loaded /\ End(w)
  <2>1. jobs' = [jobs EXCEPT ![w] = [jobs[w] EXCEPT !.pc = "prompt"]] /\ Free(w)
    BY <1>3 DEF End, Finished
  <2>2. w \notin Requests /\ w \notin Tasks
    BY <1>3 DEF HistoryAssumption
  <2>3. (~crowded => jobs[w].actions = journal["source"]) /\ jobs[w].kind \in Kinds(w)
    BY <1>3 DEF HistoryInv, MissedInv, Recorders, ShapeInv, IsOf, Loaded
  <2>4. OnlyJob(w) /\ jobs'[w] = [jobs[w] EXCEPT !.pc = "prompt"]
    BY <1>1, <2>1 DEF OnlyJob
  <2>5. /\ IsJob(jobs'[w]) /\ jobs'[w].kind = jobs[w].kind /\ jobs'[w].pc = "prompt"
        /\ jobs'[w].actions = jobs[w].actions /\ jobs'[w].missed = jobs[w].missed
    BY <1>1, <2>4 DEF IsJob
  <2> QED BY <1>1, <2>1, <2>2, <2>3, <2>4, <2>5 DEF Moves, IsOf
<1> QED BY <1>2, <1>3 DEF Quit, End, Finished, HistoryAssumption, Workers

\* A job that goes on and writes nothing that others read.
LEMMA StepMoves ==
    ASSUME HistoryAssumption, HistoryInv, NEW w \in Workers, Active(w),
           OnlyJob(w), IsJob(jobs'[w]), jobs'[w].pc # "idle", jobs'[w].missed = jobs[w].missed,
           IsOf(w, jobs'[w]),
           ~crowded /\ w \in Recorders /\ jobs'[w].pc \in Loaded =>
               jobs'[w].actions = journal["source"],
           UNCHANGED <<holder, journal, lost, crowded>>
    PROVE  Moves(w)
<1>1. journal = [s \in Sessions |-> journal[s]]
  BY DEF HistoryInv, ShapeInv
<1> QED BY <1>1 DEF Moves

\* One that only goes to another place, or comes to an end with a status.
LEMMA GotoMoves ==
    ASSUME HistoryAssumption, HistoryInv, NEW w \in Workers, Active(w),
           NEW pc, Step(w, pc), pc # "idle", UNCHANGED <<holder, journal, lost, crowded>>,
           pc \in Loaded => w \notin Requests /\ jobs[w].pc \in Loaded,
           pc = "actions" => jobs[w].kind \notin {"archive", "import"}
    PROVE  Moves(w)
<1>1. /\ jobs = [v \in Workers |-> jobs[v]] /\ IsJob(jobs[w]) /\ IsOf(w, jobs[w])
      /\ ~crowded /\ w \in Recorders /\ jobs[w].pc \in Loaded => jobs[w].actions = journal["source"]
  BY DEF HistoryInv, ShapeInv, MissedInv
<1>2. OnlyJob(w) /\ jobs'[w] = [jobs[w] EXCEPT !.pc = pc]
  BY <1>1 DEF OnlyJob, Step
<1>3. /\ IsJob(jobs'[w]) /\ jobs'[w].pc = pc /\ jobs'[w].actions = jobs[w].actions
      /\ jobs'[w].kind = jobs[w].kind /\ jobs'[w].missed = jobs[w].missed
  BY <1>1, <1>2 DEF IsJob
<1>4. IsOf(w, jobs'[w])
  BY <1>1, <1>3 DEF IsOf, Active, Loaded
<1> QED BY <1>1, <1>2, <1>3, <1>4, StepMoves

\* A job that has reached its end is still only a step of its own job.
LEMMA EndingMoves ==
    ASSUME HistoryAssumption, HistoryInv, NEW w \in Workers, Active(w),
           NEW status, Ending(w, status), UNCHANGED <<holder, journal, lost, crowded>>
    PROVE  Moves(w)
<1>1. jobs = [v \in Workers |-> jobs[v]] /\ IsJob(jobs[w]) /\ IsOf(w, jobs[w])
  BY DEF HistoryInv, ShapeInv
<1> DEFINE r == [jobs[w].record EXCEPT !.status = status]
<1>2. OnlyJob(w) /\ jobs'[w] = [jobs[w] EXCEPT !.record = r, !.pc = "finish"]
  BY <1>1 DEF OnlyJob, IsJob, Ending
<1> HIDE DEF r
<1>3. /\ IsJob(jobs'[w]) /\ jobs'[w].pc = "finish"
      /\ jobs'[w].kind = jobs[w].kind /\ jobs'[w].missed = jobs[w].missed
  BY <1>1, <1>2 DEF IsJob
<1>4. IsOf(w, jobs'[w])
  BY <1>1, <1>3 DEF IsOf, Active
<1> QED BY <1>2, <1>3, <1>4, StepMoves DEF Loaded

\* Loading, executing, trying and copying are such steps.
LEMMA WorkMoves ==
    ASSUME HistoryAssumption, HistoryInv, NEW w \in Workers,
           \/ LoadSession(w) \/ LoadActions(w) \/ Prompt(w) \/ ShellCancelled(w) \/ Leave(w)
           \/ ReplayAll(w) \/ SaveTrials(w) \/ RunCandidate(w)
           \/ SaveReport(w) \/ ExportSession(w) \/ ReadImport(w) \/ SaveCopy(w)
           \/ CopyAction(w)
    PROVE  Active(w) /\ Moves(w)
<1>1. /\ jobs = [v \in Workers |-> jobs[v]] /\ IsJob(jobs[w])
      /\ IsOf(w, jobs[w])
      /\ ~crowded /\ w \in Recorders /\ jobs[w].pc \in Loaded => jobs[w].actions = journal["source"]
      /\ journal = [s \in Sessions |-> journal[s]]
      /\ w \in Recorders <=> w \notin Requests
  BY DEF HistoryInv, ShapeInv, MissedInv, Recorders, Workers, HistoryAssumption
<1>2. Active(w)
  BY DEF Active, LoadSession, LoadActions, Prompt, ShellCancelled, Leave, ReplayAll,
         SaveTrials, RunCandidate, SaveReport, ExportSession, ReadImport, SaveCopy, CopyAction
<1>3. CASE LoadSession(w)
  <2>1. CASE Quit(w)
    BY <1>2, <1>3, <2>1, EndMoves DEF LoadSession, Rows, Histories
  <2>2. CASE ~Quit(w)
    <3> DEFINE pc == CASE jobs[w].kind = "archive" -> "archive"
                       [] jobs[w].kind = "fork"    -> "copy"
                       [] OTHER                    -> "actions"
    <3>1. /\ pc \in {"archive", "copy", "actions"}
          /\ pc = "actions" => jobs[w].kind \notin {"archive", "fork"}
      OBVIOUS
    <3>2. /\ jobs' = [jobs EXCEPT ![w].record = stored["source"], ![w].pc = pc]
          /\ UNCHANGED <<holder, journal, lost, crowded>>
          /\ jobs[w].kind # "import"
      BY <1>3, <2>2 DEF LoadSession, Rows, Histories
    <3> HIDE DEF pc
    <3>3. OnlyJob(w) /\ jobs'[w] = [jobs[w] EXCEPT !.record = stored["source"], !.pc = pc]
      BY <1>1, <3>2 DEF OnlyJob
    <3>4. /\ IsJob(jobs'[w]) /\ jobs'[w].pc = pc
          /\ jobs'[w].kind = jobs[w].kind /\ jobs'[w].missed = jobs[w].missed
      BY <1>1, <3>3 DEF IsJob
    <3>5. IsOf(w, jobs'[w])
      BY <1>1, <1>2, <3>1, <3>2, <3>4 DEF IsOf, Active
    <3> QED BY <1>2, <3>1, <3>2, <3>3, <3>4, <3>5, StepMoves DEF Loaded
  <2> QED BY <2>1, <2>2
<1>4. CASE LoadActions(w)
  <2> DEFINE pc == CASE jobs[w].kind = "record"  -> "execute"
                     [] jobs[w].kind = "done"    -> "replay"
                     [] jobs[w].kind = "analyze" -> "minimize"
                     [] jobs[w].kind = "candidate" -> "trial"
                     [] jobs[w].kind = "export"  -> "write"
                     [] jobs[w].kind = "fork"    -> "copying"
                     [] jobs[w].kind = "shell"   -> "prompt"
  <2>1. jobs' = [jobs EXCEPT ![w].actions = journal["source"], ![w].pc = pc]
        /\ UNCHANGED <<holder, journal, lost, crowded>> /\ jobs[w].pc = "actions"
    BY <1>4 DEF LoadActions, Rows, Histories
  <2>2. /\ jobs[w].kind \in {"record", "done", "analyze", "candidate", "export", "fork", "shell"}
        /\ w \in Requests => jobs[w].kind \in {"export", "fork", "candidate", "analyze"}
    <3>1. jobs[w].kind \in Kinds(w) /\ jobs[w].kind \notin {"archive", "import"}
      <4>1. IsOf(w, jobs[w])
        BY <1>1
      <4>2. jobs[w].pc = "actions"
        BY <2>1
      <4> QED BY <4>1, <4>2 DEF IsOf
    <3>2. CASE w \in Requests
      <4>1. w \notin Tasks /\ w \notin Shells
        BY <3>2 DEF HistoryAssumption
      <4> QED BY <3>1, <4>1 DEF Kinds
    <3>3. CASE w \notin Requests
      BY <1>1, <3>1, <3>3 DEF Kinds, Recorders
    <3> QED BY <3>2, <3>3
  <2>3. /\ pc \in {"execute", "replay", "minimize", "trial", "write", "copying", "prompt"}
        /\ w \in Requests => pc \in {"write", "copying", "trial", "minimize"}
    BY <2>2
  <2> HIDE DEF pc
  <2>4. OnlyJob(w) /\ jobs'[w] = [jobs[w] EXCEPT !.actions = journal["source"], !.pc = pc]
    <3>1. jobs = [v \in Workers |-> jobs[v]]
      BY <1>1
    <3>2. jobs' = [jobs EXCEPT ![w].actions = journal["source"], ![w].pc = pc]
      BY <2>1
    <3> QED BY <3>1, <3>2 DEF OnlyJob
  <2>5. /\ IsJob(jobs'[w]) /\ jobs'[w].pc = pc
        /\ jobs'[w].kind = jobs[w].kind /\ jobs'[w].missed = jobs[w].missed
        /\ jobs'[w].actions = journal["source"]
    BY <1>1, <2>4 DEF IsJob
  <2>6. IsOf(w, jobs'[w])
    <3>1. jobs[w].kind \in Kinds(w)
      <4>1. IsOf(w, jobs[w])
        BY <1>1
      <4>2. jobs[w].pc = "actions"
        BY <2>1
      <4> QED BY <4>1, <4>2 DEF IsOf
    <3>2. /\ jobs'[w].pc = pc /\ jobs'[w].kind = jobs[w].kind
      BY <2>5
    <3>3. pc # "actions" /\ (w \in Requests => pc \notin {"prompt", "execute"})
      BY <2>3
    <3> QED BY <3>1, <3>2, <3>3 DEF IsOf
  <2> QED BY <1>2, <2>1, <2>3, <2>4, <2>5, <2>6, StepMoves
<1>5. CASE Prompt(w)
  <2>1. PICK pc \in {"execute", "replay"} : Step(w, pc)
    BY <1>5 DEF Prompt
  <2>2. jobs[w].pc = "prompt" /\ UNCHANGED <<holder, journal, lost, crowded>>
    BY <1>5 DEF Prompt, Rows, Histories
  <2>3. w \notin Requests /\ jobs[w].pc \in Loaded
    BY <1>1, <2>2 DEF IsOf, Loaded
  <2> QED BY <1>2, <2>1, <2>2, <2>3, GotoMoves
<1>6. CASE ShellCancelled(w) \/ SaveReport(w)
  <2>1. /\ Ending(w, "cancelled") \/ Ending(w, "analyzed")
        /\ UNCHANGED <<holder, journal, lost, crowded>>
    BY <1>6 DEF ShellCancelled, SaveReport, Ending, Rows, Histories
  <2> QED BY <1>2, <2>1, EndingMoves
<1>7. CASE Leave(w) \/ ExportSession(w) \/ RunCandidate(w)
  <2>1. Quit(w) /\ UNCHANGED <<journal, lost, crowded>>
    BY <1>7 DEF Leave, ExportSession, RunCandidate, Rows, Histories
  <2> QED BY <1>2, <2>1, EndMoves
<1>8. CASE ReplayAll(w)
  <2>1. jobs[w].pc \in Loaded /\ UNCHANGED <<journal, lost, crowded>>
    BY <1>8 DEF ReplayAll, Loaded, Histories
  <2>2. CASE End(w)
    BY <1>2, <2>1, <2>2, EndMoves
  <2>3. CASE ~End(w)
    <3>1. (Ending(w, "ready_for_analysis") \/ Ending(w, "cancelled")) /\ UNCHANGED holder
      BY <1>8, <2>3 DEF ReplayAll
    <3> QED BY <1>2, <2>1, <3>1, EndingMoves
  <2> QED BY <2>2, <2>3
<1>9. CASE SaveTrials(w)
  <2>1. /\ Quit(w) \/ (Step(w, "report") /\ UNCHANGED holder)
        /\ UNCHANGED <<journal, lost, crowded>>
    BY <1>9 DEF SaveTrials, Histories
  <2>2. CASE Quit(w)
    BY <1>2, <2>1, <2>2, EndMoves
  <2>3. CASE Step(w, "report") /\ UNCHANGED holder
    BY <1>2, <2>1, <2>3, GotoMoves DEF Loaded
  <2> QED BY <2>1, <2>2, <2>3
<1>10. CASE ReadImport(w)
  <2>1. CASE Quit(w)
    BY <1>2, <1>10, <2>1, EndMoves DEF ReadImport, Rows, Histories
  <2>2. CASE ~Quit(w)
    <3>1. /\ jobs' = [jobs EXCEPT ![w].record = file.record, ![w].actions = file.actions,
                                  ![w].pc = "copy"]
          /\ UNCHANGED <<holder, journal, lost, crowded>>
      BY <1>10, <2>2 DEF ReadImport, Rows, Histories
    <3>2. /\ OnlyJob(w)
          /\ jobs'[w] = [jobs[w] EXCEPT !.record = file.record, !.actions = file.actions,
                                        !.pc = "copy"]
      BY <1>1, <3>1 DEF OnlyJob
    <3>3. /\ IsJob(jobs'[w]) /\ jobs'[w].pc = "copy"
          /\ jobs'[w].kind = jobs[w].kind /\ jobs'[w].missed = jobs[w].missed
      BY <1>1, <3>2 DEF IsJob
    <3>4. IsOf(w, jobs'[w])
      BY <1>1, <1>2, <3>3 DEF IsOf, Active
    <3> QED BY <1>2, <3>1, <3>2, <3>3, <3>4, StepMoves DEF Loaded
  <2> QED BY <2>1, <2>2
<1>11. CASE SaveCopy(w)
  <2>1. CASE Quit(w)
    BY <1>2, <1>11, <2>1, EndMoves DEF SaveCopy, Histories
  <2>2. CASE ~Quit(w)
    <3> DEFINE pc == IF jobs[w].kind = "fork" THEN "actions" ELSE "copying"
    <3>1. Step(w, pc) /\ UNCHANGED <<holder, journal, lost, crowded>>
      BY <1>11, <2>2 DEF SaveCopy, Histories
    <3>2. pc \notin Loaded /\ pc # "idle" /\ (pc = "actions" => jobs[w].kind = "fork")
      BY DEF Loaded
    <3> HIDE DEF pc
    <3> QED BY <1>2, <3>1, <3>2, GotoMoves
  <2> QED BY <2>1, <2>2
<1>12. CASE CopyAction(w)
  <2>1. CASE Quit(w) /\ UNCHANGED journal
    BY <1>2, <1>12, <2>1, EndMoves DEF CopyAction, Histories
  <2>2. CASE ~(Quit(w) /\ UNCHANGED journal)
    <3>1. PICK id : PutAction("copy", id, jobs[w].actions[id])
      BY <1>12, <2>2 DEF CopyAction
    <3>2. jobs[w].pc = "copying" /\ UNCHANGED <<jobs, holder, lost, crowded>>
      BY <1>12, <2>2 DEF CopyAction, Histories
    <3>3. journal' = [s \in Sessions |-> journal'[s]] /\ journal'["source"] = journal["source"]
      BY <1>1, <3>1 DEF PutAction, Sessions
    <3> QED BY <1>1, <1>2, <3>2, <3>3 DEF Moves, OnlyJob, Active, Loaded
  <2> QED BY <2>1, <2>2
<1> QED BY <1>2, <1>3, <1>4, <1>5, <1>6, <1>7, <1>8, <1>9, <1>10, <1>11, <1>12

\* A job begins: a task takes the entry; a shell that finds another recorder makes it
\* crowded, and so does a task that finds a shell.
LEMMA BeginKeeps ==
    ASSUME HistoryAssumption, HistoryInv, NEW w \in Workers, Begin(w)
    PROVE  HistoryInv'
<1>1. /\ jobs = [v \in Workers |-> jobs[v]]
      /\ journal' = journal /\ lost' = lost
      /\ jobs[w].pc = "idle"
      /\ ~crowded' => ~crowded /\ \A v \in Workers : Active(v) => ~Crowd(v, w)
  BY DEF HistoryInv, ShapeInv, Begin, Rows
<1>2. PICK kind \in Kinds(w) : jobs' = [jobs EXCEPT ![w] = [Idle EXCEPT !.kind = kind, !.pc = "load"]]
  BY Zenon DEF Begin
<1>3. OnlyJob(w) /\ jobs'[w] = [Idle EXCEPT !.kind = kind, !.pc = "load"]
  BY <1>1, <1>2 DEF OnlyJob
<1>4. /\ IsJob(jobs'[w]) /\ jobs'[w].pc = "load" /\ jobs'[w].kind = kind
      /\ jobs'[w].missed = {}
  BY <1>3 DEF IsJob, Idle
<1>5. ShapeInv'
  <2>1. \A v \in Workers : /\ IsJob(jobs'[v])
                           /\ jobs'[v].pc = "idle" => jobs'[v].record = NoRecord
    BY <1>3, <1>4 DEF HistoryInv, ShapeInv, OnlyJob
  <2>2. \A v \in Workers : IsOf(v, jobs'[v])
    BY <1>3, <1>4 DEF HistoryInv, ShapeInv, OnlyJob, IsOf
  <2> QED BY <1>1, <1>3, <2>1, <2>2 DEF HistoryInv, ShapeInv, OnlyJob, IsJob, IsOf, Kinds
<1>6. AloneInv'
  <2>1. ASSUME ~crowded', NEW s \in Shells, NEW v \in Recorders, Active(s)', Active(v)'
        PROVE  v = s
    <3>1. \A u \in Recorders \ {w} : Active(u)' => Active(u)
      BY <1>3 DEF OnlyJob, Active, Recorders, Workers
    <3>2. CASE s = w
      BY <1>1, <2>1, <3>1, <3>2 DEF Crowd, Recorders, Workers
    <3>3. CASE s # w /\ v = w
      BY <1>1, <2>1, <3>1, <3>3 DEF Crowd, Recorders, Workers
    <3>4. CASE s # w /\ v # w
      BY <1>1, <2>1, <3>1, <3>4 DEF HistoryInv, AloneInv, Recorders, Workers
    <3> QED BY <3>2, <3>3, <3>4
  <2>2. ASSUME NEW t \in Tasks, Active(t)' PROVE holder' = t
    <3>1. CASE t = w
      BY <3>1 DEF Begin, Claim
    <3>2. CASE t # w
      <4>1. Active(t) /\ holder = t
        BY <1>3, <2>2, <3>2 DEF HistoryInv, AloneInv, OnlyJob, Active, Workers
      <4>2. holder # None
        BY <4>1 DEF HistoryAssumption, None
      <4> QED BY <4>1, <4>2 DEF Begin, Claim
    <3> QED BY <3>1, <3>2
  <2> QED BY <2>1, <2>2 DEF AloneInv
<1>7. MissedInv'
  <2>1. \A v \in Workers : jobs'[v].missed = {} \/ jobs'[v].missed = jobs[v].missed
    BY <1>3, <1>4 DEF OnlyJob
  <2>2. \A v \in Recorders : jobs'[v].pc \in Loaded => jobs'[v] = jobs[v]
    BY <1>3, <1>4 DEF OnlyJob, Loaded, Recorders, Workers
  <2> QED BY <1>1, <2>1, <2>2 DEF HistoryInv, MissedInv, Workers
<1>8. LossesAreKnown'
  BY <1>1 DEF HistoryInv, LossesAreKnown
<1> QED BY <1>5, <1>6, <1>7, <1>8 DEF HistoryInv

\* Whoever saved the record, a job that holds one of its own has missed it; nothing else
\* of it changes.
LEMMA OutdatedJobs ==
    ASSUME ShapeInv, NEW who, NEW v \in Workers
    PROVE  /\ IsJob(Outdated(who)[v])
           /\ Outdated(who)[v].kind = jobs[v].kind /\ Outdated(who)[v].pc = jobs[v].pc
           /\ Outdated(who)[v].record = jobs[v].record
           /\ Outdated(who)[v].actions = jobs[v].actions
           /\ Outdated(who)[v].missed \subseteq jobs[v].missed \cup {who}
           /\ jobs[v].record = NoRecord => Outdated(who)[v] = jobs[v]
<1>1. IsJob(jobs[v])
  BY DEF ShapeInv
<1>2. CASE jobs[v].record = NoRecord
  BY <1>1, <1>2 DEF Outdated
<1>3. CASE jobs[v].record # NoRecord
  <2>1. Outdated(who)[v] = [jobs[v] EXCEPT !.missed = jobs[v].missed \cup {who}]
    BY <1>1, <1>3 DEF Outdated, IsJob
  <2> QED BY <1>1, <1>3, <2>1 DEF IsJob
<1> QED BY <1>2, <1>3

\* A save of the whole record: the only task that is active may be the one that saves, so
\* what a task misses is the save of an archive or of a shell.
LEMMA SaveKeeps ==
    ASSUME HistoryAssumption, HistoryInv, NEW w \in Workers, Active(w),
           NEW record, NEW after, SaveSession(w, record, after),
           \/ after = Idle
           \/ w \in Shells /\ jobs[w].pc \in Loaded /\ after = [jobs[w] EXCEPT !.pc = "prompt"],
           Free(w) \/ UNCHANGED holder, UNCHANGED <<journal, crowded>>
    PROVE  HistoryInv'
<1> DEFINE O == Outdated(Who(w))
<1>1. /\ ShapeInv /\ IsJob(jobs[w]) /\ IsOf(w, jobs[w])
      /\ \A v \in Tasks : Active(v) /\ w \in Tasks => v = w
      /\ crowded' = crowded
  BY DEF HistoryInv, ShapeInv, AloneInv
<1>2. \A v \in Workers \ {w} : jobs'[v] = O[v]
  BY DEF SaveSession, Outdated
<1>3. jobs' = [v \in Workers |-> jobs'[v]]
  BY DEF SaveSession, Outdated
<1>4. jobs'[w] = [after EXCEPT !.missed = {}, !.record = IF after = Idle THEN NoRecord ELSE record]
  BY DEF SaveSession, Outdated
<1>5. /\ IsJob(jobs'[w]) /\ jobs'[w].missed = {}
      /\ IsOf(w, jobs'[w])
      /\ jobs'[w].pc = "idle" => jobs'[w].record = NoRecord
      /\ jobs'[w].pc # "idle" => w \in Shells
      /\ ~crowded /\ w \in Recorders /\ jobs'[w].pc \in Loaded =>
             jobs'[w].actions = journal["source"]
  <2>1. CASE after = Idle
    BY <1>4, <2>1 DEF Idle, IsJob, IsOf, Loaded
  <2>2. CASE after # Idle
    <3> DEFINE r == IF after = Idle THEN NoRecord ELSE record
    <3>1. /\ w \in Shells /\ w \notin Requests /\ jobs[w].pc \in Loaded
          /\ after = [jobs[w] EXCEPT !.pc = "prompt"]
      BY <2>2 DEF HistoryAssumption
    <3>2. jobs'[w] = [after EXCEPT !.missed = {}, !.record = r]
      BY <1>4
    <3> HIDE DEF r
    <3>3. /\ IsJob(jobs'[w]) /\ jobs'[w].pc = "prompt" /\ jobs'[w].missed = {}
          /\ jobs'[w].kind = jobs[w].kind /\ jobs'[w].actions = jobs[w].actions
      BY <1>1, <3>1, <3>2 DEF IsJob
    <3>4. ~crowded => jobs[w].actions = journal["source"]
      BY <3>1 DEF HistoryInv, MissedInv, Recorders
    <3> QED BY <1>1, <3>1, <3>3, <3>4 DEF IsOf, Loaded
  <2> QED BY <2>1, <2>2
<1>6. ShapeInv'
  <2>1. ASSUME NEW v \in Workers \ {w}
        PROVE  IsJob(jobs'[v]) /\ (jobs'[v].pc = "idle" => jobs'[v].record = NoRecord)
                               /\ IsOf(v, jobs'[v])
    BY <1>1, <1>2, OutdatedJobs DEF ShapeInv, IsOf
  <2>2. \A v \in Workers : /\ IsJob(jobs'[v]) /\ IsOf(v, jobs'[v])
                           /\ jobs'[v].pc = "idle" => jobs'[v].record = NoRecord
    BY <1>5, <2>1
  <2> QED BY <1>1, <1>3, <2>2 DEF ShapeInv, IsJob, IsOf, Kinds
<1>7. \A v \in Workers : Active(v)' => Active(v) /\ (v = w => w \in Shells)
  BY <1>1, <1>2, <1>5, OutdatedJobs DEF Active
<1>8. AloneInv'
  BY <1>1, <1>7 DEF HistoryInv, AloneInv, Free, Workers, Recorders, HistoryAssumption
<1>9. MissedInv'
  <2>1. ASSUME NEW v \in Workers, v # w
        PROVE  /\ jobs'[v].missed \subseteq {"archive", "init", "shell", "analysis", "task"}
               /\ v \in Tasks => jobs'[v].missed \subseteq {"archive", "init", "shell", "analysis"}
               /\ ~crowded /\ v \in Recorders /\ jobs'[v].pc \in Loaded =>
                      jobs'[v].actions = journal'["source"]
    <3>1. v \in Workers \ {w}
      BY <2>1
    <3>2. /\ jobs'[v].pc = jobs[v].pc /\ jobs'[v].actions = jobs[v].actions
          /\ jobs'[v].missed \subseteq jobs[v].missed \cup {Who(w)}
          /\ jobs[v].record = NoRecord => jobs'[v] = jobs[v]
      BY <1>1, <1>2, <3>1, OutdatedJobs
    <3>3. /\ Who(w) \in {"task", "shell", "archive", "analysis"}
          /\ Who(w) = "task" => w \in Tasks
      BY DEF Who
    <3>4. v \in Tasks /\ jobs[v].record # NoRecord => Who(w) # "task"
      BY <1>1, <2>1, <3>1, <3>3 DEF ShapeInv, Active
    <3> QED BY <2>1, <3>2, <3>3, <3>4 DEF HistoryInv, MissedInv
  <2> QED BY <1>1, <1>5, <2>1 DEF MissedInv, Recorders, Workers
<1>10. LossesAreKnown'
  <2>1. ASSUME NEW other \in jobs[w].missed
        PROVE  \/ {"archive", "init"} \cap {Who(w), other} # {}
               \/ other # "action" /\ {"shell", "analysis"} \cap {Who(w), other} # {}
    <3>1. other \in {"archive", "init", "shell", "analysis", "task"}
      BY <2>1 DEF HistoryInv, MissedInv
    <3>2. CASE w \in Tasks
      <4>1. other \in {"archive", "init", "shell", "analysis"}
        BY <2>1, <3>2 DEF HistoryInv, MissedInv
      <4> QED BY <4>1
    <3>3. CASE w \notin Tasks
      <4>1. Who(w) \in {"shell", "analysis", "archive"}
        BY <3>3 DEF Who
      <4> QED BY <3>1, <4>1
    <3> QED BY <3>2, <3>3
  <2>2. lost' = lost \cup {<<Who(w), other>> : other \in jobs[w].missed}
    BY DEF SaveSession
  <2> QED BY <1>1, <2>1, <2>2 DEF HistoryInv, LossesAreKnown
<1> QED BY <1>6, <1>8, <1>9, <1>10 DEF HistoryInv

\* An action is recorded under an id that the journal does not have yet, because the
\* recorder's journal is the stored one, unless it is crowded (next_action_id, save_action).
LEMMA ActionKeeps ==
    ASSUME HistoryAssumption, HistoryInv, NEW w \in Workers, SaveAction(w)
    PROVE  HistoryInv'
<1> DEFINE id == NextActionId(jobs[w].actions)
<1>1. PICK line \in Lines :
          /\ PutAction("source", id, line)
          /\ jobs' = [jobs EXCEPT ![w].actions = Put(@, id, line), ![w].pc = "touch"]
  BY DEF SaveAction
<1>2. /\ jobs = [v \in Workers |-> jobs[v]] /\ IsJob(jobs[w]) /\ IsOf(w, jobs[w])
      /\ journal = [s \in Sessions |-> journal[s]]
      /\ jobs[w].pc = "execute" /\ holder' = holder /\ crowded' = crowded
  BY DEF HistoryInv, ShapeInv, SaveAction
<1>3. w \in Recorders /\ Active(w) /\ (~crowded => jobs[w].actions = journal["source"])
  BY <1>2 DEF IsOf, Recorders, Workers, Active, Loaded, HistoryInv, MissedInv
<1>4. PICK n \in Nat : ~crowded => DOMAIN journal["source"] = 1..n
  BY DEF HistoryInv, ShapeInv
<1>5. ~crowded => id = n + 1 /\ id \notin DOMAIN journal["source"]
  <2>1. Cardinality(1..n) = n
    BY FS_Interval
  <2>2. ~crowded => id = n + 1
    BY <1>3, <1>4, <2>1 DEF NextActionId
  <2>3. n + 1 \notin 1..n
    BY SMT
  <2> QED BY <1>4, <2>2, <2>3
<1> HIDE DEF id
<1>6. /\ journal' = [s \in Sessions |-> journal'[s]]
      /\ journal'["source"] = Put(journal["source"], id, line)
  BY <1>1, <1>2 DEF PutAction, Sessions
<1>7. ~crowded => DOMAIN journal'["source"] = 1..(n + 1)
  <2>1. ~crowded => DOMAIN Put(journal["source"], id, line) = {id} \cup 1..n
    BY <1>4 DEF Put
  <2>2. {n + 1} \cup 1..n = 1..(n + 1)
    BY SMT
  <2> QED BY <1>5, <1>6, <2>1, <2>2
<1> DEFINE a == Put(jobs[w].actions, id, line)
<1>8. OnlyJob(w) /\ jobs'[w] = [jobs[w] EXCEPT !.actions = a, !.pc = "touch"]
  BY <1>1, <1>2 DEF OnlyJob, IsJob
<1>9. ~crowded => a = journal'["source"]
  BY <1>3, <1>6
<1> HIDE DEF a
<1>10. /\ IsJob(jobs'[w]) /\ jobs'[w].pc = "touch" /\ jobs'[w].kind = jobs[w].kind
       /\ jobs'[w].missed = jobs[w].missed /\ jobs'[w].actions = a
  BY <1>2, <1>8 DEF IsJob
<1>11. ShapeInv'
  <2>1. ASSUME NEW v \in Workers
        PROVE  IsJob(jobs'[v]) /\ (jobs'[v].pc = "idle" => jobs'[v].record = NoRecord)
                               /\ IsOf(v, jobs'[v])
    <3>1. CASE v = w
      BY <1>2, <1>10, <3>1 DEF IsOf
    <3>2. CASE v # w
      BY <1>8, <3>2 DEF OnlyJob, HistoryInv, ShapeInv
    <3> QED BY <3>1, <3>2
  <2>2. n + 1 \in Nat
    OBVIOUS
  <2> QED BY <1>2, <1>6, <1>7, <1>8, <2>1, <2>2 DEF ShapeInv, OnlyJob, IsJob, IsOf, Kinds
<1>12. \A v \in Workers : Active(v)' <=> Active(v)
  BY <1>3, <1>8, <1>10 DEF OnlyJob, Active
<1>13. AloneInv'
  BY <1>2, <1>12 DEF HistoryInv, AloneInv, Workers, Recorders
<1>14. MissedInv'
  <2>1. ASSUME NEW v \in Workers PROVE jobs'[v].missed = jobs[v].missed
    BY <1>8, <1>10 DEF OnlyJob
  <2>2. ASSUME ~crowded, NEW v \in Recorders, jobs'[v].pc \in Loaded
        PROVE  jobs'[v].actions = journal'["source"]
    <3>1. CASE v = w
      BY <1>9, <1>10, <2>2, <3>1
    <3>2. CASE v # w
      <4>1. v \in Workers /\ jobs'[v] = jobs[v]
        BY <1>8, <3>2 DEF OnlyJob, Recorders, Workers
      <4>2. ~Active(v)
        BY <1>3, <2>2, <3>2, OneRecorder DEF HistoryInv
      <4> QED BY <2>2, <4>1, <4>2 DEF Active, Loaded
    <3> QED BY <3>1, <3>2
  <2> QED BY <1>2, <2>1, <2>2 DEF HistoryInv, MissedInv, Workers
<1>15. LossesAreKnown'
  <2>1. CASE ~crowded
    <3>1. lost' = lost
      BY <1>5, <2>1 DEF SaveAction, id
    <3> QED BY <1>2, <3>1 DEF HistoryInv, LossesAreKnown
  <2>2. CASE crowded
    <3>1. lost' \subseteq lost \cup {<<Who(w), "action">>}
      BY DEF SaveAction
    <3> QED BY <1>2, <2>2, <3>1 DEF HistoryInv, LossesAreKnown
  <2> QED BY <2>1, <2>2
<1> QED BY <1>11, <1>13, <1>14, <1>15 DEF HistoryInv

\* A process dies, and its jobs and entries with it.
LEMMA DeathKeeps ==
    ASSUME HistoryAssumption, HistoryInv, NEW who \in SUBSET Workers, Dies(who)
    PROVE  HistoryInv'
<1>1. /\ jobs' = [w \in Workers |-> IF w \in who THEN Idle ELSE jobs[w]]
      /\ journal' = journal /\ lost' = lost /\ crowded' = crowded
      /\ holder' = IF holder \in who THEN None ELSE holder
  BY DEF Dies, Rows
<1>2. /\ IsJob(Idle) /\ Idle.pc = "idle" /\ Idle.record = NoRecord /\ Idle.missed = {}
      /\ \A v \in Workers : IsOf(v, Idle)
  BY DEF IsJob, IsOf, Idle
<1>3. ShapeInv'
  <2>1. \A v \in Workers : /\ IsJob(jobs'[v]) /\ IsOf(v, jobs'[v])
                           /\ jobs'[v].pc = "idle" => jobs'[v].record = NoRecord
    BY <1>1, <1>2 DEF HistoryInv, ShapeInv
  <2> QED BY <1>1, <2>1 DEF HistoryInv, ShapeInv, IsJob, IsOf, Kinds
<1>4. \A v \in Workers : Active(v)' => Active(v) /\ v \notin who
  BY <1>1, <1>2 DEF Active
<1>5. AloneInv'
  BY <1>1, <1>4 DEF HistoryInv, AloneInv, Workers, Recorders
<1>6. MissedInv'
  BY <1>1, <1>2 DEF HistoryInv, MissedInv, Loaded, Recorders, Workers
<1>7. LossesAreKnown'
  BY <1>1 DEF HistoryInv, LossesAreKnown
<1> QED BY <1>3, <1>5, <1>6, <1>7 DEF HistoryInv

\* initialize_session saves its own record, which is told of every loss.
LEMMA InitializeKeeps ==
    ASSUME HistoryAssumption, HistoryInv,
           Create \/ BaselineJudged \/ SaveTitle \/ InitializeFails
    PROVE  HistoryInv'
<1>1. CASE UNCHANGED <<jobs, holder, journal, lost, crowded>>
  BY <1>1 DEF HistoryInv, ShapeInv, AloneInv, MissedInv, LossesAreKnown, Active
<1>2. CASE BaselineJudged \/ SaveTitle
  <2>1. /\ jobs' = Outdated("init")
        /\ lost' = lost \cup {<<"init", other>> : other \in init.missed}
        /\ UNCHANGED <<holder, journal, crowded>>
    BY <1>2 DEF BaselineJudged, SaveTitle, SaveInitialized
  <2>2. \A v \in Workers :
            /\ IsJob(jobs'[v]) /\ jobs'[v].kind = jobs[v].kind /\ jobs'[v].pc = jobs[v].pc
            /\ jobs'[v].record = jobs[v].record /\ jobs'[v].actions = jobs[v].actions
            /\ jobs'[v].missed \subseteq jobs[v].missed \cup {"init"}
    BY <2>1, OutdatedJobs DEF HistoryInv
  <2>3. jobs' = [v \in Workers |-> jobs'[v]]
    BY <2>1 DEF Outdated
  <2>4. ShapeInv'
    <3>1. \A v \in Workers : /\ IsJob(jobs'[v]) /\ IsOf(v, jobs'[v])
                             /\ jobs'[v].pc = "idle" => jobs'[v].record = NoRecord
      BY <2>2 DEF HistoryInv, ShapeInv, IsOf
    <3> QED BY <2>1, <2>3, <3>1 DEF HistoryInv, ShapeInv, IsJob, IsOf, Kinds
  <2>5. AloneInv'
    BY <2>1, <2>2 DEF HistoryInv, AloneInv, Active, Workers, Recorders
  <2>6. MissedInv'
    BY <2>1, <2>2 DEF HistoryInv, MissedInv, Recorders, Workers
  <2>7. LossesAreKnown'
    <3> SUFFICES ASSUME NEW pair \in lost', pair \notin lost
                 PROVE  {"archive", "init"} \cap {pair[1], pair[2]} # {}
      BY <2>1 DEF HistoryInv, LossesAreKnown
    <3>1. PICK other : pair = <<"init", other>>
      BY <2>1
    <3>2. pair[1] = "init"
      BY <3>1
    <3> QED BY <3>2
  <2> QED BY <2>4, <2>5, <2>6, <2>7 DEF HistoryInv
<1> QED BY <1>1, <1>2 DEF Create, InitializeFails, Histories

\* Each step of a job, and a crash, keeps what the losses rest on.
LEMMA HistoryStep ==
    ASSUME HistoryAssumption, HistoryInv, [Next]_historyVars
    PROVE  HistoryInv'
<1>1. CASE UNCHANGED historyVars
  BY <1>1 DEF historyVars, HistoryInv, ShapeInv, AloneInv, MissedInv, LossesAreKnown, Active
<1>2. CASE Create \/ BaselineJudged \/ SaveTitle \/ InitializeFails
  BY <1>2, InitializeKeeps
<1>3. CASE Crash
  <2>1. Tasks \cup Requests \in SUBSET Workers
    BY DEF Workers
  <2> QED BY <1>3, <2>1, DeathKeeps DEF Crash
<1>4. ASSUME NEW w \in Workers, Job(w) PROVE HistoryInv'
  <2>1. CASE Begin(w)
    BY <2>1, BeginKeeps
  <2>2. CASE SaveAction(w)
    BY <2>2, ActionKeeps
  <2>3. CASE JobFails(w)
    <3>1. {w} \in SUBSET Workers
      OBVIOUS
    <3> QED BY <2>3, <3>1, DeathKeeps DEF JobFails
  <2>4. CASE TouchSession(w)
    <3>1. /\ jobs[w].pc = "touch" /\ SaveSession(w, jobs[w].record, Finished(w))
          /\ Free(w) /\ UNCHANGED <<journal, crowded>>
      BY <2>4 DEF TouchSession
    <3>2. \/ Finished(w) = Idle
          \/ w \in Shells /\ jobs[w].pc \in Loaded /\ Finished(w) = [jobs[w] EXCEPT !.pc = "prompt"]
      BY <3>1 DEF Finished, Loaded
    <3>3. Active(w)
      BY <3>1 DEF Active
    <3> QED BY <3>1, <3>2, <3>3, SaveKeeps
  <2>5. CASE Finish(w)
    <3>1. /\ Active(w) /\ SaveSession(w, jobs[w].record, Idle) /\ Free(w)
          /\ UNCHANGED <<journal, crowded>>
      BY <2>5 DEF Finish, Active
    <3> QED BY <3>1, SaveKeeps
  <2>6. CASE ArchiveSession(w)
    <3>1. /\ Active(w) /\ SaveSession(w, [jobs[w].record EXCEPT !.archived = TRUE], Idle)
          /\ UNCHANGED <<holder, journal, crowded>>
      BY <2>6 DEF ArchiveSession, Active
    <3> QED BY <3>1, SaveKeeps
  <2>7. CASE ~(\/ Begin(w) \/ SaveAction(w) \/ JobFails(w) \/ TouchSession(w) \/ Finish(w)
               \/ ArchiveSession(w))
    <3>1. Active(w) /\ Moves(w)
      BY <1>4, <2>7, WorkMoves DEF Job
    <3> QED BY <3>1, MoveKeeps
  <2> QED BY <2>1, <2>2, <2>3, <2>4, <2>5, <2>6, <2>7
<1> QED BY <1>1, <1>2, <1>3, <1>4 DEF Next

\* It holds before the session exists.
LEMMA HistoryStart ==
    ASSUME HistoryAssumption, Init
    PROVE  HistoryInv
<1>1. /\ IsJob(Idle) /\ Idle.pc = "idle" /\ Idle.record = NoRecord /\ Idle.missed = {}
      /\ \A v \in Workers : IsOf(v, Idle)
  BY DEF IsJob, IsOf, Idle
<1>2. jobs = [w \in Workers |-> Idle] /\ lost = {}
  BY DEF Init
<1>3. /\ journal = [s \in Sessions |-> journal[s]]
      /\ DOMAIN journal["source"] = 1..0
  BY DEF Init, Sessions
<1>4. ShapeInv
  <2>1. 0 \in Nat
    OBVIOUS
  <2> QED BY <1>1, <1>2, <1>3, <2>1 DEF ShapeInv
<1>5. AloneInv
  BY <1>1, <1>2 DEF AloneInv, Active, Workers
<1>6. MissedInv
  BY <1>1, <1>2 DEF MissedInv, Loaded, Recorders, Workers
<1>7. LossesAreKnown
  BY <1>2 DEF LossesAreKnown
<1> QED BY <1>4, <1>5, <1>6, <1>7 DEF HistoryInv

\* One task at a time, and a recorder's journal is the stored one (session_tasks).
THEOREM HistoryCorrect == HistoryAssumption => (Spec => []HistoryInv)
<1> SUFFICES ASSUME HistoryAssumption PROVE Spec => []HistoryInv
  OBVIOUS
<1>1. Init => HistoryInv
  BY HistoryStart
<1>2. HistoryInv /\ [Next]_historyVars => HistoryInv'
  BY HistoryStep
<1> QED BY <1>1, <1>2, PTL DEF Spec

\* Tasks, however many, never undo each other's saves: whatever is lost is lost to or by an
\* archive, the late title of a new session, a shell, or an analysis of the command line,
\* which does not ask for the session; and no action takes another's id before a shell was
\* open beside a task or a shell (session_tasks, save_session, next_action_id).
THEOREM LossesCorrect == HistoryAssumption => (Spec => []LossesAreKnown)
<1>1. HistoryInv => LossesAreKnown
  BY DEF HistoryInv
<1> QED BY <1>1, HistoryCorrect, PTL

-----------------------------------------------------------------------------
(***************************************************************************)
(* What may be analyzed was replayed as it stands.                         *)
(***************************************************************************)

\* The places a job of each kind comes to.
Places(kind) ==
    CASE kind = "record"    -> {"load", "actions", "execute", "touch"}
      [] kind = "done"      -> {"load", "actions", "replay", "finish"}
      [] kind = "shell"     -> {"load", "actions", "finish"} \cup Loaded
      [] kind = "analyze"   -> {"load", "actions", "minimize", "report", "finish"}
      [] kind = "candidate" -> {"load", "actions", "trial"}
      [] kind = "archive"   -> {"load", "archive"}
      [] kind = "export"    -> {"load", "actions", "write"}
      [] kind = "fork"      -> {"load", "copy", "actions", "copying"}
      [] kind = "import"    -> {"load", "copy", "copying"}

\* Actions are numbered from one.
IsJournal(a) == \E n \in Nat : a = [i \in 1..n |-> a[i]]

\* Who has a job has found the session, and past "load" holds a record.
Fits(w) ==
    Active(w) => /\ Exists("source")
                 /\ jobs[w].pc \in Places(jobs[w].kind)
                 /\ jobs[w].pc # "load" => jobs[w].record \in SessionRecord

RecordsInv ==
    /\ stored = [s \in DOMAIN stored |-> stored[s]]
    /\ DOMAIN stored \subseteq Sessions
    /\ \A s \in DOMAIN stored : stored[s] \in SessionRecord
    /\ Exists("source") <=> init.pc # "none"
    /\ init = [pc |-> init.pc, missed |-> init.missed]
    /\ file = NoFile \/ file.record \in SessionRecord
    /\ \A w \in Workers : Fits(w)

Status == stored["source"].status
Clean == OnlyAnalysesLost /\ ~crowded

\* The session's own row: until its baseline is judged nobody can record; it is recorded
\* into until it was replayed.
SourceInv ==
    /\ IsJournal(journal["source"])
    /\ init.pc = "judge" => Status = "invalid"
    /\ init.pc = "name" => baseline = "stable_fail"
    /\ init.pc = "name" /\ init.missed = {} => Status = "recording"
    /\ Exists("source") /\ Status \in {"recording"} \cup Analyzable => baseline = "stable_fail"
    /\ Exists("source") /\ Status \in Analyzable => journal["source"] \in passed
    /\ Exists("source") /\ Status = "analyzed" => journal["source"] \in reported

\* Who records has a session that is recording, who analyzes one that may be analyzed; at
\* the end the journal is still the one that was loaded.
AtWork(j) ==
    /\ j.kind \in {"record", "done", "shell"} /\ j.pc \in {"actions"} \cup Loaded =>
           j.record.status = "recording" /\ Status = "recording"
    /\ j.kind = "analyze" /\ j.pc \notin {"load", "idle"} => Status \in Analyzable
    /\ j.pc \in {"minimize", "report", "finish"} => j.actions = journal["source"]
    /\ j.pc = "report" => j.actions \in passed
    /\ j.pc = "finish" =>
           /\ j.kind # "analyze" => Status = "recording"
           /\ j.kind = "analyze" => j.record.status = "analyzed"
           /\ j.record.status \in Analyzable => j.actions \in passed
           /\ j.record.status = "analyzed" => j.actions \in reported
    /\ j.pc = "archive" /\ j.missed = {} => j.record = stored["source"]

RedactedPassed == {Redact(a) : a \in passed}

\* What is exported or forked as ready is ready still, and its actions have passed.
AtCopy(j) ==
    /\ j.kind \in {"export", "fork"} /\ j.pc \in {"copy", "actions"} =>
           (j.record.status \in Analyzable => Status \in Analyzable)
    /\ j.kind \in {"export", "fork"} /\ j.pc \in {"write", "copying"} =>
           IsJournal(j.actions) /\ (j.record.status \in Analyzable => j.actions \in passed)
    /\ j.kind = "import" /\ j.pc \in {"copy", "copying"} =>
           IsJournal(j.actions) /\ (j.record.status \in Analyzable => j.actions \in RedactedPassed)

FileInv ==
    /\ IsJournal(file.actions)
    /\ file.record.status \in Analyzable => file.actions \in RedactedPassed

\* One makes the copy; its journal is the beginning of the one being copied.
Begun(j) ==
    /\ Exists("copy") /\ stored["copy"].status = j.record.status
    /\ j.pc = "actions" => journal["copy"] = <<>>
    /\ j.pc = "copying" => \E n \in Nat : /\ 1..n \subseteq DOMAIN j.actions
                                          /\ journal["copy"] = [i \in 1..n |-> j.actions[i]]

CopyIsWhole == stored["copy"].status \in Analyzable => journal["copy"] \in passed \cup RedactedPassed

CopyInv ==
    /\ ~Exists("copy") => journal["copy"] = <<>>
    /\ \A v, w \in Workers : Copying(v) /\ Copying(w) => v = w
    /\ \A w \in Workers : Copying(w) => Begun(jobs[w])
    /\ Exists("copy") /\ ~cut /\ (\A w \in Workers : ~Copying(w)) => CopyIsWhole

ReadyInv ==
    /\ RecordsInv
    /\ Clean => /\ SourceInv
                /\ \A w \in Workers : AtWork(jobs[w]) /\ AtCopy(jobs[w])
                /\ FileInv
                /\ CopyInv

AllKinds == {"record", "done", "shell", "analyze", "candidate", "archive", "export", "fork", "import"}

\* A place tells the kind of the job, where it has to.
LEMMA KindsOfPlaces ==
    ASSUME NEW kind \in AllKinds, NEW pc \in Places(kind)
    PROVE  /\ pc \in {"execute", "touch"} => kind \in {"record", "shell"}
           /\ pc = "prompt" => kind = "shell"
           /\ pc = "replay" => kind \in {"done", "shell"}
           /\ pc \in {"minimize", "report"} => kind = "analyze"
           /\ pc = "finish" => kind \in {"done", "shell", "analyze"}
           /\ pc = "archive" => kind = "archive"
           /\ pc = "trial" => kind = "candidate"
           /\ pc = "write" => kind = "export"
           /\ pc \in {"copy", "copying"} => kind \in {"fork", "import"}
           /\ pc = "actions" => kind \notin {"archive", "import"}
BY DEF AllKinds, Places, Loaded

LEMMA KindsAreKnown ==
    ASSUME HistoryAssumption, HistoryInv, NEW w \in Workers, Active(w)
    PROVE  /\ jobs[w].kind \in Kinds(w) /\ jobs[w].kind \in AllKinds
           /\ w \in Recorders => jobs[w].kind \in {"record", "done", "shell", "analyze", "candidate"}
           /\ w \notin Recorders =>
                  jobs[w].kind \in {"archive", "export", "fork", "import", "candidate", "analyze"}
           /\ jobs[w].kind = "shell" <=> w \in Shells
BY DEF HistoryInv, ShapeInv, IsOf, Active, Kinds, AllKinds, Recorders, HistoryAssumption

\* The place of a job, as far as its kind goes.
LEMMA PlaceOfJob ==
    ASSUME HistoryAssumption, HistoryInv, RecordsInv, NEW w \in Workers, Active(w)
    PROVE  /\ jobs[w].kind \in AllKinds /\ jobs[w].pc \in Places(jobs[w].kind)
           /\ jobs[w].pc \in {"execute", "touch"} => jobs[w].kind \in {"record", "shell"}
           /\ jobs[w].pc = "prompt" => jobs[w].kind = "shell"
           /\ jobs[w].pc = "replay" => jobs[w].kind \in {"done", "shell"}
           /\ jobs[w].pc \in {"minimize", "report"} => jobs[w].kind = "analyze"
           /\ jobs[w].pc = "finish" => jobs[w].kind \in {"done", "shell", "analyze"}
           /\ jobs[w].pc = "archive" => jobs[w].kind = "archive"
           /\ jobs[w].pc = "trial" => jobs[w].kind = "candidate"
           /\ jobs[w].pc = "write" => jobs[w].kind = "export"
           /\ jobs[w].pc \in {"copy", "copying"} => jobs[w].kind \in {"fork", "import"}
           /\ jobs[w].pc = "actions" => jobs[w].kind \notin {"archive", "import"}
           /\ Exists("source") /\ stored["source"] \in SessionRecord
           /\ jobs[w].pc # "load" => jobs[w].record \in SessionRecord
<1>1. jobs[w].kind \in AllKinds
  BY KindsAreKnown
<1>2. jobs[w].pc \in Places(jobs[w].kind) /\ Exists("source")
  BY DEF RecordsInv, Fits
<1>3. stored["source"] \in SessionRecord /\ (jobs[w].pc # "load" => jobs[w].record \in SessionRecord)
  BY <1>2 DEF RecordsInv, Exists, Fits
<1> HIDE DEF AllKinds
<1> QED BY <1>1, <1>2, <1>3, KindsOfPlaces

LEMMA EmptyJournal ==
    ASSUME NEW a
    PROVE  IsJournal(<<>>) /\ <<>> = [i \in 1..0 |-> a[i]]
<1>1. <<>> = [i \in 1..0 |-> a[i]]
  OBVIOUS
<1>2. <<>> = [i \in 1..0 |-> <<>>[i]]
  OBVIOUS
<1> QED BY <1>1, <1>2 DEF IsJournal

\* The next action has the next number.
LEMMA NextOfJournal ==
    ASSUME NEW n \in Nat, NEW a, DOMAIN a = 1..n
    PROVE  NextActionId(a) = n + 1
<1>1. Cardinality(1..n) = n
  BY FS_Interval
<1> QED BY <1>1 DEF NextActionId

LEMMA PutJournal ==
    ASSUME NEW n \in Nat, NEW a, a = [i \in 1..n |-> a[i]], NEW line
    PROVE  /\ n + 1 \in Nat
           /\ Put(a, n + 1, line) = [i \in 1..(n + 1) |-> Put(a, n + 1, line)[i]]
           /\ Put(a, n + 1, line) = [i \in 1..(n + 1) |-> IF i = n + 1 THEN line ELSE a[i]]
<1>1. DOMAIN a = 1..n
  OBVIOUS
<1>2. 1..n \cup {n + 1} = 1..(n + 1)
  BY SMT
<1>3. Put(a, n + 1, line) = [i \in 1..(n + 1) |-> IF i = n + 1 THEN line ELSE a[i]]
  BY <1>1, <1>2 DEF Put
<1>4. n + 1 \in Nat
  OBVIOUS
<1> HIDE DEF Put
<1> QED BY <1>3, <1>4

\* What has passed stays so: a job that is not touched keeps what it has.
LEMMA JobKeeps ==
    ASSUME NEW w \in Workers, AtWork(jobs[w]), AtCopy(jobs[w]), jobs'[w] = jobs[w],
           stored'["source"] = stored["source"],
           journal'["source"] = journal["source"],
           passed \subseteq passed', reported \subseteq reported'
    PROVE  AtWork(jobs[w])' /\ AtCopy(jobs[w])'
<1>1. AtWork(jobs[w])'
  BY DEF AtWork, Status
<1>2. RedactedPassed \subseteq RedactedPassed'
  BY DEF RedactedPassed
<1>3. AtCopy(jobs[w])'
  BY <1>2 DEF AtCopy, Status
<1> QED BY <1>1, <1>3

\* A step of one job, which makes no copy and saves no row.
LEMMA OwnStep ==
    ASSUME ReadyInv, NEW w \in Workers, OnlyJob(w),
           Clean' => Clean,
           UNCHANGED <<stored, journal, baseline, init, cut>>,
           passed \subseteq passed', reported \subseteq reported',
           \/ file' = file
           \/ file'.record \in SessionRecord /\ (Clean => FileInv'),
           Fits(w)', Clean => AtWork(jobs[w])' /\ AtCopy(jobs[w])',
           ~Copying(w), ~Copying(w)'
    PROVE  ReadyInv'
<1>1. RecordsInv'
  <2>1. \A v \in Workers : Fits(v)'
    <3>1. \A v \in Workers \ {w} : jobs'[v] = jobs[v]
      BY DEF OnlyJob
    <3>2. \A v \in Workers \ {w} : Fits(v)'
      BY <3>1 DEF ReadyInv, RecordsInv, Fits, Active, Exists
    <3> QED BY <3>2
  <2> QED BY <2>1 DEF ReadyInv, RecordsInv, Exists
<1> SUFFICES ASSUME Clean, Clean'
             PROVE  /\ SourceInv'
                    /\ \A v \in Workers : AtWork(jobs[v])' /\ AtCopy(jobs[v])'
                    /\ FileInv'
                    /\ CopyInv'
  BY <1>1 DEF ReadyInv
<1>2. SourceInv /\ FileInv /\ CopyInv /\ \A v \in Workers : AtWork(jobs[v]) /\ AtCopy(jobs[v])
  BY DEF ReadyInv
<1>3. SourceInv'
  BY <1>2 DEF SourceInv, Status, Exists
<1>4. \A v \in Workers \ {w} : jobs'[v] = jobs[v]
  BY DEF OnlyJob
<1>5. ASSUME NEW v \in Workers PROVE AtWork(jobs[v])' /\ AtCopy(jobs[v])'
  <2>1. CASE v = w
    BY <2>1
  <2>2. CASE v # w
    BY <1>2, <1>4, <2>2, JobKeeps
  <2> QED BY <2>1, <2>2
<1>6. RedactedPassed \subseteq RedactedPassed'
  BY DEF RedactedPassed
<1>7. FileInv'
  BY <1>2, <1>6 DEF FileInv
<1>8. CopyInv'
  <2>1. \A v \in Workers : Copying(v)' <=> Copying(v)
    BY <1>4 DEF Copying
  <2>2. \A v \in Workers : Copying(v) => jobs'[v] = jobs[v]
    BY <1>4
  <2>3. ASSUME NEW v \in Workers, Copying(v)' PROVE Begun(jobs[v])'
    <3>1. Begun(jobs[v]) /\ jobs'[v] = jobs[v] /\ stored' = stored /\ journal' = journal
      BY <1>2, <2>1, <2>2, <2>3 DEF CopyInv
    <3> QED BY <3>1 DEF Begun, Exists
  <2>4. CopyIsWhole => CopyIsWhole'
    BY <1>6 DEF CopyIsWhole
  <2>5. /\ ~Exists("copy")' => (journal["copy"] = <<>>)'
        /\ \A u, v \in Workers : Copying(u)' /\ Copying(v)' => u = v
    BY <1>2, <2>1 DEF CopyInv, Exists
  <2>6. Exists("copy")' /\ ~cut' /\ (\A v \in Workers : ~Copying(v)') => CopyIsWhole'
    BY <1>2, <2>1, <2>4 DEF CopyInv, Exists
  <2> QED BY <2>3, <2>5, <2>6 DEF CopyInv
<1> QED BY <1>3, <1>5, <1>7, <1>8

\* A job that ends.
LEMMA IdleStep ==
    ASSUME HistoryInv, ReadyInv, NEW w \in Workers,
           jobs' = [jobs EXCEPT ![w] = Idle],
           UNCHANGED <<stored, journal, baseline, init, cut, lost, crowded>>,
           passed \subseteq passed', reported \subseteq reported',
           file' = file \/ (file'.record \in SessionRecord /\ (Clean => FileInv')),
           ~Copying(w)
    PROVE  ReadyInv'
<1>1. jobs'[w] = Idle /\ OnlyJob(w)
  BY DEF HistoryInv, ShapeInv, OnlyJob
<1>2. Idle.pc = "idle" /\ Idle.kind = "none"
  BY DEF Idle, None
<1>3. Fits(w)' /\ ~Copying(w)' /\ (Clean' => Clean)
  BY <1>1, <1>2 DEF Fits, Active, Copying, Clean, OnlyAnalysesLost
<1>4. AtWork(jobs[w])' /\ AtCopy(jobs[w])'
  BY <1>1, <1>2 DEF AtWork, AtCopy, Loaded
<1> QED BY <1>1, <1>3, <1>4, OwnStep

LEMMA ReadyBegin ==
    ASSUME HistoryAssumption, HistoryInv, ReadyInv, NEW w \in Workers, Begin(w)
    PROVE  ReadyInv'
<1>1. PICK kind \in Kinds(w) : jobs' = [jobs EXCEPT ![w] = [Idle EXCEPT !.kind = kind, !.pc = "load"]]
  BY DEF Begin
<1>2. jobs'[w] = [Idle EXCEPT !.kind = kind, !.pc = "load"] /\ OnlyJob(w)
  BY <1>1 DEF HistoryInv, ShapeInv, OnlyJob
<1>3. jobs'[w].kind = kind /\ jobs'[w].pc = "load"
  BY <1>2 DEF Idle
<1>4. /\ Exists("source") /\ jobs[w].pc = "idle"
      /\ UNCHANGED <<stored, journal, baseline, init, passed, reported, file, lost, cut>>
      /\ crowded => crowded'
  BY DEF Begin, Rows
<1>5. "load" \in Places(kind)
  BY DEF Places, Kinds
<1>6. Fits(w)' /\ ~Copying(w) /\ ~Copying(w)' /\ (Clean' => Clean)
  BY <1>3, <1>4, <1>5 DEF Fits, Copying, Exists, Clean, OnlyAnalysesLost
<1>7. AtWork(jobs[w])' /\ AtCopy(jobs[w])'
  BY <1>3 DEF AtWork, AtCopy, Loaded
<1> QED BY <1>2, <1>4, <1>6, <1>7, OwnStep

\* Loading the record: its status is the stored one.
LEMMA ReadyLoad ==
    ASSUME HistoryAssumption, HistoryInv, ReadyInv, NEW w \in Workers, LoadSession(w)
    PROVE  ReadyInv'
<1>1. /\ jobs[w].pc = "load" /\ jobs[w].kind # "import" /\ Active(w)
      /\ UNCHANGED <<stored, journal, baseline, init, passed, reported, file, lost, crowded, cut>>
  BY DEF LoadSession, Active, Rows, Histories
<1>2. /\ jobs = [v \in Workers |-> jobs[v]] /\ IsJob(jobs[w]) /\ jobs[w].kind \in AllKinds
      /\ Exists("source") /\ stored["source"] \in SessionRecord
  BY <1>1, PlaceOfJob DEF HistoryInv, ShapeInv, ReadyInv
<1>3. ~Copying(w)
  BY <1>1 DEF Copying
<1>4. CASE Quit(w)
  BY <1>1, <1>3, <1>4, IdleStep DEF Quit
<1>5. CASE ~Quit(w)
  <2> DEFINE pc == CASE jobs[w].kind = "archive" -> "archive"
                     [] jobs[w].kind = "fork"    -> "copy"
                     [] OTHER                    -> "actions"
  <2>1. /\ jobs' = [jobs EXCEPT ![w].record = stored["source"], ![w].pc = pc]
        /\ Accepts(jobs[w].kind, stored["source"].status)
    BY <1>5 DEF LoadSession
  <2>2. /\ pc \in Places(jobs[w].kind) /\ pc \in {"archive", "copy", "actions"}
        /\ pc = "archive" => jobs[w].kind = "archive"
        /\ pc = "copy" => jobs[w].kind = "fork"
        /\ pc = "actions" => jobs[w].kind # "fork"
    BY <1>1, <1>2 DEF AllKinds, Places
  <2> HIDE DEF pc
  <2>3. OnlyJob(w) /\ jobs'[w] = [jobs[w] EXCEPT !.record = stored["source"], !.pc = pc]
    BY <1>2, <2>1 DEF OnlyJob
  <2>4. jobs'[w].kind = jobs[w].kind /\ jobs'[w].pc = pc /\ jobs'[w].record = stored["source"]
    BY <1>2, <2>3 DEF IsJob
  <2>5. Fits(w)' /\ ~Copying(w)'
    BY <1>1, <1>2, <2>2, <2>4 DEF Fits, Copying, Exists
  <2>6. AtWork(jobs[w])'
    BY <1>1, <2>1, <2>2, <2>4 DEF AtWork, Accepts, Status, Loaded, Analyzable
  <2>7. AtCopy(jobs[w])'
    BY <1>1, <2>2, <2>4 DEF AtCopy, Status
  <2>8. Clean' => Clean
    BY <1>1 DEF Clean, OnlyAnalysesLost
  <2> QED BY <1>1, <1>3, <2>3, <2>5, <2>6, <2>7, <2>8, OwnStep
<1> QED BY <1>4, <1>5

\* Loading the journal: what may be analyzed has passed.
LEMMA ReadyActions ==
    ASSUME HistoryAssumption, HistoryInv, ReadyInv, NEW w \in Workers, LoadActions(w),
           jobs[w].kind # "fork"
    PROVE  ReadyInv'
<1> DEFINE pc == CASE jobs[w].kind = "record"  -> "execute"
                   [] jobs[w].kind = "done"    -> "replay"
                   [] jobs[w].kind = "analyze" -> "minimize"
                   [] jobs[w].kind = "candidate" -> "trial"
                   [] jobs[w].kind = "export"  -> "write"
                   [] jobs[w].kind = "fork"    -> "copying"
                   [] jobs[w].kind = "shell"   -> "prompt"
<1>1. /\ jobs[w].pc = "actions" /\ Active(w)
      /\ jobs' = [jobs EXCEPT ![w].actions = journal["source"], ![w].pc = pc]
      /\ UNCHANGED <<stored, journal, baseline, init, passed, reported, file, lost, crowded, cut>>
  BY DEF LoadActions, Active, Rows, Histories
<1>2. /\ jobs = [v \in Workers |-> jobs[v]] /\ IsJob(jobs[w]) /\ jobs[w].kind \in AllKinds
      /\ jobs[w].kind \notin {"archive", "import"} /\ jobs[w].record \in SessionRecord
      /\ Exists("source")
  BY <1>1, PlaceOfJob DEF HistoryInv, ShapeInv, ReadyInv
<1>3. /\ pc \in Places(jobs[w].kind)
      /\ pc \in {"execute", "replay", "minimize", "trial", "write", "prompt"}
      /\ pc = "minimize" => jobs[w].kind = "analyze"
      /\ pc = "write" <=> jobs[w].kind = "export"
  BY <1>2 DEF AllKinds, Places, Loaded
<1> HIDE DEF pc
<1>4. OnlyJob(w) /\ jobs'[w] = [jobs[w] EXCEPT !.actions = journal["source"], !.pc = pc]
  BY <1>1, <1>2 DEF OnlyJob
<1>5. /\ jobs'[w].kind = jobs[w].kind /\ jobs'[w].pc = pc /\ jobs'[w].record = jobs[w].record
      /\ jobs'[w].actions = journal["source"]
  BY <1>2, <1>4 DEF IsJob
<1>6. Fits(w)' /\ ~Copying(w)' /\ ~Copying(w) /\ (Clean' => Clean)
  BY <1>1, <1>2, <1>3, <1>5 DEF Fits, Copying, Exists, Clean, OnlyAnalysesLost
<1>7. ASSUME Clean PROVE AtWork(jobs[w])' /\ AtCopy(jobs[w])'
  <2>1. AtWork(jobs[w]) /\ AtCopy(jobs[w]) /\ SourceInv
    BY <1>7 DEF ReadyInv
  <2>2. AtWork(jobs[w])'
    BY <1>1, <1>3, <1>5, <2>1 DEF AtWork, Status
  <2>3. jobs[w].kind = "export" => (jobs[w].record.status \in Analyzable => Status \in Analyzable)
    BY <1>1, <2>1 DEF AtCopy
  <2>4. AtCopy(jobs[w])'
    BY <1>1, <1>2, <1>3, <1>5, <2>1, <2>3 DEF AtCopy, SourceInv, Status
  <2> QED BY <2>2, <2>4
<1> QED BY <1>1, <1>4, <1>6, <1>7, OwnStep

\* The controlled shell takes a line.
LEMMA ReadyPrompt ==
    ASSUME HistoryAssumption, HistoryInv, ReadyInv, NEW w \in Workers, Prompt(w)
    PROVE  ReadyInv'
<1>1. PICK pc \in {"execute", "replay"} : Step(w, pc)
  BY DEF Prompt
<1>2. /\ jobs[w].pc = "prompt" /\ Active(w)
      /\ UNCHANGED <<stored, journal, baseline, init, passed, reported, file, lost, crowded, cut>>
  BY DEF Prompt, Active, Rows, Histories
<1>3. /\ jobs = [v \in Workers |-> jobs[v]] /\ IsJob(jobs[w])
      /\ jobs[w].kind = "shell" /\ Exists("source") /\ jobs[w].record \in SessionRecord
  BY <1>2, PlaceOfJob DEF HistoryInv, ShapeInv, ReadyInv
<1>4. OnlyJob(w) /\ jobs'[w] = [jobs[w] EXCEPT !.pc = pc]
  BY <1>1, <1>3 DEF OnlyJob, Step
<1>5. jobs'[w].kind = "shell" /\ jobs'[w].pc = pc /\ jobs'[w].record = jobs[w].record
  BY <1>3, <1>4 DEF IsJob
<1>6. Fits(w)' /\ ~Copying(w)' /\ ~Copying(w) /\ (Clean' => Clean)
  BY <1>2, <1>3, <1>5 DEF Fits, Copying, Exists, Clean, OnlyAnalysesLost, Places, Loaded
<1>7. ASSUME Clean PROVE AtWork(jobs[w])' /\ AtCopy(jobs[w])'
  <2>1. AtWork(jobs[w])
    BY <1>7 DEF ReadyInv
  <2>2. AtWork(jobs[w])'
    BY <1>2, <1>3, <1>5, <2>1 DEF AtWork, Status, Loaded
  <2> QED BY <1>5, <2>2 DEF AtCopy
<1> QED BY <1>2, <1>4, <1>6, <1>7, OwnStep

\* A recorder or an analysis comes to its end with a status.
LEMMA ReadyEnding ==
    ASSUME HistoryAssumption, HistoryInv, ReadyInv, NEW w \in Workers,
           jobs[w].pc \in {"prompt", "replay", "report"},
           NEW status \in {"ready_for_analysis", "analyzed", "cancelled"}, Ending(w, status),
           UNCHANGED <<stored, journal, baseline, init, file, lost, crowded, cut>>,
           passed \subseteq passed', reported \subseteq reported',
           status = "ready_for_analysis" => jobs[w].actions \in passed',
           status = "analyzed" <=> jobs[w].pc = "report",
           status = "analyzed" => jobs[w].actions \in reported'
    PROVE  ReadyInv'
<1>1. /\ Active(w) /\ jobs = [v \in Workers |-> jobs[v]] /\ IsJob(jobs[w])
      /\ jobs[w].kind \in {"done", "shell", "analyze"} /\ Exists("source")
      /\ jobs[w].kind = "analyze" <=> jobs[w].pc = "report"
      /\ jobs[w].pc # "report" => w \in Recorders
      /\ jobs[w].record \in SessionRecord
  BY PlaceOfJob, KindsAreKnown DEF Active, HistoryInv, ShapeInv, ReadyInv
<1> DEFINE r == [jobs[w].record EXCEPT !.status = status]
<1>2. r \in SessionRecord /\ r.status = status
  BY <1>1 DEF SessionRecord, Statuses
<1>3. OnlyJob(w) /\ jobs'[w] = [jobs[w] EXCEPT !.record = r, !.pc = "finish"]
  BY <1>1 DEF OnlyJob, IsJob, Ending
<1> HIDE DEF r
<1>4. /\ jobs'[w].kind = jobs[w].kind /\ jobs'[w].pc = "finish" /\ jobs'[w].record = r
      /\ jobs'[w].actions = jobs[w].actions
  BY <1>1, <1>3 DEF IsJob
<1>5. Fits(w)' /\ ~Copying(w)' /\ ~Copying(w) /\ (Clean' => Clean)
  BY <1>1, <1>2, <1>4 DEF Fits, Copying, Exists, Clean, OnlyAnalysesLost, Places, Loaded
<1>6. ASSUME Clean PROVE AtWork(jobs[w])' /\ AtCopy(jobs[w])'
  <2>1. AtWork(jobs[w])
    BY <1>6 DEF ReadyInv
  <2>2. jobs[w].actions = journal["source"]
    <3>1. CASE jobs[w].pc = "report"
      BY <2>1, <3>1 DEF AtWork
    <3>2. CASE jobs[w].pc \in Loaded
      <4>1. w \in Recorders
        BY <1>1, <3>2 DEF Loaded
      <4> QED BY <1>6, <3>2, <4>1 DEF HistoryInv, MissedInv, Clean
    <3> QED BY <3>1, <3>2 DEF Loaded
  <2>3. /\ jobs[w].kind # "analyze" => Status = "recording"
        /\ jobs[w].kind = "analyze" => Status \in Analyzable
        /\ jobs[w].pc = "report" => jobs[w].actions \in passed
    BY <1>1, <2>1 DEF AtWork, Loaded
  <2>4. AtWork(jobs[w])'
    BY <1>1, <1>2, <1>4, <2>2, <2>3 DEF AtWork, Status, Loaded, Analyzable
  <2>5. AtCopy(jobs[w])'
    BY <1>1, <1>4 DEF AtCopy
  <2> QED BY <2>4, <2>5
<1> QED BY <1>3, <1>5, <1>6, OwnStep

LEMMA ReadyReplay ==
    ASSUME HistoryAssumption, HistoryInv, ReadyInv, NEW w \in Workers, ReplayAll(w)
    PROVE  ReadyInv'
<1>1. /\ jobs[w].pc = "replay" /\ Active(w) /\ ~Copying(w)
      /\ UNCHANGED <<stored, journal, baseline, init, reported, file, lost, crowded, cut>>
  BY DEF ReplayAll, Active, Copying, Histories
<1>2. CASE SavePass(w) /\ Ending(w, "ready_for_analysis")
  BY <1>1, <1>2, ReadyEnding DEF SavePass
<1>3. CASE Ending(w, "cancelled") /\ UNCHANGED passed
  BY <1>1, <1>3, ReadyEnding
<1>4. CASE End(w) /\ UNCHANGED passed
  <2>1. CASE w \notin Shells
    BY <1>1, <1>4, <2>1, IdleStep DEF End, Finished
  <2>2. CASE w \in Shells
    <3>1. /\ jobs = [v \in Workers |-> jobs[v]] /\ IsJob(jobs[w])
          /\ jobs[w].kind = "shell" /\ Exists("source") /\ jobs[w].record \in SessionRecord
      BY <1>1, <2>2, PlaceOfJob, KindsAreKnown DEF HistoryInv, ShapeInv, ReadyInv
    <3>2. jobs' = [jobs EXCEPT ![w] = [jobs[w] EXCEPT !.pc = "prompt"]]
      BY <1>4, <2>2 DEF End, Finished
    <3>3. OnlyJob(w) /\ jobs'[w] = [jobs[w] EXCEPT !.pc = "prompt"]
      BY <3>1, <3>2 DEF OnlyJob
    <3>4. jobs'[w].kind = "shell" /\ jobs'[w].pc = "prompt" /\ jobs'[w].record = jobs[w].record
      BY <3>1, <3>3 DEF IsJob
    <3>5. Fits(w)' /\ ~Copying(w)' /\ (Clean' => Clean)
      BY <1>1, <3>1, <3>4 DEF Fits, Copying, Exists, Clean, OnlyAnalysesLost, Places, Loaded
    <3>6. ASSUME Clean PROVE AtWork(jobs[w])' /\ AtCopy(jobs[w])'
      <4>1. AtWork(jobs[w])
        BY <3>6 DEF ReadyInv
      <4>2. AtWork(jobs[w])'
        BY <1>1, <3>1, <3>4, <4>1 DEF AtWork, Status, Loaded
      <4> QED BY <3>4, <4>2 DEF AtCopy
    <3> QED BY <1>1, <1>4, <3>3, <3>5, <3>6, OwnStep
  <2> QED BY <2>1, <2>2
<1> QED BY <1>2, <1>3, <1>4 DEF ReplayAll

\* The trials of an analysis: among them one of all the actions that passed.
LEMMA ReadyTrials ==
    ASSUME HistoryAssumption, HistoryInv, ReadyInv, NEW w \in Workers, SaveTrials(w)
    PROVE  ReadyInv'
<1>1. /\ jobs[w].pc = "minimize" /\ Active(w) /\ ~Copying(w)
      /\ UNCHANGED <<stored, journal, baseline, init, reported, file, lost, crowded, cut>>
  BY DEF SaveTrials, Active, Copying, Histories
<1>2. CASE Quit(w) /\ UNCHANGED passed
  BY <1>1, <1>2, IdleStep DEF Quit
<1>3. CASE SavePass(w) /\ Step(w, "report")
  <2>1. /\ jobs = [v \in Workers |-> jobs[v]] /\ IsJob(jobs[w])
        /\ jobs[w].kind = "analyze" /\ Exists("source") /\ jobs[w].record \in SessionRecord
    BY <1>1, PlaceOfJob DEF HistoryInv, ShapeInv, ReadyInv
  <2>2. OnlyJob(w) /\ jobs'[w] = [jobs[w] EXCEPT !.pc = "report"]
    BY <1>3, <2>1 DEF OnlyJob, Step
  <2>3. /\ jobs'[w].kind = "analyze" /\ jobs'[w].pc = "report"
        /\ jobs'[w].record = jobs[w].record /\ jobs'[w].actions = jobs[w].actions
    BY <2>1, <2>2 DEF IsJob
  <2>4. Fits(w)' /\ ~Copying(w)' /\ (Clean' => Clean)
    BY <1>1, <2>1, <2>3 DEF Fits, Copying, Exists, Clean, OnlyAnalysesLost, Places
  <2>5. passed' = passed \cup {jobs[w].actions}
    BY <1>3 DEF SavePass
  <2>6. ASSUME Clean PROVE AtWork(jobs[w])' /\ AtCopy(jobs[w])'
    <3>1. AtWork(jobs[w])
      BY <2>6 DEF ReadyInv
    <3>2. AtWork(jobs[w])'
      BY <1>1, <2>1, <2>3, <2>5, <3>1 DEF AtWork, Status, Loaded
    <3> QED BY <2>3, <3>2 DEF AtCopy
  <2> QED BY <1>1, <2>2, <2>4, <2>5, <2>6, OwnStep
<1> QED BY <1>2, <1>3 DEF SaveTrials

\* What only ends a job.
LEMMA ReadyQuit ==
    ASSUME HistoryAssumption, HistoryInv, ReadyInv, NEW w \in Workers,
           Leave(w) \/ RunCandidate(w) \/ ExportSession(w)
    PROVE  ReadyInv'
<1>1. /\ UNCHANGED <<stored, journal, baseline, init, reported, lost, crowded, cut>>
      /\ passed \subseteq passed' /\ jobs' = [jobs EXCEPT ![w] = Idle]
      /\ jobs[w].pc \in {"prompt", "execute", "trial", "write"}
  BY DEF Leave, RunCandidate, ExportSession, SavePass, Quit, Rows, Histories
<1>2. ~Copying(w) /\ Active(w)
  BY <1>1 DEF Copying, Active
<1>3. CASE ~ExportSession(w)
  <2>1. file' = file
    BY <1>3 DEF Leave, RunCandidate, Rows
  <2> QED BY <1>1, <1>2, <2>1, IdleStep
<1>4. CASE ExportSession(w)
  <2>1. /\ file' = [record |-> jobs[w].record, actions |-> Redact(jobs[w].actions)]
        /\ passed' = passed /\ jobs[w].pc = "write"
    BY <1>4 DEF ExportSession
  <2>2. jobs[w].kind = "export" /\ jobs[w].record \in SessionRecord
    BY <1>2, <2>1, PlaceOfJob DEF ReadyInv
  <2>3. ASSUME Clean PROVE FileInv'
    <3>1. /\ IsJournal(jobs[w].actions)
          /\ jobs[w].record.status \in Analyzable => jobs[w].actions \in passed
      BY <2>1, <2>2, <2>3 DEF ReadyInv, AtCopy
    <3>2. IsJournal(Redact(jobs[w].actions))
      BY <3>1 DEF IsJournal, Redact
    <3>3. jobs[w].record.status \in Analyzable => Redact(jobs[w].actions) \in RedactedPassed
      BY <3>1 DEF RedactedPassed
    <3>4. RedactedPassed' = RedactedPassed
      BY <2>1 DEF RedactedPassed
    <3>5. file'.record = jobs[w].record /\ file'.actions = Redact(jobs[w].actions)
      BY <2>1
    <3> QED BY <3>2, <3>3, <3>4, <3>5 DEF FileInv
  <2>4. file'.record \in SessionRecord
    BY <2>1, <2>2
  <2> QED BY <1>1, <1>2, <2>3, <2>4, IdleStep
<1> QED BY <1>3, <1>4

\* An import takes what the file has.
LEMMA ReadyImport ==
    ASSUME HistoryAssumption, HistoryInv, ReadyInv, NEW w \in Workers, ReadImport(w)
    PROVE  ReadyInv'
<1>1. /\ jobs[w].pc = "load" /\ jobs[w].kind = "import" /\ Active(w) /\ ~Copying(w)
      /\ UNCHANGED <<stored, journal, baseline, init, passed, reported, file, lost, crowded, cut>>
  BY DEF ReadImport, Active, Copying, Rows, Histories
<1>2. CASE Quit(w)
  BY <1>1, <1>2, IdleStep DEF Quit
<1>3. CASE ~Quit(w)
  <2>1. /\ file # NoFile
        /\ jobs' = [jobs EXCEPT ![w].record = file.record, ![w].actions = file.actions,
                                ![w].pc = "copy"]
    BY <1>3 DEF ReadImport
  <2>2. /\ jobs = [v \in Workers |-> jobs[v]] /\ IsJob(jobs[w]) /\ Exists("source")
        /\ file.record \in SessionRecord
    BY <1>1, <2>1, PlaceOfJob DEF HistoryInv, ShapeInv, ReadyInv, RecordsInv
  <2>3. /\ OnlyJob(w)
        /\ jobs'[w] = [jobs[w] EXCEPT !.record = file.record, !.actions = file.actions, !.pc = "copy"]
    BY <2>1, <2>2 DEF OnlyJob
  <2>4. /\ jobs'[w].kind = "import" /\ jobs'[w].pc = "copy"
        /\ jobs'[w].record = file.record /\ jobs'[w].actions = file.actions
    BY <1>1, <2>2, <2>3 DEF IsJob
  <2>5. Fits(w)' /\ ~Copying(w)' /\ (Clean' => Clean)
    BY <1>1, <2>2, <2>4 DEF Fits, Copying, Exists, Clean, OnlyAnalysesLost, Places
  <2>6. ASSUME Clean PROVE AtWork(jobs[w])' /\ AtCopy(jobs[w])'
    <3>1. FileInv
      BY <2>6 DEF ReadyInv
    <3>2. AtWork(jobs[w])'
      BY <2>4 DEF AtWork, Loaded
    <3>3. RedactedPassed' = RedactedPassed
      BY <1>1 DEF RedactedPassed
    <3>4. AtCopy(jobs[w])'
      BY <2>4, <3>1, <3>3 DEF AtCopy, FileInv
    <3> QED BY <3>2, <3>4
  <2> QED BY <1>1, <2>3, <2>5, <2>6, OwnStep
<1> QED BY <1>2, <1>3

\* A save of the whole record (SaveSession, of touch, finish and archive), which may undo an
\* analysis only if it is one: either its status is the stored one, or it is a recorder's,
\* with nobody else recording or analyzing, or what may be analyzed stays so.
LEMMA ReadySave ==
    ASSUME HistoryAssumption, HistoryInv, ReadyInv, NEW w \in Workers, Active(w),
           jobs[w].pc \in {"touch", "finish", "archive"},
           NEW record \in SessionRecord, NEW after, SaveSession(w, record, after),
           \/ after = Idle
           \/ /\ w \in Shells /\ after = [jobs[w] EXCEPT !.pc = "prompt"]
              /\ Clean => record.status = "recording",
           UNCHANGED <<journal, baseline, passed, reported, file, cut, crowded>>,
           Clean /\ (Who(w) = "archive" => jobs[w].missed = {}) =>
               \/ record.status = Status
               \/ /\ Status \in {"recording"} \cup Analyzable
                  /\ Status = "recording" => w \in Recorders
                  /\ record.status \in Analyzable => journal["source"] \in passed
                  /\ record.status = "analyzed" => journal["source"] \in reported
                  /\ Status \in Analyzable => record.status \in Analyzable
    PROVE  ReadyInv'
<1> DEFINE O == Outdated(Who(w))
<1>1. /\ stored = [s \in DOMAIN stored |-> stored[s]] /\ DOMAIN stored \subseteq Sessions
      /\ \A s \in DOMAIN stored : stored[s] \in SessionRecord
      /\ init = [pc |-> init.pc, missed |-> init.missed]
      /\ Exists("source") /\ init.pc # "none"
      /\ jobs = [v \in Workers |-> jobs[v]] /\ IsJob(jobs[w]) /\ ShapeInv
  BY PlaceOfJob DEF ReadyInv, RecordsInv, HistoryInv, ShapeInv
<1>2. stored' = Put(stored, "source", record)
  BY DEF SaveSession
<1>3. /\ DOMAIN stored' = DOMAIN stored /\ stored'["source"] = record
      /\ \A s \in DOMAIN stored \ {"source"} : stored'[s] = stored[s]
      /\ stored' = [s \in DOMAIN stored' |-> stored'[s]]
  BY <1>1, <1>2 DEF Put, Exists
<1>4. /\ init'.pc = init.pc /\ init' = [pc |-> init'.pc, missed |-> init'.missed]
      /\ init.pc = "name" => init'.missed # {}
  <2>1. CASE Initializing
    <3>1. init' = [init EXCEPT !.missed = init.missed \cup {Who(w)}]
      BY <1>1, <2>1 DEF SaveSession
    <3>2. init' = [pc |-> init.pc, missed |-> init.missed \cup {Who(w)}]
      BY <1>1, <3>1
    <3> QED BY <3>2
  <2>2. CASE ~Initializing
    <3>1. init' = init
      BY <2>2 DEF SaveSession
    <3> QED BY <1>1, <2>2, <3>1 DEF Initializing
  <2> QED BY <2>1, <2>2
<1>5. ASSUME NEW v \in Workers \ {w}
      PROVE  /\ jobs'[v].kind = jobs[v].kind /\ jobs'[v].pc = jobs[v].pc
             /\ jobs'[v].record = jobs[v].record /\ jobs'[v].actions = jobs[v].actions
             /\ jobs[v].record # NoRecord => jobs'[v].missed # {}
  <2>1. jobs'[v] = O[v]
    BY DEF SaveSession, Outdated
  <2>2. jobs[v].record # NoRecord => O[v].missed # {}
    <3>1. IsJob(jobs[v])
      BY <1>1 DEF ShapeInv
    <3>2. jobs[v].record # NoRecord => O[v] = [jobs[v] EXCEPT !.missed = jobs[v].missed \cup {Who(w)}]
      BY <3>1 DEF Outdated, IsJob
    <3>3. O[v] = [jobs[v] EXCEPT !.missed = jobs[v].missed \cup {Who(w)}] => Who(w) \in O[v].missed
      BY <3>1 DEF IsJob
    <3> QED BY <3>2, <3>3
  <2> HIDE DEF O
  <2>3. /\ O[v].kind = jobs[v].kind /\ O[v].pc = jobs[v].pc
        /\ O[v].record = jobs[v].record /\ O[v].actions = jobs[v].actions
    BY <1>1, OutdatedJobs DEF O
  <2> QED BY <2>1, <2>2, <2>3
<1>6. \/ jobs'[w].pc = "idle"
      \/ /\ w \in Shells /\ jobs'[w].pc = "prompt" /\ jobs'[w].kind = "shell"
         /\ jobs'[w].record = record /\ (Clean => record.status = "recording")
  <2>1. jobs'[w] = [after EXCEPT !.missed = {}, !.record = IF after = Idle THEN NoRecord ELSE record]
    BY DEF SaveSession, Outdated
  <2>2. CASE after = Idle
    BY <2>1, <2>2 DEF Idle
  <2>3. CASE after # Idle
    <3>1. /\ w \in Shells /\ after = [jobs[w] EXCEPT !.pc = "prompt"] /\ jobs[w].kind = "shell"
          /\ Clean => record.status = "recording"
      BY <2>3, KindsAreKnown
    <3>2. jobs'[w] = [after EXCEPT !.missed = {}, !.record = record]
      BY <2>1, <2>3
    <3>3. jobs'[w].pc = "prompt" /\ jobs'[w].kind = "shell" /\ jobs'[w].record = record
      BY <1>1, <3>1, <3>2 DEF IsJob
    <3> QED BY <3>1, <3>3
  <2> QED BY <2>2, <2>3
<1>7. RecordsInv'
  <2>1. Exists("source")' /\ \A s \in DOMAIN stored' : stored'[s] \in SessionRecord
    BY <1>1, <1>3 DEF Exists
  <2>2. ASSUME NEW v \in Workers PROVE Fits(v)'
    <3>1. CASE v # w
      <4>1. Fits(v)
        BY DEF ReadyInv, RecordsInv
      <4> QED BY <1>5, <2>1, <3>1, <4>1 DEF Fits, Active, Exists
    <3>2. CASE v = w
      BY <1>6, <2>1, <3>2 DEF Fits, Active, Exists, Places, Loaded
    <3> QED BY <3>1, <3>2
  <2> QED BY <1>1, <1>3, <1>4, <2>1, <2>2 DEF ReadyInv, RecordsInv
<1> SUFFICES ASSUME Clean'
             PROVE  /\ SourceInv'
                    /\ \A v \in Workers : AtWork(jobs[v])' /\ AtCopy(jobs[v])'
                    /\ FileInv'
                    /\ CopyInv'
  BY <1>7 DEF ReadyInv
<1>8. Clean /\ (Who(w) = "archive" => jobs[w].missed = {})
  <2> DEFINE S == {<<Who(w), other>> : other \in jobs[w].missed}
  <2>1. lost' = lost \cup S /\ lost' \subseteq Analysts \X Analysts /\ ~crowded'
    BY DEF SaveSession, Clean, OnlyAnalysesLost
  <2>2. \A other \in jobs[w].missed : <<Who(w), other>> \in S
    OBVIOUS
  <2> HIDE DEF S
  <2>3. lost \subseteq Analysts \X Analysts /\ S \subseteq Analysts \X Analysts
    BY <2>1
  <2>4. \A other \in jobs[w].missed : Who(w) \in Analysts
    BY <2>2, <2>3
  <2>5. Who(w) = "archive" => jobs[w].missed = {}
    BY <2>4 DEF Analysts
  <2> QED BY <2>1, <2>3, <2>5 DEF Clean, OnlyAnalysesLost
<1>9. SourceInv /\ FileInv /\ CopyInv /\ \A v \in Workers : AtWork(jobs[v]) /\ AtCopy(jobs[v])
  BY <1>8 DEF ReadyInv
<1>10. SourceInv'
  <2>1. Status' = record.status
    BY <1>3 DEF Status
  <2>2. \/ record.status = Status
        \/ /\ Status \in {"recording"} \cup Analyzable
           /\ record.status \in Analyzable => journal["source"] \in passed
           /\ record.status = "analyzed" => journal["source"] \in reported
    BY <1>8
  <2>3. /\ init.pc = "judge" => Status = "invalid"
        /\ init.pc = "name" => baseline = "stable_fail"
        /\ Status \in {"recording"} \cup Analyzable => baseline = "stable_fail"
        /\ Status \in Analyzable => journal["source"] \in passed
        /\ Status = "analyzed" => journal["source"] \in reported
        /\ IsJournal(journal["source"])
    BY <1>1, <1>9 DEF SourceInv
  <2>4. init.pc = "judge" => record.status = "invalid"
    BY <2>2, <2>3 DEF Analyzable
  <2>5. record.status \in {"recording"} \cup Analyzable => baseline = "stable_fail"
    BY <2>2, <2>3
  <2>6. /\ record.status \in Analyzable => journal["source"] \in passed
        /\ record.status = "analyzed" => journal["source"] \in reported
    BY <2>2, <2>3
  <2> QED BY <1>4, <2>1, <2>3, <2>4, <2>5, <2>6 DEF SourceInv
<1>11. ASSUME NEW v \in Workers PROVE AtWork(jobs[v])' /\ AtCopy(jobs[v])'
  <2>1. CASE v = w
    <3>1. CASE jobs'[w].pc = "idle"
      BY <2>1, <3>1 DEF AtWork, AtCopy, Loaded
    <3>2. CASE jobs'[w].pc # "idle"
      <4>1. jobs'[w].pc = "prompt" /\ jobs'[w].kind = "shell" /\ jobs'[w].record.status = "recording"
            /\ stored'["source"].status = "recording"
        BY <1>3, <1>6, <1>8, <3>2
      <4> QED BY <2>1, <4>1 DEF AtWork, AtCopy, Status
    <3> QED BY <3>1, <3>2
  <2>2. CASE v # w /\ jobs[v].pc = "idle"
    BY <1>5, <2>2 DEF AtWork, AtCopy, Loaded
  <2>3. CASE v # w /\ jobs[v].pc # "idle"
    <3>1. Active(v) /\ v \in Workers \ {w}
      BY <2>3 DEF Active
    <3>2. /\ jobs[v].pc = "archive" => jobs[v].record # NoRecord
          /\ jobs[v].pc \in {"minimize", "report"} => jobs[v].kind = "analyze"
          /\ jobs[v].pc = "finish" => jobs[v].kind \in {"done", "shell", "analyze"}
      BY <3>1, PlaceOfJob DEF ReadyInv, NoRecord, SessionRecord, Statuses, None
    <3>3. jobs'[v].pc = "archive" => jobs'[v].missed # {}
      BY <1>5, <3>1, <3>2
    <3>4. AtWork(jobs[v]) /\ AtCopy(jobs[v])
      BY <1>9
    <3>5. RedactedPassed' = RedactedPassed
      BY DEF RedactedPassed
    <3>6. CASE record.status = Status
      <4>1. Status' = Status
        BY <1>3, <3>6 DEF Status
      <4>2. AtWork(jobs[v])'
        BY <1>5, <3>1, <3>3, <3>4, <4>1 DEF AtWork
      <4>3. AtCopy(jobs[v])'
        BY <1>5, <3>1, <3>4, <3>5, <4>1 DEF AtCopy
      <4> QED BY <4>2, <4>3
    <3>7. CASE w \in Recorders /\ Status = "recording"
      <4>1. v \notin Recorders
        BY <1>8, <3>1, <3>7, OneRecorder DEF HistoryInv, Clean, OnlyAnalysesLost
      <4>2. /\ jobs[v].kind \in {"archive", "export", "fork", "import", "candidate", "analyze"}
            /\ jobs[v].kind = "analyze" => jobs[v].pc = "load"
        BY <3>1, <3>4, <3>7, <4>1, KindsAreKnown DEF AtWork, Active, Analyzable
      <4>3. AtWork(jobs[v])'
        BY <1>5, <3>1, <3>2, <3>3, <4>2 DEF AtWork
      <4>4. AtCopy(jobs[v])'
        BY <1>5, <3>1, <3>4, <3>5, <3>7 DEF AtCopy, Analyzable
      <4> QED BY <4>3, <4>4
    <3>8. CASE Status \in Analyzable /\ record.status \in Analyzable
      <4>1. Status' \in Analyzable
        BY <1>3, <3>8 DEF Status, Analyzable
      <4>2. /\ ~(jobs[v].kind \in {"record", "done", "shell"} /\ jobs[v].pc \in {"actions"} \cup Loaded)
            /\ jobs[v].pc = "finish" => jobs[v].kind = "analyze"
        BY <3>4, <3>8 DEF AtWork, Analyzable
      <4>3. AtWork(jobs[v])'
        BY <1>5, <3>1, <3>3, <3>4, <4>1, <4>2 DEF AtWork
      <4>4. AtCopy(jobs[v])'
        BY <1>5, <3>1, <3>4, <3>5, <4>1 DEF AtCopy
      <4> QED BY <4>3, <4>4
    <3> QED BY <1>8, <3>6, <3>7, <3>8
  <2> QED BY <2>1, <2>2, <2>3
<1>12. FileInv' /\ RedactedPassed' = RedactedPassed
  BY <1>9 DEF FileInv, RedactedPassed
<1>13. CopyInv'
  <2>1. ASSUME NEW v \in Workers
        PROVE  /\ Copying(v)' <=> Copying(v)
               /\ Copying(v) => /\ jobs'[v].pc = jobs[v].pc /\ jobs'[v].record = jobs[v].record
                                /\ jobs'[v].actions = jobs[v].actions
    <3>1. CASE v # w
      BY <1>5, <3>1 DEF Copying
    <3>2. CASE v = w
      BY <1>6, <3>2 DEF Copying
    <3> QED BY <3>1, <3>2
  <2>2. /\ Exists("copy")' <=> Exists("copy")
        /\ Exists("copy") => stored'["copy"] = stored["copy"]
    BY <1>3 DEF Exists
  <2>3. ASSUME NEW v \in Workers, Copying(v)' PROVE Begun(jobs[v])'
    <3>1. Begun(jobs[v]) /\ journal' = journal
      BY <1>9, <2>1, <2>3 DEF CopyInv
    <3>2. /\ jobs'[v].pc = jobs[v].pc /\ jobs'[v].record = jobs[v].record
          /\ jobs'[v].actions = jobs[v].actions
      BY <2>1, <2>3
    <3> QED BY <2>2, <3>1, <3>2 DEF Begun
  <2>4. /\ ~Exists("copy")' => (journal["copy"] = <<>>)'
        /\ \A u, v \in Workers : Copying(u)' /\ Copying(v)' => u = v
    BY <1>9, <2>1, <2>2 DEF CopyInv
  <2>5. Exists("copy")' /\ ~cut' /\ (\A v \in Workers : ~Copying(v)') => CopyIsWhole'
    BY <1>9, <1>12, <2>1, <2>2 DEF CopyInv, CopyIsWhole
  <2> QED BY <2>3, <2>4, <2>5 DEF CopyInv
<1> QED BY <1>10, <1>11, <1>12, <1>13

LEMMA ReadyTouch ==
    ASSUME HistoryAssumption, HistoryInv, ReadyInv, NEW w \in Workers, TouchSession(w)
    PROVE  ReadyInv'
<1>1. /\ jobs[w].pc = "touch" /\ Active(w) /\ SaveSession(w, jobs[w].record, Finished(w))
      /\ UNCHANGED <<journal, baseline, passed, reported, file, cut, crowded>>
  BY DEF TouchSession, Active
<1>2. jobs[w].record \in SessionRecord /\ jobs[w].kind \in {"record", "shell"}
  BY <1>1, PlaceOfJob DEF ReadyInv
<1>3. Clean => jobs[w].record.status = "recording" /\ Status = "recording"
  BY <1>1, <1>2 DEF ReadyInv, AtWork, Loaded
<1>4. \/ Finished(w) = Idle
      \/ /\ w \in Shells /\ Finished(w) = [jobs[w] EXCEPT !.pc = "prompt"]
         /\ Clean => jobs[w].record.status = "recording"
  BY <1>3 DEF Finished
<1> QED BY <1>1, <1>2, <1>3, <1>4, ReadySave

LEMMA ReadyFinish ==
    ASSUME HistoryAssumption, HistoryInv, ReadyInv, NEW w \in Workers, Finish(w)
    PROVE  ReadyInv'
<1>1. /\ jobs[w].pc = "finish" /\ Active(w) /\ SaveSession(w, jobs[w].record, Idle)
      /\ UNCHANGED <<journal, baseline, passed, reported, file, cut, crowded>>
  BY DEF Finish, Active
<1>2. /\ jobs[w].record \in SessionRecord /\ jobs[w].kind \in {"done", "shell", "analyze"}
      /\ jobs[w].kind # "analyze" => w \in Recorders
  BY <1>1, PlaceOfJob, KindsAreKnown DEF ReadyInv
<1>3. ASSUME Clean
      PROVE  /\ Status \in {"recording"} \cup Analyzable
             /\ Status = "recording" => w \in Recorders
             /\ jobs[w].record.status \in Analyzable => journal["source"] \in passed
             /\ jobs[w].record.status = "analyzed" => journal["source"] \in reported
             /\ Status \in Analyzable => jobs[w].record.status \in Analyzable
  <2>1. AtWork(jobs[w])
    BY <1>3 DEF ReadyInv
  <2> QED BY <1>1, <1>2, <2>1 DEF AtWork, Analyzable
<1> QED BY <1>1, <1>2, <1>3, ReadySave

LEMMA ReadyArchive ==
    ASSUME HistoryAssumption, HistoryInv, ReadyInv, NEW w \in Workers, ArchiveSession(w)
    PROVE  ReadyInv'
<1> DEFINE record == [jobs[w].record EXCEPT !.archived = TRUE]
<1>1. /\ jobs[w].pc = "archive" /\ Active(w) /\ SaveSession(w, record, Idle)
      /\ UNCHANGED <<journal, baseline, passed, reported, file, cut, crowded>>
  BY DEF ArchiveSession, Active
<1>2. jobs[w].record \in SessionRecord
  BY <1>1, PlaceOfJob DEF ReadyInv
<1>3. record \in SessionRecord /\ record.status = jobs[w].record.status
  BY <1>2 DEF SessionRecord
<1> HIDE DEF record
<1>4. Who(w) = "archive"
  BY <1>1, PlaceOfJob, KindsAreKnown DEF ReadyInv, Who, Recorders
<1>5. Clean /\ jobs[w].missed = {} => record.status = Status
  BY <1>1, <1>3 DEF ReadyInv, AtWork, Status
<1> QED BY <1>1, <1>3, <1>4, <1>5, ReadySave

\* An action is recorded only while the session is recording.
LEMMA ReadyRecord ==
    ASSUME HistoryAssumption, HistoryInv, ReadyInv, NEW w \in Workers, SaveAction(w)
    PROVE  ReadyInv'
<1> DEFINE id == NextActionId(jobs[w].actions)
<1>1. PICK line \in Lines :
          /\ PutAction("source", id, line)
          /\ jobs' = [jobs EXCEPT ![w].actions = Put(@, id, line), ![w].pc = "touch"]
  BY DEF SaveAction
<1>2. /\ jobs[w].pc = "execute" /\ Active(w)
      /\ UNCHANGED <<stored, baseline, init, passed, reported, file, cut, crowded>>
  BY DEF SaveAction, Active
<1>3. /\ jobs = [v \in Workers |-> jobs[v]] /\ IsJob(jobs[w])
      /\ journal = [s \in Sessions |-> journal[s]]
      /\ jobs[w].kind \in {"record", "shell"} /\ Exists("source")
      /\ jobs[w].record \in SessionRecord /\ w \in Recorders
  BY <1>2, PlaceOfJob, KindsAreKnown DEF HistoryInv, ShapeInv, ReadyInv
<1>4. lost \subseteq lost'
  BY DEF SaveAction
<1> HIDE DEF id
<1> DEFINE a == Put(jobs[w].actions, id, line)
<1>5. OnlyJob(w) /\ jobs'[w] = [jobs[w] EXCEPT !.actions = a, !.pc = "touch"]
  BY <1>1, <1>3 DEF OnlyJob, IsJob
<1> HIDE DEF a
<1>6. jobs'[w].kind = jobs[w].kind /\ jobs'[w].pc = "touch" /\ jobs'[w].record = jobs[w].record
  BY <1>3, <1>5 DEF IsJob
<1>7. journal'["source"] = Put(journal["source"], id, line) /\ journal'["copy"] = journal["copy"]
  BY <1>1, <1>3 DEF PutAction, Sessions
<1>8. \A v \in Workers \ {w} : jobs'[v] = jobs[v]
  BY <1>5 DEF OnlyJob
<1>9. RecordsInv'
  <2>1. ASSUME NEW v \in Workers PROVE Fits(v)'
    <3>1. CASE v = w
      BY <1>2, <1>3, <1>6, <3>1 DEF Fits, Exists, Places, Loaded
    <3>2. CASE v # w
      BY <1>2, <1>8, <3>2 DEF ReadyInv, RecordsInv, Fits, Active, Exists
    <3> QED BY <3>1, <3>2
  <2> QED BY <1>2, <2>1 DEF ReadyInv, RecordsInv, Exists
<1> SUFFICES ASSUME Clean'
             PROVE  /\ SourceInv'
                    /\ \A v \in Workers : AtWork(jobs[v])' /\ AtCopy(jobs[v])'
                    /\ FileInv'
                    /\ CopyInv'
  BY <1>9 DEF ReadyInv
<1>10. Clean
  BY <1>2, <1>4 DEF Clean, OnlyAnalysesLost
<1>11. SourceInv /\ FileInv /\ CopyInv /\ \A v \in Workers : AtWork(jobs[v]) /\ AtCopy(jobs[v])
  BY <1>10 DEF ReadyInv
<1>12. Status = "recording" /\ jobs[w].record.status = "recording" /\ Status' = Status
  BY <1>2, <1>3, <1>11 DEF AtWork, Loaded, Status
<1>13. IsJournal(journal'["source"])
  <2>1. PICK n \in Nat : journal["source"] = [i \in 1..n |-> journal["source"][i]]
    BY <1>11 DEF SourceInv, IsJournal
  <2>2. jobs[w].actions = journal["source"]
    BY <1>2, <1>3, <1>10 DEF HistoryInv, MissedInv, Clean, OnlyAnalysesLost, Loaded
  <2>3. DOMAIN journal["source"] = 1..n
    BY <2>1
  <2>4. id = n + 1
    BY <2>2, <2>3, NextOfJournal DEF id
  <2>5. /\ n + 1 \in Nat
        /\ Put(journal["source"], id, line) = [i \in 1..(n + 1) |-> Put(journal["source"], id, line)[i]]
    <3> DEFINE b == journal["source"]
    <3>1. b = [i \in 1..n |-> b[i]]
      BY <2>1
    <3> HIDE DEF b
    <3>2. n + 1 \in Nat /\ Put(b, n + 1, line) = [i \in 1..(n + 1) |-> Put(b, n + 1, line)[i]]
      BY <3>1, PutJournal
    <3> QED BY <2>4, <3>2 DEF b
  <2> QED BY <1>7, <2>5 DEF IsJournal
<1>14. SourceInv'
  BY <1>2, <1>11, <1>12, <1>13 DEF SourceInv, Status, Exists, Analyzable
<1>15. RedactedPassed' = RedactedPassed
  BY <1>2 DEF RedactedPassed
<1>16. ASSUME NEW v \in Workers PROVE AtWork(jobs[v])' /\ AtCopy(jobs[v])'
  <2>1. CASE v = w
    BY <1>3, <1>6, <1>12, <2>1 DEF AtWork, AtCopy
  <2>2. CASE v # w /\ ~Active(v)
    BY <1>8, <2>2 DEF AtWork, AtCopy, Loaded, Active
  <2>3. CASE v # w /\ Active(v)
    <3>1. v \notin Recorders
      BY <1>2, <1>3, <1>10, <2>3, OneRecorder DEF HistoryInv, Clean, OnlyAnalysesLost
    <3>2. /\ jobs[v].kind \in {"archive", "export", "fork", "import", "candidate", "analyze"}
          /\ jobs'[v] = jobs[v]
          /\ jobs[v].kind = "analyze" => jobs[v].pc = "load"
          /\ jobs[v].pc \notin {"minimize", "report", "finish"}
      <4>1. /\ jobs[v].kind \in {"archive", "export", "fork", "import", "candidate", "analyze"}
            /\ jobs'[v] = jobs[v]
        BY <1>8, <2>3, <3>1, KindsAreKnown
      <4>2. AtWork(jobs[v]) /\ Status \notin Analyzable
        BY <1>11, <1>12 DEF Analyzable
      <4>3. jobs[v].kind = "analyze" => jobs[v].pc = "load"
        BY <2>3, <4>2 DEF AtWork, Active
      <4> QED BY <2>3, <4>1, <4>3, PlaceOfJob DEF ReadyInv
    <3>3. AtWork(jobs[v])'
      BY <1>2, <1>11, <3>2 DEF AtWork
    <3>4. AtCopy(jobs[v])'
      BY <1>11, <1>12, <1>15, <1>2, <3>2 DEF AtCopy
    <3> QED BY <3>3, <3>4
  <2> QED BY <2>1, <2>2, <2>3
<1>17. FileInv'
  BY <1>2, <1>11, <1>15 DEF FileInv
<1>18. CopyInv'
  <2>1. \A v \in Workers : (Copying(v)' <=> Copying(v)) /\ (Copying(v) => jobs'[v] = jobs[v])
    BY <1>2, <1>6, <1>8 DEF Copying
  <2>2. ASSUME NEW v \in Workers, Copying(v)' PROVE Begun(jobs[v])'
    <3>1. Begun(jobs[v]) /\ jobs'[v] = jobs[v]
      BY <1>11, <2>1, <2>2 DEF CopyInv
    <3> QED BY <1>2, <1>7, <3>1 DEF Begun, Exists
  <2>3. /\ ~Exists("copy")' => (journal["copy"] = <<>>)'
        /\ \A u, v \in Workers : Copying(u)' /\ Copying(v)' => u = v
    BY <1>2, <1>7, <1>11, <2>1 DEF CopyInv, Exists
  <2>4. Exists("copy")' /\ ~cut' /\ (\A v \in Workers : ~Copying(v)') => CopyIsWhole'
    BY <1>2, <1>7, <1>11, <1>15, <2>1 DEF CopyInv, CopyIsWhole, Exists
  <2> QED BY <2>2, <2>3, <2>4 DEF CopyInv
<1> QED BY <1>14, <1>16, <1>17, <1>18

\* What initialize_session saves is told as lost if somebody saved before; so nobody
\* records, and nobody is ready, when the baseline is judged.
LEMMA ReadyCreate ==
    ASSUME HistoryAssumption, HistoryInv, ReadyInv, Create
    PROVE  ReadyInv'
<1> DEFINE new == [status |-> "invalid", archived |-> FALSE]
<1>1. /\ init.pc = "none" /\ stored' = Put(stored, "source", new)
      /\ init' = [init EXCEPT !.pc = "judge"]
      /\ UNCHANGED <<journal, baseline, passed, reported, file, jobs, lost, cut, crowded>>
  BY DEF Create, Histories
<1>2. /\ stored = [s \in DOMAIN stored |-> stored[s]] /\ DOMAIN stored \subseteq Sessions
      /\ \A s \in DOMAIN stored : stored[s] \in SessionRecord
      /\ init = [pc |-> init.pc, missed |-> init.missed]
      /\ file = NoFile \/ file.record \in SessionRecord
      /\ ~Exists("source") /\ \A w \in Workers : ~Active(w)
  BY <1>1 DEF ReadyInv, RecordsInv, Fits
<1>3. new \in SessionRecord /\ new.status = "invalid"
  BY DEF SessionRecord, Statuses
<1> HIDE DEF new
<1>4. /\ DOMAIN stored' = DOMAIN stored \cup {"source"} /\ stored'["source"] = new
      /\ stored' = [s \in DOMAIN stored' |-> stored'[s]]
      /\ \A s \in DOMAIN stored \ {"source"} : stored'[s] = stored[s]
  BY <1>1 DEF Put
<1>5. init'.pc = "judge" /\ init' = [pc |-> init'.pc, missed |-> init'.missed]
  BY <1>1, <1>2
<1>6. \A w \in Workers : ~Active(w)' /\ ~Copying(w)' /\ ~Copying(w)
  BY <1>1, <1>2 DEF Active, Copying
<1>7. RecordsInv'
  BY <1>1, <1>2, <1>3, <1>4, <1>5, <1>6 DEF RecordsInv, Fits, Exists, Sessions
<1>8. ASSUME Clean' PROVE SourceInv' /\ FileInv' /\ CopyInv'
  <2>1. SourceInv /\ FileInv /\ CopyInv
    BY <1>1, <1>8 DEF ReadyInv, Clean, OnlyAnalysesLost
  <2>2. RedactedPassed' = RedactedPassed
    BY <1>1 DEF RedactedPassed
  <2>3. SourceInv'
    BY <1>1, <1>3, <1>4, <1>5, <2>1 DEF SourceInv, Status, Exists, Analyzable
  <2>4. FileInv'
    BY <1>1, <2>1, <2>2 DEF FileInv
  <2>5. /\ Exists("copy")' <=> Exists("copy")
        /\ Exists("copy") => stored'["copy"] = stored["copy"]
    BY <1>4 DEF Exists
  <2>6. CopyInv'
    BY <1>1, <1>6, <2>1, <2>2, <2>5 DEF CopyInv, CopyIsWhole
  <2> QED BY <2>3, <2>4, <2>6
<1>9. \A w \in Workers : AtWork(jobs[w])' /\ AtCopy(jobs[w])'
  BY <1>6 DEF AtWork, AtCopy, Active, Loaded
<1> QED BY <1>7, <1>8, <1>9 DEF ReadyInv

LEMMA ReadyInitialized ==
    ASSUME HistoryAssumption, HistoryInv, ReadyInv, Initializing,
           NEW status \in Statuses, NEW pc \in {"name", "done"}, SaveInitialized(status, pc),
           UNCHANGED <<journal, passed, reported, file, cut, crowded>>,
           pc = "name" => baseline' = "stable_fail" /\ status = "recording",
           init.pc = "name" => baseline' = baseline /\ status = "recording",
           init.pc = "judge" =>
               /\ status \in {"recording", "cancelled", "invalid"}
               /\ status = "recording" => baseline' = "stable_fail"
    PROVE  ReadyInv'
<1> DEFINE O == Outdated("init")
           new == [status |-> status, archived |-> FALSE]
<1>1. /\ stored = [s \in DOMAIN stored |-> stored[s]] /\ DOMAIN stored \subseteq Sessions
      /\ \A s \in DOMAIN stored : stored[s] \in SessionRecord
      /\ Exists("source") /\ ShapeInv
  BY DEF ReadyInv, RecordsInv, Initializing, HistoryInv
<1>2. new \in SessionRecord /\ new.status = status
  BY DEF SessionRecord
<1>3. stored' = [stored EXCEPT !["source"] = new] /\ jobs' = O
  BY DEF SaveInitialized
<1> HIDE DEF new
<1>4. /\ DOMAIN stored' = DOMAIN stored /\ stored'["source"] = new
      /\ \A s \in DOMAIN stored \ {"source"} : stored'[s] = stored[s]
      /\ stored' = [s \in DOMAIN stored' |-> stored'[s]]
  BY <1>1, <1>3 DEF Exists
<1>5. init'.pc = pc /\ init' = [pc |-> init'.pc, missed |-> init'.missed] /\ init'.missed = {}
  BY DEF SaveInitialized
<1>6. ASSUME NEW v \in Workers
      PROVE  /\ jobs'[v].kind = jobs[v].kind /\ jobs'[v].pc = jobs[v].pc
             /\ jobs'[v].record = jobs[v].record /\ jobs'[v].actions = jobs[v].actions
             /\ jobs[v].record # NoRecord => jobs'[v].missed # {}
  <2>1. jobs[v].record # NoRecord => O[v].missed # {}
    <3>1. IsJob(jobs[v])
      BY <1>1 DEF ShapeInv
    <3>2. jobs[v].record # NoRecord => O[v] = [jobs[v] EXCEPT !.missed = jobs[v].missed \cup {"init"}]
      BY <3>1 DEF Outdated, IsJob
    <3>3. O[v] = [jobs[v] EXCEPT !.missed = jobs[v].missed \cup {"init"}] => "init" \in O[v].missed
      BY <3>1 DEF IsJob
    <3> QED BY <3>2, <3>3
  <2> HIDE DEF O
  <2>2. /\ O[v].kind = jobs[v].kind /\ O[v].pc = jobs[v].pc
        /\ O[v].record = jobs[v].record /\ O[v].actions = jobs[v].actions
    BY <1>1, OutdatedJobs DEF O
  <2> QED BY <1>3, <2>1, <2>2
<1> HIDE DEF O
<1>7. RecordsInv'
  <2>1. \A v \in Workers : Fits(v)'
    BY <1>1, <1>4, <1>6 DEF ReadyInv, RecordsInv, Fits, Active, Exists
  <2> QED BY <1>1, <1>2, <1>4, <1>5, <2>1 DEF ReadyInv, RecordsInv, Exists
<1> SUFFICES ASSUME Clean'
             PROVE  /\ SourceInv'
                    /\ \A v \in Workers : AtWork(jobs[v])' /\ AtCopy(jobs[v])'
                    /\ FileInv'
                    /\ CopyInv'
  BY <1>7 DEF ReadyInv
<1>8. Clean /\ init.missed = {}
  <2> DEFINE S == {<<"init", other>> : other \in init.missed}
  <2>1. lost' = lost \cup S /\ lost' \subseteq Analysts \X Analysts /\ ~crowded'
    BY DEF SaveInitialized, Clean, OnlyAnalysesLost
  <2>2. \A other \in init.missed : <<"init", other>> \in S
    OBVIOUS
  <2> HIDE DEF S
  <2>3. lost \subseteq Analysts \X Analysts /\ S \subseteq Analysts \X Analysts
    BY <2>1
  <2>4. \A other \in init.missed : "init" \in Analysts
    BY <2>2, <2>3
  <2>5. init.missed = {}
    BY <2>4 DEF Analysts
  <2> QED BY <2>1, <2>3, <2>5 DEF Clean, OnlyAnalysesLost
<1>9. SourceInv /\ FileInv /\ CopyInv /\ \A v \in Workers : AtWork(jobs[v]) /\ AtCopy(jobs[v])
  BY <1>8 DEF ReadyInv
<1>10. /\ Status' = status
       /\ init.pc = "judge" => Status = "invalid"
       /\ init.pc = "name" => Status = "recording" /\ status = "recording"
       /\ init.pc \in {"judge", "name"}
  BY <1>2, <1>4, <1>8, <1>9 DEF Status, SourceInv, Initializing
<1>11. SourceInv'
  <2>1. status \notin Analyzable
    BY <1>10 DEF Analyzable
  <2>2. status = "recording" => baseline' = "stable_fail"
    BY <1>9, <1>10 DEF SourceInv
  <2>3. IsJournal(journal'["source"])
    BY <1>9 DEF SourceInv
  <2> QED BY <1>5, <1>10, <2>1, <2>2, <2>3 DEF SourceInv, Analyzable
<1>12. RedactedPassed' = RedactedPassed
  BY DEF RedactedPassed
<1>13. ASSUME NEW v \in Workers PROVE AtWork(jobs[v])' /\ AtCopy(jobs[v])'
  <2>1. AtWork(jobs[v]) /\ AtCopy(jobs[v])
    BY <1>9
  <2>2. jobs[v].pc = "archive" => jobs'[v].missed # {}
    <3>1. jobs[v].pc = "archive" => jobs[v].record # NoRecord
      BY PlaceOfJob DEF ReadyInv, Active, NoRecord, SessionRecord, Statuses, None
    <3> QED BY <1>6, <3>1
  <2>3. Status \notin Analyzable /\ (Status = "recording" => Status' = "recording")
    BY <1>10 DEF Analyzable
  <2>4. AtWork(jobs[v])'
    BY <1>6, <2>1, <2>2, <2>3 DEF AtWork
  <2>5. AtCopy(jobs[v])'
    BY <1>6, <1>12, <2>1, <2>3 DEF AtCopy
  <2> QED BY <2>4, <2>5
<1>14. FileInv'
  BY <1>9, <1>12 DEF FileInv
<1>15. CopyInv'
  <2>1. \A v \in Workers : Copying(v)' <=> Copying(v)
    BY <1>6 DEF Copying
  <2>2. /\ Exists("copy")' <=> Exists("copy")
        /\ Exists("copy") => stored'["copy"] = stored["copy"]
    BY <1>4 DEF Exists
  <2>3. ASSUME NEW v \in Workers, Copying(v)' PROVE Begun(jobs[v])'
    <3>1. Begun(jobs[v]) /\ journal' = journal
      BY <1>9, <2>1, <2>3 DEF CopyInv
    <3>2. /\ jobs'[v].pc = jobs[v].pc /\ jobs'[v].record = jobs[v].record
          /\ jobs'[v].actions = jobs[v].actions
      BY <1>6
    <3> QED BY <2>2, <3>1, <3>2 DEF Begun
  <2>4. /\ ~Exists("copy")' => (journal["copy"] = <<>>)'
        /\ \A u, v \in Workers : Copying(u)' /\ Copying(v)' => u = v
    BY <1>9, <2>1, <2>2 DEF CopyInv
  <2>5. Exists("copy")' /\ ~cut' /\ (\A v \in Workers : ~Copying(v)') => CopyIsWhole'
    BY <1>9, <1>12, <2>1, <2>2 DEF CopyInv, CopyIsWhole
  <2> QED BY <2>3, <2>4, <2>5 DEF CopyInv
<1> QED BY <1>11, <1>13, <1>14, <1>15

LEMMA ReadyInitialize ==
    ASSUME HistoryAssumption, HistoryInv, ReadyInv,
           Create \/ BaselineJudged \/ SaveTitle \/ InitializeFails
    PROVE  ReadyInv'
<1>1. CASE Create
  BY <1>1, ReadyCreate
<1>2. CASE BaselineJudged
  <2>1. Initializing /\ init.pc = "judge" /\ UNCHANGED <<journal, passed, reported, file, cut, crowded>>
    BY <1>2 DEF BaselineJudged, Initializing
  <2>2. /\ "recording" \in Statuses /\ "cancelled" \in Statuses /\ "invalid" \in Statuses
    BY DEF Statuses
  <2>3. CASE baseline' = "stable_fail" /\ \E pc \in {"name", "done"} : SaveInitialized("recording", pc)
    BY <2>1, <2>2, <2>3, ReadyInitialized
  <2>4. CASE SaveInitialized("cancelled", "done")
    BY <2>1, <2>2, <2>4, ReadyInitialized
  <2>5. CASE SaveInitialized("invalid", "done")
    BY <2>1, <2>2, <2>5, ReadyInitialized
  <2> QED BY <1>2, <2>3, <2>4, <2>5 DEF BaselineJudged
<1>3. CASE SaveTitle
  <2>1. /\ Initializing /\ init.pc = "name" /\ SaveInitialized("recording", "done")
        /\ UNCHANGED <<journal, baseline, passed, reported, file, cut, crowded>>
    BY <1>3 DEF SaveTitle, Initializing
  <2> QED BY <2>1, ReadyInitialized DEF Statuses
<1>4. CASE InitializeFails
  <2>1. /\ Initializing /\ init' = [pc |-> "done", missed |-> {}]
        /\ UNCHANGED <<stored, journal, baseline, passed, reported, file, jobs, lost, cut, crowded>>
    BY <1>4 DEF InitializeFails, Histories
  <2>2. init'.pc = "done" /\ init' = [pc |-> init'.pc, missed |-> init'.missed] /\ init.pc # "none"
    BY <2>1 DEF Initializing
  <2>3. RecordsInv'
    BY <2>1, <2>2 DEF ReadyInv, RecordsInv, Fits, Exists, Active
  <2>4. RedactedPassed' = RedactedPassed
    BY <2>1 DEF RedactedPassed
  <2>5. Clean' => SourceInv' /\ FileInv'
    BY <2>1, <2>2, <2>4 DEF ReadyInv, Clean, OnlyAnalysesLost, SourceInv, FileInv, Status, Exists
  <2>6. Clean' => CopyInv'
    <3>1. CopyInv => CopyInv'
      BY <2>1, <2>4 DEF CopyInv, Begun, CopyIsWhole, Exists, Copying
    <3> QED BY <2>1, <3>1 DEF ReadyInv, Clean, OnlyAnalysesLost
  <2>7. Clean' => \A v \in Workers : AtWork(jobs[v])' /\ AtCopy(jobs[v])'
    BY <2>1, JobKeeps DEF ReadyInv, Clean, OnlyAnalysesLost
  <2> QED BY <2>3, <2>5, <2>6, <2>7 DEF ReadyInv
<1> QED BY <1>1, <1>2, <1>3, <1>4

\* Whose process dies leaves a copy cut, if it was making one.
LEMMA ReadyDeath ==
    ASSUME HistoryAssumption, HistoryInv, ReadyInv, NEW who \in SUBSET Workers, Dies(who)
    PROVE  ReadyInv'
<1>1. /\ jobs' = [w \in Workers |-> IF w \in who THEN Idle ELSE jobs[w]]
      /\ cut' = (cut \/ \E w \in who : Copying(w))
      /\ UNCHANGED <<stored, journal, baseline, init, passed, reported, file, lost, crowded>>
  BY DEF Dies, Rows
<1>2. Idle.pc = "idle" /\ Idle.kind = "none"
  BY DEF Idle, None
<1>3. \A v \in Workers : IF v \in who THEN jobs'[v].pc = "idle" ELSE jobs'[v] = jobs[v]
  BY <1>1, <1>2
<1>4. RecordsInv'
  BY <1>1, <1>3 DEF ReadyInv, RecordsInv, Fits, Exists, Active
<1>5. RedactedPassed' = RedactedPassed
  BY <1>1 DEF RedactedPassed
<1> SUFFICES ASSUME Clean'
             PROVE  /\ SourceInv'
                    /\ \A v \in Workers : AtWork(jobs[v])' /\ AtCopy(jobs[v])'
                    /\ FileInv'
                    /\ CopyInv'
  BY <1>4 DEF ReadyInv
<1>6. SourceInv /\ FileInv /\ CopyInv /\ \A v \in Workers : AtWork(jobs[v]) /\ AtCopy(jobs[v])
  BY <1>1 DEF ReadyInv, Clean, OnlyAnalysesLost
<1>7. SourceInv' /\ FileInv'
  BY <1>1, <1>5, <1>6 DEF SourceInv, FileInv, Status, Exists
<1>8. ASSUME NEW v \in Workers PROVE AtWork(jobs[v])' /\ AtCopy(jobs[v])'
  <2>1. CASE v \in who
    <3>1. jobs'[v].pc = "idle"
      BY <1>3, <2>1
    <3> QED BY <3>1 DEF AtWork, AtCopy, Loaded
  <2>2. CASE v \notin who
    BY <1>1, <1>3, <1>6, <2>2, JobKeeps
  <2> QED BY <2>1, <2>2
<1>9. CopyInv'
  <2>1. \A v \in Workers : /\ Copying(v)' => Copying(v) /\ jobs'[v] = jobs[v]
                           /\ Copying(v) => Copying(v)' \/ v \in who
    BY <1>3 DEF Copying
  <2>2. ASSUME NEW v \in Workers, Copying(v)' PROVE Begun(jobs[v])'
    <3>1. Begun(jobs[v]) /\ jobs'[v] = jobs[v]
      BY <1>6, <2>1, <2>2 DEF CopyInv
    <3> QED BY <1>1, <3>1 DEF Begun, Exists
  <2>3. /\ ~Exists("copy")' => (journal["copy"] = <<>>)'
        /\ \A u, v \in Workers : Copying(u)' /\ Copying(v)' => u = v
    BY <1>1, <1>6, <2>1 DEF CopyInv, Exists
  <2>4. ASSUME Exists("copy")', ~cut', \A v \in Workers : ~Copying(v)'
        PROVE  CopyIsWhole'
    <3>1. \A v \in Workers : ~Copying(v)
      BY <1>1, <2>1, <2>4
    <3>2. ~cut
      BY <1>1, <2>4
    <3> QED BY <1>1, <1>5, <1>6, <2>4, <3>1, <3>2 DEF CopyInv, CopyIsWhole, Exists
  <2> QED BY <2>2, <2>3, <2>4 DEF CopyInv
<1> QED BY <1>7, <1>8, <1>9

\* A fork loads the journal when the record of the copy is saved.
LEMMA ReadyFork ==
    ASSUME HistoryAssumption, HistoryInv, ReadyInv, NEW w \in Workers, LoadActions(w),
           jobs[w].kind = "fork"
    PROVE  ReadyInv'
<1>1. /\ jobs[w].pc = "actions" /\ Active(w) /\ Copying(w)
      /\ jobs' = [jobs EXCEPT ![w].actions = journal["source"], ![w].pc = "copying"]
      /\ UNCHANGED <<stored, journal, baseline, init, passed, reported, file, lost, crowded, cut>>
  BY DEF LoadActions, Active, Copying, Rows, Histories
<1>2. /\ jobs = [v \in Workers |-> jobs[v]] /\ IsJob(jobs[w])
      /\ jobs[w].record \in SessionRecord /\ Exists("source")
  BY <1>1, PlaceOfJob DEF HistoryInv, ShapeInv, ReadyInv
<1>3. OnlyJob(w) /\ jobs'[w] = [jobs[w] EXCEPT !.actions = journal["source"], !.pc = "copying"]
  BY <1>1, <1>2 DEF OnlyJob
<1>4. /\ jobs'[w].kind = "fork" /\ jobs'[w].pc = "copying" /\ jobs'[w].record = jobs[w].record
      /\ jobs'[w].actions = journal["source"]
  BY <1>2, <1>3 DEF IsJob
<1>5. \A v \in Workers \ {w} : jobs'[v] = jobs[v]
  BY <1>3 DEF OnlyJob
<1>6. RecordsInv'
  <2>1. ASSUME NEW v \in Workers PROVE Fits(v)'
    <3>1. CASE v = w
      BY <1>1, <1>2, <1>4, <3>1 DEF Fits, Exists, Places
    <3>2. CASE v # w
      BY <1>1, <1>5, <3>2 DEF ReadyInv, RecordsInv, Fits, Active, Exists
    <3> QED BY <3>1, <3>2
  <2> QED BY <1>1, <2>1 DEF ReadyInv, RecordsInv, Exists
<1>7. RedactedPassed' = RedactedPassed
  BY <1>1 DEF RedactedPassed
<1> SUFFICES ASSUME Clean'
             PROVE  /\ SourceInv'
                    /\ \A v \in Workers : AtWork(jobs[v])' /\ AtCopy(jobs[v])'
                    /\ FileInv'
                    /\ CopyInv'
  BY <1>6 DEF ReadyInv
<1>8. SourceInv /\ FileInv /\ CopyInv /\ \A v \in Workers : AtWork(jobs[v]) /\ AtCopy(jobs[v])
  BY <1>1 DEF ReadyInv, Clean, OnlyAnalysesLost
<1>9. SourceInv' /\ FileInv'
  BY <1>1, <1>7, <1>8 DEF SourceInv, FileInv, Status, Exists
<1>10. ASSUME NEW v \in Workers PROVE AtWork(jobs[v])' /\ AtCopy(jobs[v])'
  <2>1. CASE v = w
    <3>1. jobs[w].record.status \in Analyzable => Status \in Analyzable
      BY <1>1, <1>8 DEF AtCopy
    <3>2. /\ IsJournal(journal["source"])
          /\ Status \in Analyzable => journal["source"] \in passed
      BY <1>2, <1>8 DEF SourceInv
    <3>3. AtCopy(jobs[w])'
      BY <1>1, <1>4, <3>1, <3>2 DEF AtCopy
    <3>4. AtWork(jobs[w])'
      BY <1>4 DEF AtWork
    <3> QED BY <2>1, <3>3, <3>4
  <2>2. CASE v # w
    BY <1>1, <1>5, <1>8, <2>2, JobKeeps
  <2> QED BY <2>1, <2>2
<1>11. CopyInv'
  <2>1. \A v \in Workers : Copying(v)' <=> Copying(v)
    BY <1>1, <1>4, <1>5 DEF Copying
  <2>2. Begun(jobs[w]) /\ Exists("copy")
    BY <1>1, <1>8 DEF CopyInv, Begun
  <2>3. Begun(jobs[w])'
    <3>1. journal["copy"] = <<>> /\ stored["copy"].status = jobs[w].record.status
      BY <1>1, <2>2 DEF Begun
    <3>2. <<>> = [i \in 1..0 |-> journal["source"][i]]
      BY EmptyJournal
    <3>3. 1..0 \subseteq DOMAIN jobs'[w].actions /\ 0 \in Nat
      BY SMT
    <3>4. journal'["copy"] = [i \in 1..0 |-> jobs'[w].actions[i]]
      BY <1>1, <1>4, <3>1, <3>2
    <3>5. \E n \in Nat : /\ 1..n \subseteq DOMAIN jobs'[w].actions
                        /\ journal'["copy"] = [i \in 1..n |-> jobs'[w].actions[i]]
      BY <3>3, <3>4
    <3>6. Exists("copy")' /\ stored'["copy"].status = jobs'[w].record.status
      BY <1>1, <1>4, <2>2, <3>1 DEF Exists
    <3>7. jobs'[w].pc # "actions"
      BY <1>4
    <3> QED BY <3>5, <3>6, <3>7 DEF Begun
  <2>4. \A v \in Workers : Copying(v)' => v = w
    BY <1>1, <1>8, <2>1 DEF CopyInv
  <2> QED BY <1>1, <2>1, <2>2, <2>3, <2>4 DEF CopyInv, Exists
<1> QED BY <1>9, <1>10, <1>11

\* The copy's record: nobody else makes it then.
LEMMA ReadyCopy ==
    ASSUME HistoryAssumption, HistoryInv, ReadyInv, NEW w \in Workers, SaveCopy(w)
    PROVE  ReadyInv'
<1> DEFINE new == [jobs[w].record EXCEPT !.archived = @ /\ jobs[w].kind = "import"]
           pc == IF jobs[w].kind = "fork" THEN "actions" ELSE "copying"
<1>1. /\ jobs[w].pc = "copy" /\ Active(w) /\ ~Copying(w)
      /\ UNCHANGED <<journal, baseline, init, passed, reported, file, lost, crowded, cut>>
  BY DEF SaveCopy, Active, Copying, Histories
<1>2. /\ jobs = [v \in Workers |-> jobs[v]] /\ IsJob(jobs[w])
      /\ jobs[w].record \in SessionRecord /\ Exists("source") /\ jobs[w].kind \in {"fork", "import"}
      /\ stored = [s \in DOMAIN stored |-> stored[s]] /\ DOMAIN stored \subseteq Sessions
      /\ \A s \in DOMAIN stored : stored[s] \in SessionRecord
  BY <1>1, PlaceOfJob DEF HistoryInv, ShapeInv, ReadyInv, RecordsInv
<1>3. CASE Exists("copy")
  <2>1. Quit(w) /\ UNCHANGED stored
    BY <1>3 DEF SaveCopy
  <2> QED BY <1>1, <2>1, IdleStep DEF Quit
<1>4. CASE ~Exists("copy")
  <2>1. stored' = Put(stored, "copy", new) /\ Step(w, pc)
    BY <1>4 DEF SaveCopy
  <2>2. new \in SessionRecord /\ new.status = jobs[w].record.status
    BY <1>2 DEF SessionRecord
  <2>3. /\ pc \in Places(jobs[w].kind) /\ pc \in {"actions", "copying"}
        /\ pc = "actions" <=> jobs[w].kind = "fork"
    BY <1>2 DEF Places
  <2> HIDE DEF new, pc
  <2>4. /\ DOMAIN stored' = DOMAIN stored \cup {"copy"} /\ stored'["copy"] = new
        /\ stored' = [s \in DOMAIN stored' |-> stored'[s]]
        /\ \A s \in DOMAIN stored : stored'[s] = stored[s]
    BY <1>4, <2>1 DEF Put, Exists
  <2>5. OnlyJob(w) /\ jobs'[w] = [jobs[w] EXCEPT !.pc = pc]
    BY <1>2, <2>1 DEF OnlyJob, Step
  <2>6. /\ jobs'[w].kind = jobs[w].kind /\ jobs'[w].pc = pc /\ jobs'[w].record = jobs[w].record
        /\ jobs'[w].actions = jobs[w].actions
    BY <1>2, <2>5 DEF IsJob
  <2>7. \A v \in Workers \ {w} : jobs'[v] = jobs[v]
    BY <2>5 DEF OnlyJob
  <2>8. Exists("source") /\ Exists("source")' /\ Exists("copy")' /\ stored'["source"] = stored["source"]
    BY <1>2, <2>4 DEF Exists
  <2>9. RecordsInv'
    <3>1. ASSUME NEW v \in Workers PROVE Fits(v)'
      <4>1. CASE v = w
        BY <1>2, <2>3, <2>6, <2>8, <4>1 DEF Fits
      <4>2. CASE v # w
        BY <2>7, <2>8, <4>2 DEF ReadyInv, RecordsInv, Fits, Active
      <4> QED BY <4>1, <4>2
    <3>2. /\ DOMAIN stored' \subseteq Sessions
          /\ \A s \in DOMAIN stored' : stored'[s] \in SessionRecord
      BY <1>2, <2>2, <2>4 DEF Sessions
    <3>3. /\ init' = [pc |-> init'.pc, missed |-> init'.missed] /\ init'.pc # "none"
          /\ file' = NoFile \/ file'.record \in SessionRecord
      BY <1>1, <2>8 DEF ReadyInv, RecordsInv
    <3> QED BY <2>4, <2>8, <3>1, <3>2, <3>3 DEF RecordsInv
  <2>10. RedactedPassed' = RedactedPassed
    BY <1>1 DEF RedactedPassed
  <2> SUFFICES ASSUME Clean'
               PROVE  /\ SourceInv'
                      /\ \A v \in Workers : AtWork(jobs[v])' /\ AtCopy(jobs[v])'
                      /\ FileInv'
                      /\ CopyInv'
    BY <2>9 DEF ReadyInv
  <2>11. SourceInv /\ FileInv /\ CopyInv /\ \A v \in Workers : AtWork(jobs[v]) /\ AtCopy(jobs[v])
    BY <1>1 DEF ReadyInv, Clean, OnlyAnalysesLost
  <2>12. SourceInv' /\ FileInv'
    BY <1>1, <2>8, <2>10, <2>11 DEF SourceInv, FileInv, Status
  <2>13. ASSUME NEW v \in Workers PROVE AtWork(jobs[v])' /\ AtCopy(jobs[v])'
    <3>1. CASE v = w
      <4>1. AtCopy(jobs[w])
        BY <2>11
      <4>2. AtCopy(jobs[w])'
        BY <1>1, <1>2, <2>3, <2>6, <2>8, <2>10, <4>1 DEF AtCopy, Status
      <4>3. AtWork(jobs[w])'
        BY <1>2, <2>3, <2>6 DEF AtWork
      <4> QED BY <3>1, <4>2, <4>3
    <3>2. CASE v # w
      BY <1>1, <2>7, <2>8, <2>11, <3>2, JobKeeps
    <3> QED BY <3>1, <3>2
  <2>14. CopyInv'
    <3>1. \A v \in Workers : ~Copying(v)
      BY <1>4, <2>11 DEF CopyInv, Begun
    <3>2. \A v \in Workers : Copying(v)' <=> v = w
      BY <1>2, <2>3, <2>6, <2>7, <3>1 DEF Copying
    <3>3. journal["copy"] = <<>>
      BY <1>4, <2>11 DEF CopyInv
    <3>4. Begun(jobs[w])'
      <4>1. <<>> = [i \in 1..0 |-> jobs[w].actions[i]]
        BY EmptyJournal
      <4>2. 1..0 \subseteq DOMAIN jobs'[w].actions /\ 0 \in Nat
        BY SMT
      <4>3. journal'["copy"] = [i \in 1..0 |-> jobs'[w].actions[i]]
        BY <1>1, <2>6, <3>3, <4>1
      <4>4. \E n \in Nat : /\ 1..n \subseteq DOMAIN jobs'[w].actions
                          /\ journal'["copy"] = [i \in 1..n |-> jobs'[w].actions[i]]
        BY <4>2, <4>3
      <4>5. stored'["copy"].status = jobs'[w].record.status
        BY <2>2, <2>4, <2>6
      <4>6. journal'["copy"] = <<>>
        BY <1>1, <3>3
      <4> QED BY <2>8, <4>4, <4>5, <4>6 DEF Begun
    <3> QED BY <2>8, <3>2, <3>4 DEF CopyInv
  <2> QED BY <2>12, <2>13, <2>14
<1> QED BY <1>3, <1>4

\* The next action of the copy, or its end, when it has all that was loaded.
LEMMA ReadyCopyAction ==
    ASSUME HistoryAssumption, HistoryInv, ReadyInv, NEW w \in Workers, CopyAction(w)
    PROVE  ReadyInv'
<1> DEFINE id == NextActionId(journal["copy"])
<1>1. /\ jobs[w].pc = "copying" /\ Active(w) /\ Copying(w)
      /\ UNCHANGED <<stored, baseline, init, passed, reported, file, lost, crowded, cut>>
  BY DEF CopyAction, Active, Copying, Histories
<1>2. /\ jobs = [v \in Workers |-> jobs[v]] /\ IsJob(jobs[w]) /\ jobs[w].kind \in {"fork", "import"}
      /\ journal = [s \in Sessions |-> journal[s]]
  BY <1>1, PlaceOfJob DEF HistoryInv, ShapeInv, ReadyInv
<1>3. RedactedPassed' = RedactedPassed
  BY <1>1 DEF RedactedPassed
<1>4. ASSUME Clean
      PROVE  /\ SourceInv /\ FileInv /\ CopyInv
             /\ \A v \in Workers : AtWork(jobs[v]) /\ AtCopy(jobs[v])
             /\ IsJournal(jobs[w].actions) /\ Begun(jobs[w])
             /\ \A v \in Workers : Copying(v) => v = w
  <2>1. SourceInv /\ FileInv /\ CopyInv /\ \A v \in Workers : AtWork(jobs[v]) /\ AtCopy(jobs[v])
    BY <1>4 DEF ReadyInv
  <2>2. IsJournal(jobs[w].actions)
    BY <1>1, <1>2, <2>1 DEF AtCopy
  <2> QED BY <1>1, <2>1, <2>2 DEF CopyInv
<1>5. CASE id \in DOMAIN jobs[w].actions
  <2>1. PutAction("copy", id, jobs[w].actions[id]) /\ UNCHANGED jobs
    BY <1>5 DEF CopyAction
  <2>2. /\ journal'["copy"] = Put(journal["copy"], id, jobs[w].actions[id])
        /\ journal'["source"] = journal["source"]
    BY <1>2, <2>1 DEF PutAction, Sessions
  <2>3. RecordsInv'
    BY <1>1, <2>1 DEF ReadyInv, RecordsInv, Fits, Exists, Active
  <2> SUFFICES ASSUME Clean
               PROVE  /\ SourceInv'
                      /\ \A v \in Workers : AtWork(jobs[v])' /\ AtCopy(jobs[v])'
                      /\ FileInv'
                      /\ CopyInv'
    BY <1>1, <2>3 DEF ReadyInv, Clean, OnlyAnalysesLost
  <2>4. SourceInv' /\ FileInv'
    BY <1>1, <1>3, <1>4, <2>2 DEF SourceInv, FileInv, Status, Exists
  <2>5. \A v \in Workers : AtWork(jobs[v])' /\ AtCopy(jobs[v])'
    BY <1>1, <1>4, <2>1, <2>2, JobKeeps
  <2>6. CopyInv'
    <3>1. PICK n \in Nat : /\ 1..n \subseteq DOMAIN jobs[w].actions
                           /\ journal["copy"] = [i \in 1..n |-> jobs[w].actions[i]]
      BY <1>1, <1>4 DEF Begun
    <3>2. id = n + 1
      <4>1. DOMAIN journal["copy"] = 1..n
        BY <3>1
      <4> QED BY <4>1, NextOfJournal DEF id
    <3>3. 1..(n + 1) = 1..n \cup {n + 1} /\ n + 1 \in Nat
      BY SMT
    <3>4. 1..(n + 1) \subseteq DOMAIN jobs[w].actions
      BY <1>5, <3>1, <3>2, <3>3
    <3> HIDE DEF id
    <3>5. journal'["copy"] = [i \in 1..(n + 1) |-> jobs[w].actions[i]]
      <4>1. DOMAIN journal["copy"] = 1..n /\ \A i \in 1..n : journal["copy"][i] = jobs[w].actions[i]
        BY <3>1
      <4> QED BY <2>2, <3>2, <3>3, <4>1 DEF Put
    <3>6. Begun(jobs[w])'
      BY <1>1, <1>4, <2>1, <3>3, <3>4, <3>5 DEF Begun, Exists
    <3>7. \A v \in Workers : Copying(v)' <=> Copying(v)
      BY <2>1 DEF Copying
    <3>8. Exists("copy")'
      BY <3>6 DEF Begun
    <3> QED BY <1>1, <1>4, <3>6, <3>7, <3>8 DEF CopyInv
  <2> QED BY <2>4, <2>5, <2>6
<1>6. CASE id \notin DOMAIN jobs[w].actions
  <2>1. Quit(w) /\ UNCHANGED journal
    BY <1>6 DEF CopyAction
  <2>2. jobs'[w] = Idle /\ \A v \in Workers \ {w} : jobs'[v] = jobs[v]
    BY <1>2, <2>1 DEF Quit
  <2>3. jobs'[w].pc = "idle"
    BY <2>2 DEF Idle
  <2>4. RecordsInv'
    <3>1. \A v \in Workers : Fits(v)'
      BY <1>1, <2>2, <2>3 DEF ReadyInv, RecordsInv, Fits, Active, Exists
    <3> QED BY <1>1, <3>1 DEF ReadyInv, RecordsInv, Exists
  <2> SUFFICES ASSUME Clean
               PROVE  /\ SourceInv'
                      /\ \A v \in Workers : AtWork(jobs[v])' /\ AtCopy(jobs[v])'
                      /\ FileInv'
                      /\ CopyInv'
    BY <1>1, <2>4 DEF ReadyInv, Clean, OnlyAnalysesLost
  <2>5. SourceInv' /\ FileInv'
    BY <1>1, <1>3, <1>4, <2>1 DEF SourceInv, FileInv, Status, Exists
  <2>6. ASSUME NEW v \in Workers PROVE AtWork(jobs[v])' /\ AtCopy(jobs[v])'
    <3>1. CASE v = w
      BY <2>3, <3>1 DEF AtWork, AtCopy, Loaded
    <3>2. CASE v # w
      BY <1>1, <1>4, <2>1, <2>2, <3>2, JobKeeps
    <3> QED BY <3>1, <3>2
  <2>7. journal["copy"] = jobs[w].actions
    <3>1. PICK n \in Nat : /\ 1..n \subseteq DOMAIN jobs[w].actions
                           /\ journal["copy"] = [i \in 1..n |-> jobs[w].actions[i]]
      BY <1>1, <1>4 DEF Begun
    <3>2. PICK m \in Nat : jobs[w].actions = [i \in 1..m |-> jobs[w].actions[i]]
      BY <1>4 DEF IsJournal
    <3>3. id = n + 1
      <4>1. DOMAIN journal["copy"] = 1..n
        BY <3>1
      <4> QED BY <4>1, NextOfJournal DEF id
    <3> HIDE DEF id
    <3>4. DOMAIN jobs[w].actions = 1..m
      BY <3>2
    <3>5. 1..n \subseteq 1..m /\ n + 1 \notin 1..m
      BY <1>6, <3>1, <3>3, <3>4
    <3>6. n = m
      <4>1. n <= m
        <5>1. n = 0 \/ n \in 1..n
          BY SMT
        <5>2. n \in 1..m => n <= m
          BY SMT
        <5> QED BY <3>5, <5>1, <5>2
      <4> QED BY <3>5, <4>1
    <3> QED BY <3>1, <3>2, <3>6
  <2>8. CopyInv'
    <3>1. \A v \in Workers : ~Copying(v)'
      BY <1>4, <2>2, <2>3 DEF Copying
    <3>2. Exists("copy") /\ stored["copy"].status = jobs[w].record.status
      BY <1>4 DEF Begun
    <3>3. jobs[w].record.status \in Analyzable => jobs[w].actions \in passed \cup RedactedPassed
      BY <1>1, <1>2, <1>4 DEF AtCopy
    <3>4. CopyIsWhole'
      BY <1>1, <1>3, <2>1, <2>7, <3>2, <3>3 DEF CopyIsWhole
    <3> QED BY <1>1, <3>1, <3>2, <3>4 DEF CopyInv, Exists
  <2> QED BY <2>5, <2>6, <2>8
<1> QED BY <1>5, <1>6

\* The invariant holds at first, is kept, and says what may be analyzed was replayed.
LEMMA ReadyAtFirst == Init => ReadyInv
<1> SUFFICES ASSUME Init PROVE ReadyInv
  OBVIOUS
<1>1. /\ stored = <<>> /\ DOMAIN stored = {} /\ ~Exists("source") /\ ~Exists("copy")
      /\ init = [pc |-> "none", missed |-> {}] /\ file = NoFile
      /\ journal = [s \in Sessions |-> <<>>]
  BY DEF Init, Exists
<1>2. \A w \in Workers : jobs[w].pc = "idle"
  BY DEF Init, Idle
<1>3. RecordsInv
  <2>1. stored = [s \in DOMAIN stored |-> stored[s]]
    BY <1>1
  <2> QED BY <1>1, <1>2, <2>1 DEF RecordsInv, Fits, Active
<1>4. IsJournal(<<>>)
  BY EmptyJournal
<1>5. journal["source"] = <<>> /\ journal["copy"] = <<>>
  BY <1>1 DEF Sessions
<1>6. SourceInv
  BY <1>1, <1>4, <1>5 DEF SourceInv
<1>7. file.actions = <<>> /\ file.record.status = "none"
  BY <1>1 DEF NoFile, NoRecord, None
<1>8. FileInv
  BY <1>4, <1>7 DEF FileInv, Analyzable
<1>9. \A w \in Workers : AtWork(jobs[w]) /\ AtCopy(jobs[w]) /\ ~Copying(w)
  BY <1>2 DEF AtWork, AtCopy, Copying, Loaded
<1>10. CopyInv
  BY <1>1, <1>5, <1>9 DEF CopyInv
<1> QED BY <1>3, <1>6, <1>8, <1>9, <1>10 DEF ReadyInv

LEMMA ReadyNext ==
    ASSUME HistoryAssumption, HistoryInv, ReadyInv, [Next]_historyVars
    PROVE  ReadyInv'
<1>1. CASE Create \/ BaselineJudged \/ SaveTitle \/ InitializeFails
  BY <1>1, ReadyInitialize
<1>2. CASE Crash
  BY <1>2, ReadyDeath DEF Crash, Workers
<1>3. ASSUME NEW w \in Workers, Job(w) PROVE ReadyInv'
  <2>1. CASE Begin(w)
    BY <2>1, ReadyBegin
  <2>2. CASE LoadSession(w)
    BY <2>2, ReadyLoad
  <2>3. CASE LoadActions(w)
    BY <2>3, ReadyActions, ReadyFork
  <2>4. CASE Prompt(w)
    BY <2>4, ReadyPrompt
  <2>5. CASE Leave(w) \/ RunCandidate(w) \/ ExportSession(w)
    BY <2>5, ReadyQuit
  <2>6. CASE ShellCancelled(w)
    <3>1. /\ jobs[w].pc = "prompt" /\ Ending(w, "cancelled")
          /\ UNCHANGED <<stored, journal, baseline, init, passed, reported, file, lost, crowded, cut>>
      BY <2>6 DEF ShellCancelled, Ending, Rows, Histories
    <3> QED BY <3>1, ReadyEnding
  <2>7. CASE SaveAction(w)
    BY <2>7, ReadyRecord
  <2>8. CASE TouchSession(w)
    BY <2>8, ReadyTouch
  <2>9. CASE ReplayAll(w)
    BY <2>9, ReadyReplay
  <2>10. CASE SaveTrials(w)
    BY <2>10, ReadyTrials
  <2>11. CASE SaveReport(w)
    <3>1. /\ jobs[w].pc = "report" /\ Ending(w, "analyzed")
          /\ reported' = reported \cup {jobs[w].actions}
          /\ UNCHANGED <<stored, journal, baseline, init, passed, file, lost, crowded, cut>>
      BY <2>11 DEF SaveReport, Histories
    <3> QED BY <3>1, ReadyEnding
  <2>12. CASE Finish(w)
    BY <2>12, ReadyFinish
  <2>13. CASE ArchiveSession(w)
    BY <2>13, ReadyArchive
  <2>14. CASE ReadImport(w)
    BY <2>14, ReadyImport
  <2>15. CASE SaveCopy(w)
    BY <2>15, ReadyCopy
  <2>16. CASE CopyAction(w)
    BY <2>16, ReadyCopyAction
  <2>17. CASE JobFails(w)
    BY <2>17, ReadyDeath DEF JobFails
  <2> QED BY <1>3, <2>1, <2>2, <2>3, <2>4, <2>5, <2>6, <2>7, <2>8, <2>9, <2>10, <2>11, <2>12,
             <2>13, <2>14, <2>15, <2>16, <2>17 DEF Job
<1>4. CASE UNCHANGED historyVars
  <2>1. /\ UNCHANGED <<stored, journal, baseline, init, passed, reported, file, jobs, lost, cut, crowded>>
    BY <1>4 DEF historyVars
  <2> QED BY <2>1 DEF ReadyInv, RecordsInv, SourceInv, FileInv, CopyInv, AtWork, AtCopy, Begun,
              CopyIsWhole, RedactedPassed, Status, Clean, OnlyAnalysesLost, Fits, Exists, Active,
              Copying
<1> QED BY <1>1, <1>2, <1>3, <1>4 DEF Next

LEMMA ReadyMeans == HistoryAssumption /\ HistoryInv /\ ReadyInv => ReadyWasReplayed
<1> SUFFICES ASSUME HistoryAssumption, HistoryInv, ReadyInv, Clean PROVE ReadyWasReplayed
  BY DEF ReadyWasReplayed, Clean, OnlyAnalysesLost
<1>1. SourceInv /\ CopyInv
  BY DEF ReadyInv
<1>2. \A w \in Workers : Copying(w) => w \in Requests
  <2> SUFFICES ASSUME NEW w \in Workers, Copying(w) PROVE w \in Requests
    OBVIOUS
  <2>1. Active(w) /\ (jobs[w].pc = "copying" \/ jobs[w].kind = "fork")
    BY DEF Copying, Active
  <2>2. jobs[w].kind \in {"fork", "import"}
    BY <2>1, PlaceOfJob DEF ReadyInv
  <2>3. w \notin Recorders
    BY <2>1, <2>2, KindsAreKnown
  <2> QED BY <2>3 DEF Recorders, Workers
<1> QED BY <1>1, <1>2 DEF ReadyWasReplayed, SourceInv, CopyInv, CopyIsWhole, RedactedPassed, Status

\* Whatever may be analyzed was replayed as it stands, for every number of tasks, requests,
\* shells, actions and copies, unless a save was lost that was not an analysis' to another,
\* or a shell stood in another's way; so was a copy whose making came to its end, which one
\* that a failed save or a death broke off did not (repl::run, analyze_session, ForkSession,
\* import_session).
THEOREM ReadyIsReplayed == HistoryAssumption => (Spec => []ReadyWasReplayed)
<1> SUFFICES ASSUME HistoryAssumption PROVE Spec => []ReadyWasReplayed
  OBVIOUS
<1>1. Init => HistoryInv /\ ReadyInv
  BY HistoryStart, ReadyAtFirst
<1>2. HistoryInv /\ ReadyInv /\ [Next]_historyVars => HistoryInv' /\ ReadyInv'
  BY HistoryStep, ReadyNext
<1>3. HistoryInv /\ ReadyInv => ReadyWasReplayed
  BY ReadyMeans
<1> QED BY <1>1, <1>2, <1>3, PTL DEF Spec
-----------------------------------------------------------------------------
(***************************************************************************)
(* The types: journals are numbered from one and stay within the bound,    *)
(* even when shells and tasks take each other's ids, because what a        *)
(* recorder has loaded is never longer than the stored journal.            *)
(***************************************************************************)

Numbered(a, m) == \E n \in 0..m : DOMAIN a = 1..n

TypesInv ==
    /\ \E m \in 0..MaxActions : /\ DOMAIN journal["source"] = 1..m
                                /\ \A v \in Recorders : Numbered(jobs[v].actions, m)
    /\ \A a \in {journal["copy"], file.actions} \cup {jobs[v].actions : v \in Workers} :
           Numbered(a, MaxActions)
    /\ baseline \in {None, "stable_fail", "cancelled", "other"}
    /\ holder \in Tasks \cup {None}
    /\ \A w \in Workers : jobs[w].kind \in Kinds(w) \cup {None}

\* A journal within a bound is within a greater one.
LEMMA NumberedMore ==
    ASSUME NEW m \in Nat, NEW k \in m..MaxActions, MaxActions \in Nat, NEW a, Numbered(a, m)
    PROVE  Numbered(a, k) /\ Numbered(a, MaxActions)
<1>1. 0..m \subseteq 0..k /\ 0..m \subseteq 0..MaxActions
  BY SMT
<1> QED BY <1>1 DEF Numbered

LEMMA NumberedEmpty ==
    ASSUME NEW m \in Nat
    PROVE  Numbered(<<>>, m)
<1>1. 0 \in 0..m /\ 1..0 = {}
  BY SMT
<1>2. DOMAIN <<>> = {}
  OBVIOUS
<1> QED BY <1>1, <1>2 DEF Numbered

\* A journal of k actions, one of which gets the next id of one no longer.
LEMMA NumberedPut ==
    ASSUME NEW m \in Nat, NEW k \in 0..m, NEW a, DOMAIN a = 1..m, NEW line
    PROVE  /\ DOMAIN Put(a, k + 1, line) = 1..(IF k = m THEN m + 1 ELSE m)
<1>1. DOMAIN Put(a, k + 1, line) = 1..m \cup {k + 1}
  BY DEF Put
<1>2. 1..m \cup {k + 1} = 1..(IF k = m THEN m + 1 ELSE m)
  BY SMT
<1> QED BY <1>1, <1>2

\* A worker whose actions are its own, none, the stored journal's or an imported file's.
Quiet(v) ==
    /\ jobs'[v].kind \in Kinds(v) \cup {None}
    /\ \/ jobs'[v].actions \in {jobs[v].actions, <<>>, journal["source"]}
       \/ v \notin Recorders /\ jobs'[v].actions = file.actions

\* While no action is saved, the workers take over each other's journals only.
LEMMA QuietTypes ==
    ASSUME HistoryAssumption, TypesInv, \A v \in Workers : Quiet(v),
           journal' = journal, Numbered(file'.actions, MaxActions),
           baseline' \in {None, "stable_fail", "cancelled", "other"},
           holder' \in Tasks \cup {None}
    PROVE  TypesInv'
<1>1. PICK m \in 0..MaxActions : /\ DOMAIN journal["source"] = 1..m
                                 /\ \A v \in Recorders : Numbered(jobs[v].actions, m)
  BY DEF TypesInv
<1>2. MaxActions \in Nat /\ m \in Nat /\ m \in m..MaxActions /\ m \in 0..m
  BY <1>1, SMT DEF HistoryAssumption
<1>3. /\ Numbered(<<>>, m) /\ Numbered(<<>>, MaxActions)
  BY <1>2, NumberedEmpty
<1>4. Numbered(journal["source"], m)
  BY <1>1, <1>2 DEF Numbered
<1>5. Numbered(journal["source"], MaxActions)
  BY <1>2, <1>4, NumberedMore
<1>6. \A v \in Recorders : Numbered(jobs'[v].actions, m)
  BY <1>1, <1>3, <1>4 DEF Quiet, Recorders, Workers
<1>7. \A v \in Workers : Numbered(jobs'[v].actions, MaxActions)
  BY <1>3, <1>5 DEF Quiet, TypesInv
<1>8. Numbered(journal["copy"], MaxActions)
  BY DEF TypesInv
<1>9. \A v \in Workers : jobs'[v].kind \in Kinds(v) \cup {None}
  BY DEF Quiet
<1>10. \E n \in 0..MaxActions : /\ DOMAIN journal'["source"] = 1..n
                                /\ \A v \in Recorders : Numbered(jobs'[v].actions, n)
  BY <1>1, <1>6
<1> QED BY <1>7, <1>8, <1>9, <1>10 DEF TypesInv, Kinds, Numbered, Recorders, Workers

\* A worker that does nothing is quiet, and so is one whose job ends.
LEMMA QuietWorkers ==
    ASSUME TypesInv, NEW w \in Workers, OnlyJob(w),
           \/ jobs'[w] = Idle
           \/ /\ jobs'[w].kind = jobs[w].kind
              /\ \/ jobs'[w].actions \in {jobs[w].actions, journal["source"]}
                 \/ w \notin Recorders /\ jobs'[w].actions = file.actions
    PROVE  \A v \in Workers : Quiet(v)
<1>1. \A v \in Workers : jobs[v].kind \in Kinds(v) \cup {None}
  BY DEF TypesInv
<1>2. \A v \in Workers \ {w} : jobs'[v] = jobs[v]
  BY DEF OnlyJob
<1>3. Idle.kind = None /\ Idle.actions = <<>>
  BY DEF Idle
<1>4. Quiet(w)
  BY <1>1, <1>3 DEF Quiet
<1> QED BY <1>1, <1>2, <1>4 DEF Quiet

\* Loading, executing, trying, and reading or writing the file.
LEMMA WorkTypes ==
    ASSUME HistoryAssumption, HistoryInv, TypesInv, NEW w \in Workers,
           \/ LoadSession(w) \/ LoadActions(w) \/ Prompt(w) \/ ShellCancelled(w) \/ Leave(w)
           \/ ReplayAll(w) \/ SaveTrials(w) \/ RunCandidate(w)
           \/ SaveReport(w) \/ ExportSession(w) \/ ReadImport(w) \/ SaveCopy(w)
    PROVE  TypesInv'
<1>1. Active(w) /\ Moves(w)
  BY WorkMoves
<1>2. /\ OnlyJob(w) /\ holder' \in {holder, None}
  BY <1>1 DEF Moves, Free
<1>3. /\ jobs = [v \in Workers |-> jobs[v]] /\ IsJob(jobs[w])
  BY DEF HistoryInv, ShapeInv
<1>4. journal' = journal /\ baseline' = baseline
  BY DEF LoadSession, LoadActions, Prompt, ShellCancelled, Leave, ReplayAll, SaveTrials,
         RunCandidate, SaveReport, ExportSession, ReadImport, SaveCopy, Rows
<1>5. Numbered(file'.actions, MaxActions)
  <2>1. CASE file' = file
    BY <2>1 DEF TypesInv
  <2>2. CASE ExportSession(w)
    <3>1. Numbered(jobs[w].actions, MaxActions)
      BY DEF TypesInv
    <3>2. file'.actions = Redact(jobs[w].actions)
      BY <2>2 DEF ExportSession
    <3>3. DOMAIN file'.actions = DOMAIN jobs[w].actions
      BY <3>2 DEF Redact
    <3> QED BY <3>1, <3>3 DEF Numbered
  <2> QED BY <2>1, <2>2
      DEF LoadSession, LoadActions, Prompt, ShellCancelled, Leave, ReplayAll, SaveTrials,
          RunCandidate, SaveReport, ReadImport, SaveCopy, Rows
<1>6. \/ jobs'[w] = Idle
      \/ /\ jobs'[w].kind = jobs[w].kind
         /\ \/ jobs'[w].actions \in {jobs[w].actions, journal["source"]}
            \/ w \notin Recorders /\ jobs'[w].actions = file.actions
  <2>1. CASE Quit(w)
    BY <1>3, <2>1 DEF Quit
  <2>2. CASE \E pc : Step(w, pc)
    BY <1>3, <2>2 DEF Step, IsJob
  <2>3. CASE \E status : Ending(w, status)
    BY <1>3, <2>3 DEF Ending, IsJob
  <2>4. CASE LoadSession(w) /\ ~Quit(w)
    BY <1>3, <2>4 DEF LoadSession, IsJob
  <2>5. CASE LoadActions(w)
    BY <1>3, <2>5 DEF LoadActions, IsJob
  <2>6. CASE End(w)
    BY <1>3, <2>6 DEF End, Finished, IsJob
  <2>7. CASE ReadImport(w) /\ ~Quit(w)
    <3>1. /\ jobs[w].kind = "import"
          /\ jobs' = [jobs EXCEPT ![w].record = file.record, ![w].actions = file.actions,
                                  ![w].pc = "copy"]
      BY <2>7 DEF ReadImport
    <3>2. w \notin Recorders
      BY <1>1, <3>1, KindsAreKnown
    <3> QED BY <1>3, <3>1, <3>2 DEF IsJob
  <2>8. CASE Prompt(w) \/ SaveCopy(w)
    BY <2>1, <2>2, <2>8 DEF Prompt, SaveCopy
  <2>9. CASE ShellCancelled(w) \/ SaveReport(w)
    BY <2>3, <2>9 DEF ShellCancelled, SaveReport, Ending
  <2>10. CASE Leave(w) \/ RunCandidate(w) \/ ExportSession(w)
    BY <2>1, <2>10 DEF Leave, RunCandidate, ExportSession
  <2>11. CASE ReplayAll(w)
    BY <2>3, <2>6, <2>11 DEF ReplayAll
  <2>12. CASE SaveTrials(w)
    BY <2>1, <2>2, <2>12 DEF SaveTrials
  <2> QED BY <2>1, <2>4, <2>5, <2>7, <2>8, <2>9, <2>10, <2>11, <2>12
<1>7. \A v \in Workers : Quiet(v)
  BY <1>2, <1>6, QuietWorkers
<1>8. holder' \in Tasks \cup {None} /\ baseline' \in {None, "stable_fail", "cancelled", "other"}
  BY <1>2, <1>4 DEF TypesInv
<1> QED BY <1>4, <1>5, <1>7, <1>8, QuietTypes

\* A save of the record, by a job or while the session is made.
LEMMA SaveTypes ==
    ASSUME HistoryAssumption, HistoryInv, TypesInv, NEW w \in Workers,
           TouchSession(w) \/ Finish(w) \/ ArchiveSession(w)
    PROVE  TypesInv'
<1> DEFINE O == Outdated(Who(w))
<1>1. PICK record, after : SaveSession(w, record, after) /\ after \in {Idle, Finished(w)}
  <2>1. CASE TouchSession(w)
    BY <2>1 DEF TouchSession
  <2>2. CASE Finish(w)
    BY <2>2 DEF Finish
  <2>3. CASE ArchiveSession(w)
    BY <2>3 DEF ArchiveSession
  <2> QED BY <2>1, <2>2, <2>3
<1>2. \A v \in Workers : O[v].kind = jobs[v].kind /\ O[v].actions = jobs[v].actions
  BY OutdatedJobs DEF HistoryInv
<1>3. /\ \A v \in Workers \ {w} : jobs'[v] = O[v]
      /\ jobs'[w] = [after EXCEPT !.missed = {}, !.record = IF after = Idle THEN NoRecord ELSE record]
  BY <1>1 DEF SaveSession, Outdated
<1>4. /\ IsJob(jobs[w]) /\ IsJob(Idle) /\ Idle.kind = None /\ Idle.actions = <<>>
  BY DEF HistoryInv, ShapeInv, Idle, IsJob
<1> HIDE DEF O
<1>5. /\ jobs'[w].kind \in {jobs[w].kind, None}
      /\ jobs'[w].actions \in {jobs[w].actions, <<>>}
  <2>1. /\ IsJob(after) /\ after.kind \in {jobs[w].kind, None}
        /\ after.actions \in {jobs[w].actions, <<>>}
    BY <1>1, <1>4 DEF Finished, IsJob
  <2>2. jobs'[w].kind = after.kind /\ jobs'[w].actions = after.actions
    BY <1>3, <2>1 DEF IsJob
  <2> QED BY <2>1, <2>2
<1>6. \A v \in Workers : Quiet(v)
  BY <1>2, <1>3, <1>5 DEF Quiet, TypesInv
<1>7. /\ journal' = journal /\ baseline' = baseline /\ file' = file
      /\ holder' \in {holder, None}
  BY DEF TouchSession, Finish, ArchiveSession, Free
<1>8. /\ Numbered(file'.actions, MaxActions) /\ holder' \in Tasks \cup {None}
      /\ baseline' \in {None, "stable_fail", "cancelled", "other"}
  BY <1>7 DEF TypesInv
<1> QED BY <1>6, <1>7, <1>8, QuietTypes

LEMMA InitializeTypes ==
    ASSUME HistoryAssumption, HistoryInv, TypesInv,
           Create \/ BaselineJudged \/ SaveTitle \/ InitializeFails
    PROVE  TypesInv'
<1>1. jobs' = jobs \/ jobs' = Outdated("init")
  BY DEF Create, BaselineJudged, SaveTitle, InitializeFails, SaveInitialized
<1>2. \A v \in Workers : /\ Outdated("init")[v].kind = jobs[v].kind
                         /\ Outdated("init")[v].actions = jobs[v].actions
  BY OutdatedJobs DEF HistoryInv
<1>3. \A v \in Workers : Quiet(v)
  BY <1>1, <1>2 DEF Quiet, TypesInv
<1>4. /\ journal' = journal /\ file' = file /\ holder' = holder
      /\ baseline' \in {baseline, "stable_fail", "cancelled", "other"}
  BY DEF Create, BaselineJudged, SaveTitle, InitializeFails
<1>5. /\ Numbered(file'.actions, MaxActions) /\ holder' \in Tasks \cup {None}
      /\ baseline' \in {None, "stable_fail", "cancelled", "other"}
  BY <1>4 DEF TypesInv
<1> QED BY <1>3, <1>4, <1>5, QuietTypes

\* A job begins, and a process dies.
LEMMA BeginTypes ==
    ASSUME HistoryAssumption, HistoryInv, TypesInv, NEW w \in Workers, Begin(w)
    PROVE  TypesInv'
<1>1. jobs = [v \in Workers |-> jobs[v]]
  BY DEF HistoryInv, ShapeInv
<1>2. PICK kind \in Kinds(w) : jobs' = [jobs EXCEPT ![w] = [Idle EXCEPT !.kind = kind, !.pc = "load"]]
  BY Zenon DEF Begin
<1>3. \A v \in Workers : \/ jobs'[v] = jobs[v]
                         \/ v = w /\ jobs'[v].kind = kind /\ jobs'[v].actions = <<>>
  BY <1>1, <1>2 DEF Idle
<1>4. \A v \in Workers : Quiet(v)
  BY <1>2, <1>3 DEF Quiet, TypesInv
<1>5. /\ journal' = journal /\ file' = file /\ baseline' = baseline
      /\ holder' \in {holder} \cup Tasks
  BY DEF Begin, Claim, Rows
<1>6. /\ Numbered(file'.actions, MaxActions) /\ holder' \in Tasks \cup {None}
      /\ baseline' \in {None, "stable_fail", "cancelled", "other"}
  BY <1>5 DEF TypesInv
<1> QED BY <1>4, <1>5, <1>6, QuietTypes

LEMMA DeathTypes ==
    ASSUME HistoryAssumption, HistoryInv, TypesInv, NEW who \in SUBSET Workers, Dies(who)
    PROVE  TypesInv'
<1>1. Idle.kind = None /\ Idle.actions = <<>>
  BY DEF Idle
<1>2. \A v \in Workers : Quiet(v)
  BY <1>1 DEF Dies, Quiet, TypesInv
<1>3. /\ journal' = journal /\ file' = file /\ baseline' = baseline
      /\ holder' \in {holder, None}
  BY DEF Dies, Rows
<1>4. /\ Numbered(file'.actions, MaxActions) /\ holder' \in Tasks \cup {None}
      /\ baseline' \in {None, "stable_fail", "cancelled", "other"}
  BY <1>3 DEF TypesInv
<1> QED BY <1>2, <1>3, <1>4, QuietTypes

\* The next id of what a recorder has loaded is at most one past the stored journal.
LEMMA RecordTypes ==
    ASSUME HistoryAssumption, HistoryInv, TypesInv, NEW w \in Workers, SaveAction(w)
    PROVE  TypesInv'
<1> DEFINE id == NextActionId(jobs[w].actions)
<1>1. PICK line \in Lines :
          /\ PutAction("source", id, line)
          /\ jobs' = [jobs EXCEPT ![w].actions = Put(@, id, line), ![w].pc = "touch"]
  BY DEF SaveAction
<1>2. /\ jobs[w].pc = "execute" /\ id <= MaxActions
      /\ UNCHANGED <<baseline, file, holder>>
  BY DEF SaveAction
<1>3. /\ jobs = [v \in Workers |-> jobs[v]] /\ IsJob(jobs[w])
      /\ journal = [s \in Sessions |-> journal[s]]
      /\ w \in Recorders
  BY <1>2 DEF HistoryInv, ShapeInv, IsOf, Recorders, Workers
<1>4. PICK m \in 0..MaxActions : /\ DOMAIN journal["source"] = 1..m
                                 /\ \A v \in Recorders : Numbered(jobs[v].actions, m)
  BY DEF TypesInv
<1>5. PICK k \in 0..m : DOMAIN jobs[w].actions = 1..k
  BY <1>3, <1>4 DEF Numbered
<1>6. /\ MaxActions \in Nat /\ m \in Nat /\ k \in Nat /\ k \in 0..k
  BY <1>4, <1>5, SMT DEF HistoryAssumption
<1>7. id = k + 1
  BY <1>5, <1>6, NextOfJournal
<1> HIDE DEF id
<1> DEFINE n == IF k = m THEN m + 1 ELSE m
<1>8. /\ n \in 0..MaxActions /\ n \in Nat /\ n \in m..MaxActions /\ k + 1 \in 0..n
      /\ n \in n..MaxActions
  BY <1>2, <1>4, <1>5, <1>6, <1>7, SMT
<1>9. /\ journal'["source"] = Put(journal["source"], k + 1, line)
      /\ journal'["copy"] = journal["copy"]
  BY <1>1, <1>3, <1>7 DEF PutAction, Sessions
<1>10. DOMAIN journal'["source"] = 1..n
  BY <1>4, <1>5, <1>6, <1>9, NumberedPut
<1>11. DOMAIN Put(jobs[w].actions, k + 1, line) = 1..(k + 1)
  BY <1>5, <1>6, NumberedPut
<1>12. /\ jobs'[w].actions = Put(jobs[w].actions, k + 1, line) /\ jobs'[w].kind = jobs[w].kind
       /\ \A v \in Workers \ {w} : jobs'[v] = jobs[v]
  BY <1>1, <1>3, <1>7 DEF IsJob
<1> HIDE DEF n
<1>13. Numbered(jobs'[w].actions, n)
  BY <1>8, <1>11, <1>12 DEF Numbered
<1>14. \A v \in Recorders \ {w} : Numbered(jobs'[v].actions, n)
  BY <1>4, <1>6, <1>8, <1>12, NumberedMore DEF Recorders, Workers
<1>15. Numbered(jobs'[w].actions, MaxActions)
  BY <1>6, <1>8, <1>13, NumberedMore
<1>16. \A v \in Workers : Numbered(jobs'[v].actions, MaxActions)
  BY <1>12, <1>15 DEF TypesInv
<1>17. \A v \in Workers : jobs'[v].kind \in Kinds(v) \cup {None}
  BY <1>12 DEF TypesInv
<1>18. \E i \in 0..MaxActions : /\ DOMAIN journal'["source"] = 1..i
                                /\ \A v \in Recorders : Numbered(jobs'[v].actions, i)
  BY <1>8, <1>10, <1>13, <1>14
<1> QED BY <1>2, <1>9, <1>16, <1>17, <1>18 DEF TypesInv, Kinds, Numbered, Recorders, Workers

\* The next action of a copy is one of the journal it copies.
LEMMA CopyTypes ==
    ASSUME HistoryAssumption, HistoryInv, TypesInv, NEW w \in Workers, CopyAction(w)
    PROVE  TypesInv'
<1> DEFINE id == NextActionId(journal["copy"])
<1>1. /\ Active(w) /\ Moves(w) /\ jobs = [v \in Workers |-> jobs[v]]
      /\ journal = [s \in Sessions |-> journal[s]]
      /\ UNCHANGED <<baseline, file>>
  BY WorkMoves DEF HistoryInv, ShapeInv, CopyAction
<1>2. Numbered(file'.actions, MaxActions) /\ baseline' \in {None, "stable_fail", "cancelled", "other"}
  BY <1>1 DEF TypesInv
<1>3. CASE id \notin DOMAIN jobs[w].actions
  <2>1. Quit(w) /\ UNCHANGED journal
    BY <1>3 DEF CopyAction
  <2>2. jobs'[w] = Idle /\ OnlyJob(w) /\ holder' \in Tasks \cup {None}
    BY <1>1, <2>1 DEF Quit, Free, OnlyJob, TypesInv
  <2> QED BY <1>2, <2>1, <2>2, QuietWorkers, QuietTypes
<1>4. CASE id \in DOMAIN jobs[w].actions
  <2>1. PutAction("copy", id, jobs[w].actions[id]) /\ UNCHANGED <<jobs, holder>>
    BY <1>4 DEF CopyAction
  <2>2. PICK n \in 0..MaxActions : DOMAIN journal["copy"] = 1..n
    BY DEF TypesInv, Numbered
  <2>3. PICK k \in 0..MaxActions : DOMAIN jobs[w].actions = 1..k
    BY DEF TypesInv, Numbered
  <2>4. MaxActions \in Nat /\ n \in Nat /\ k \in Nat /\ n \in 0..n
    BY <2>2, <2>3, SMT DEF HistoryAssumption
  <2>5. id = n + 1
    BY <2>2, <2>4, NextOfJournal
  <2> HIDE DEF id
  <2>6. n + 1 \in 0..MaxActions
    BY <1>4, <2>3, <2>4, <2>5, SMT
  <2>7. /\ journal'["copy"] = Put(journal["copy"], n + 1, jobs[w].actions[id])
        /\ journal'["source"] = journal["source"]
    BY <1>1, <2>1, <2>5 DEF PutAction, Sessions
  <2>8. DOMAIN journal'["copy"] = 1..(n + 1)
    BY <2>2, <2>4, <2>7, NumberedPut
  <2>9. Numbered(journal'["copy"], MaxActions)
    BY <2>6, <2>8 DEF Numbered
  <2>10. \E m \in 0..MaxActions : /\ DOMAIN journal'["source"] = 1..m
                                 /\ \A v \in Recorders : Numbered(jobs'[v].actions, m)
    BY <2>1, <2>7 DEF TypesInv
  <2>11. /\ \A v \in Workers : Numbered(jobs'[v].actions, MaxActions)
         /\ \A v \in Workers : jobs'[v].kind \in Kinds(v) \cup {None}
         /\ holder' \in Tasks \cup {None}
    BY <2>1 DEF TypesInv
  <2>12. \A a \in {journal'["copy"], file'.actions} \cup {jobs'[v].actions : v \in Workers} :
             Numbered(a, MaxActions)
    BY <1>2, <2>9, <2>11
  <2> QED BY <1>2, <2>10, <2>11, <2>12 DEF TypesInv, Kinds, Numbered, Recorders, Workers
<1> QED BY <1>3, <1>4

LEMMA TypesNext ==
    ASSUME HistoryAssumption, HistoryInv, TypesInv, [Next]_historyVars
    PROVE  TypesInv'
<1>1. CASE UNCHANGED historyVars
  <2>1. UNCHANGED <<journal, baseline, file, holder, jobs>>
    BY <1>1 DEF historyVars
  <2> QED BY <2>1 DEF TypesInv, Kinds, Numbered, Recorders, Workers
<1>2. CASE Create \/ BaselineJudged \/ SaveTitle \/ InitializeFails
  BY <1>2, InitializeTypes
<1>3. CASE Crash
  BY <1>3, DeathTypes DEF Crash, Workers
<1>4. ASSUME NEW w \in Workers, Job(w) PROVE TypesInv'
  <2>1. CASE Begin(w)
    BY <2>1, BeginTypes
  <2>2. CASE JobFails(w)
    BY <2>2, DeathTypes DEF JobFails
  <2>3. CASE TouchSession(w) \/ Finish(w) \/ ArchiveSession(w)
    BY <2>3, SaveTypes
  <2>4. CASE SaveAction(w)
    BY <2>4, RecordTypes
  <2>5. CASE CopyAction(w)
    BY <2>5, CopyTypes
  <2>6. CASE \/ LoadSession(w) \/ LoadActions(w) \/ Prompt(w) \/ ShellCancelled(w) \/ Leave(w)
             \/ ReplayAll(w) \/ SaveTrials(w) \/ RunCandidate(w)
             \/ SaveReport(w) \/ ExportSession(w) \/ ReadImport(w) \/ SaveCopy(w)
    BY <2>6, WorkTypes
  <2> QED BY <1>4, <2>1, <2>2, <2>3, <2>4, <2>5, <2>6 DEF Job
<1> QED BY <1>1, <1>2, <1>3, <1>4 DEF Next

LEMMA TypesAtFirst ==
    ASSUME HistoryAssumption, Init
    PROVE  TypesInv
<1>1. /\ MaxActions \in Nat /\ 0 \in 0..MaxActions /\ 0 \in Nat
  BY SMT DEF HistoryAssumption
<1>2. Numbered(<<>>, 0) /\ Numbered(<<>>, MaxActions)
  BY <1>1, NumberedEmpty
<1>3. /\ journal["source"] = <<>> /\ journal["copy"] = <<>> /\ file.actions = <<>>
      /\ \A v \in Workers : jobs[v].actions = <<>> /\ jobs[v].kind = None
      /\ baseline = None /\ holder = None
  BY DEF Init, Sessions, NoFile, Idle
<1>4. DOMAIN journal["source"] = 1..0
  BY <1>3
<1> QED BY <1>1, <1>2, <1>3, <1>4 DEF TypesInv, Recorders, Workers

LEMMA TypesMean ==
    ASSUME TypesInv, ReadyInv
    PROVE  TypeOK
BY DEF TypesInv, ReadyInv, RecordsInv, Numbered, Sessions, TypeOK
===============================================================================
