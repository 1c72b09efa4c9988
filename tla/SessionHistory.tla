---------------------------- MODULE SessionHistory ----------------------------
(***************************************************************************)
(* The stored session: its record and its journal of actions in SQLite,    *)
(* and the jobs that change them, each step of which is a transaction of   *)
(* its own.  Tasks of the service hold the session's entry in              *)
(* session_tasks.  Requests that are no task (archive, fork, export,       *)
(* import, a trial) do not, nor do the commands of the command line, each  *)
(* of which is a process of its own: analyze, export and import, which     *)
(* count as requests here, and the controlled shell.                       *)
(* "source" is the session, "copy" what fork or import makes of it.        *)
(***************************************************************************)
EXTENDS Integers, FiniteSets, Sequences

CONSTANTS
    Tasks, Requests, Shells,   \* the workers of each kind
    Lines, Secret,             \* what is recorded; Secret sets a sensitive variable
    MaxActions, MaxJobs,       \* bounds,
    MaxActive                  \* of the jobs under way at once, too

HistoryAssumption ==
    /\ Tasks \cap Requests = {} /\ (Tasks \cup Requests) \cap Shells = {}
    /\ "none" \notin Tasks
    /\ Secret \in Lines
    /\ {MaxActions, MaxJobs, MaxActive} \subseteq Nat

VARIABLES
    stored,      \* the row in sessions, for each session that has one
    journal,     \* the rows in actions: id -> line
    baseline,    \* the outcome of the trial with no action
    init,        \* initialize_session: where it is, and who has saved over it
    passed,      \* the journals with a saved full replay that was a stable pass
    reported,    \* the journals a saved report minimizes
    file,        \* the exported file
    holder,      \* session_tasks: the worker that holds the session
    jobs,        \* what each worker does
    begun,       \* how many jobs have begun
    lost,        \* history: who saved over whose save
    cut,         \* history: the making of a copy broke off, by an error or a death
    crowded      \* history: a shell was open beside a task or another shell

historyVars == <<stored, journal, baseline, init, passed, reported, file, holder, jobs, begun,
                 lost, cut, crowded>>

Workers == Tasks \cup Requests \cup Shells
None == "none"
Sessions == {"source", "copy"}
Statuses == {"recording", "ready_for_analysis", "analyzed", "cancelled", "invalid"}
SessionRecord == [status : Statuses, archived : BOOLEAN]
NoRecord == [status |-> None, archived |-> FALSE]
NoFile == [record |-> NoRecord, actions |-> <<>>]
Redacted == "redacted"

\* record: the SessionRecord it loaded; actions: the journal it loaded; missed: who
\* saved the record since.
Idle == [kind |-> None, pc |-> "idle", record |-> NoRecord, actions |-> <<>>, missed |-> {}]

Kinds(w) == IF w \in Tasks THEN {"record", "done", "analyze", "candidate"}
            ELSE IF w \in Shells THEN {"shell"}
            ELSE {"archive", "fork", "export", "import", "candidate", "analyze"}

\* Who saves the record: of the requests, an archive or `fixtrace analyze`.
Who(w) == IF w \in Tasks THEN "task" ELSE IF w \in Shells THEN "shell"
          ELSE IF jobs[w].kind = "analyze" THEN "analysis" ELSE "archive"

Init ==
    /\ stored = <<>> /\ journal = [s \in Sessions |-> <<>>]
    /\ baseline = None
    /\ init = [pc |-> "none", missed |-> {}]
    /\ passed = {} /\ reported = {}
    /\ file = NoFile
    /\ holder = None
    /\ jobs = [w \in Workers |-> Idle]
    /\ begun = 0
    /\ lost = {} /\ cut = FALSE /\ crowded = FALSE

Active(w) == jobs[w].pc # "idle"
Exists(s) == s \in DOMAIN stored

Step(w, pc) == jobs' = [jobs EXCEPT ![w].pc = pc]

\* The end of a job; the shell only returns to its prompt.
Free(w) == holder' = IF holder = w THEN None ELSE holder
Finished(w) == IF w \in Shells THEN [jobs[w] EXCEPT !.pc = "prompt"] ELSE Idle
End(w) == jobs' = [jobs EXCEPT ![w] = Finished(w)] /\ Free(w)
Quit(w) == jobs' = [jobs EXCEPT ![w] = Idle] /\ Free(w)

Rows == <<stored, journal, baseline, init, passed, reported, file>>
Histories == <<begun, lost, cut, crowded>>

\* ON CONFLICT DO UPDATE: a row takes the place of one that has its key, a session's or an
\* action's.
Put(rows, key, row) == [k \in DOMAIN rows \cup {key} |-> IF k = key THEN row ELSE rows[k]]

\* The jobs that hold a record loaded before who saved one.
Outdated(who) ==
    [v \in Workers |-> IF jobs[v].record = NoRecord THEN jobs[v]
                      ELSE [jobs[v] EXCEPT !.missed = @ \cup {who}]]

Initializing == init.pc \in {"judge", "name"}

\* save_session of the whole record: what other jobs saved since it was loaded is undone.
SaveSession(w, record, after) ==
    /\ stored' = Put(stored, "source", record)
    /\ lost' = lost \cup {<<Who(w), other>> : other \in jobs[w].missed}
    /\ jobs' = [Outdated(Who(w)) EXCEPT
                  ![w] = [after EXCEPT !.missed = {},
                                       !.record = IF after = Idle THEN NoRecord ELSE record]]
    /\ init' = IF Initializing THEN [init EXCEPT !.missed = @ \cup {Who(w)}] ELSE init

\* save_action
PutAction(s, id, line) == journal' = [journal EXCEPT ![s] = Put(@, id, line)]

\* save_trial, of a replay of all the actions that was a stable pass.
SavePass(w) == passed' = passed \cup {jobs[w].actions}

\* initialize_session saves the record it has made, and keeps making, itself.
SaveInitialized(status, pc) ==
    /\ stored' = [stored EXCEPT !["source"] = [status |-> status, archived |-> FALSE]]
    /\ jobs' = Outdated("init")
    /\ lost' = lost \cup {<<"init", other>> : other \in init.missed}
    /\ init' = [pc |-> pc, missed |-> {}]

\* It is saved as invalid, and again when the oracle has been asked about the baseline.
Create ==
    /\ init.pc = "none"
    /\ stored' = Put(stored, "source", [status |-> "invalid", archived |-> FALSE])
    /\ init' = [init EXCEPT !.pc = "judge"]
    /\ UNCHANGED <<journal, baseline, passed, reported, file, holder, jobs, Histories>>

BaselineJudged ==
    /\ init.pc = "judge"
    /\ \/ /\ baseline' = "stable_fail"
          /\ \E pc \in {"name", "done"} : SaveInitialized("recording", pc)
       \/ baseline' = "cancelled" /\ SaveInitialized("cancelled", "done")
       \/ baseline' = "other" /\ SaveInitialized("invalid", "done")
    /\ UNCHANGED <<journal, passed, reported, file, holder, begun, cut, crowded>>

\* InitializeSession with a title saves the record once more.
SaveTitle ==
    /\ init.pc = "name"
    /\ SaveInitialized("recording", "done")
    /\ UNCHANGED <<journal, baseline, passed, reported, file, holder, begun, cut, crowded>>

\* The trial or the save fails, or its process dies: the record stays as it is.
InitializeFails ==
    /\ Initializing
    /\ init' = [pc |-> "done", missed |-> {}]
    /\ UNCHANGED <<stored, journal, baseline, passed, reported, file, holder, jobs, Histories>>

\* Mutant of Claim: the session is not claimed by the task that starts.
ClaimNothing(w) == UNCHANGED holder

\* session_tasks: one task at a time.
Claim(w) == IF w \in Tasks THEN holder = None /\ holder' = w ELSE UNCHANGED holder

\* Two that record, one of them a shell, which no entry of session_tasks keeps out.
Recorders == Tasks \cup Shells
Crowd(v, w) == {v, w} \subseteq Recorders /\ {v, w} \cap Shells # {}

Begin(w) ==
    /\ jobs[w].pc = "idle" /\ Exists("source")
    /\ begun < MaxJobs /\ begun' = begun + 1
    /\ \E kind \in Kinds(w) :
           jobs' = [jobs EXCEPT ![w] = [Idle EXCEPT !.kind = kind, !.pc = "load"]]
    /\ Claim(w)
    /\ Cardinality({v \in Workers : Active(v)}) < MaxActive
    /\ crowded' = (crowded \/ \E v \in Workers : Active(v) /\ Crowd(v, w))
    /\ UNCHANGED <<Rows, lost, cut>>

\* The status a job asks for when it loads the record.
Accepts(kind, status) ==
    CASE kind \in {"record", "done", "shell"} -> status = "recording"
      [] kind = "analyze" -> status \in {"ready_for_analysis", "analyzed"}
      [] OTHER -> TRUE

LoadSession(w) ==
    /\ jobs[w].pc = "load" /\ jobs[w].kind # "import"
    /\ IF Accepts(jobs[w].kind, stored["source"].status)
       THEN /\ jobs' = [jobs EXCEPT ![w].record = stored["source"],
                  ![w].pc = CASE jobs[w].kind = "archive" -> "archive"
                              [] jobs[w].kind = "fork"    -> "copy"
                              [] OTHER                    -> "actions"]
            /\ UNCHANGED holder
       ELSE Quit(w)
    /\ UNCHANGED <<Rows, Histories>>

LoadActions(w) ==
    /\ jobs[w].pc = "actions"
    /\ jobs' = [jobs EXCEPT ![w].actions = journal["source"],
          ![w].pc = CASE jobs[w].kind = "record"  -> "execute"
                      [] jobs[w].kind = "done"    -> "replay"
                      [] jobs[w].kind = "analyze" -> "minimize"
                      [] jobs[w].kind = "candidate" -> "trial"
                      [] jobs[w].kind = "export"  -> "write"
                      [] jobs[w].kind = "fork"    -> "copying"
                      [] jobs[w].kind = "shell"   -> "prompt"]
    /\ UNCHANGED <<Rows, holder, Histories>>

\* The controlled shell reads a line (a command, :edit or :checkpoint), :done, before
\* which a checkpoint may be recorded, or :quit.
Prompt(w) ==
    /\ jobs[w].pc = "prompt"
    /\ \E pc \in {"execute", "replay"} : Step(w, pc)
    /\ UNCHANGED <<Rows, holder, Histories>>

\* The token is read before each prompt.
ShellCancelled(w) ==
    /\ jobs[w].pc = "prompt"
    /\ jobs' = [jobs EXCEPT ![w].record.status = "cancelled", ![w].pc = "finish"]
    /\ UNCHANGED <<Rows, holder, Histories>>

Leave(w) == jobs[w].pc = "prompt" /\ Quit(w) /\ UNCHANGED <<Rows, Histories>>

\* Mutant of NextActionId: the next id is the number of actions.
CountOfActions(actions) == Cardinality(DOMAIN actions)

NextActionId(actions) == Cardinality(DOMAIN actions) + 1

\* The line has been executed, or cancelled, and becomes an action.
SaveAction(w) ==
    LET id == NextActionId(jobs[w].actions) IN
    /\ jobs[w].pc = "execute" /\ id <= MaxActions
    /\ \E line \in Lines :
        /\ PutAction("source", id, line)
        /\ jobs' = [jobs EXCEPT ![w].actions = Put(@, id, line), ![w].pc = "touch"]
    /\ lost' = IF id \in DOMAIN journal["source"] THEN lost \cup {<<Who(w), "action">>}
               ELSE lost
    /\ UNCHANGED <<stored, baseline, init, passed, reported, file, holder, begun, cut, crowded>>

TouchSession(w) ==
    /\ jobs[w].pc = "touch"
    /\ SaveSession(w, jobs[w].record, Finished(w))
    /\ Free(w)
    /\ UNCHANGED <<journal, baseline, passed, reported, file, begun, cut, crowded>>

Ending(w, status) ==
    jobs' = [jobs EXCEPT ![w].record.status = status, ![w].pc = "finish"]

\* Mutant of ReplayAll: the session is ready after any trial that ended.
ReplayAnyOutcome(w) ==
    /\ jobs[w].pc = "replay"
    /\ Ending(w, "ready_for_analysis") /\ UNCHANGED holder
    /\ passed' \in {passed, passed \cup {jobs[w].actions}}
    /\ UNCHANGED <<stored, journal, baseline, init, reported, file, Histories>>

\* :done: a trial of all the actions, which is saved.
ReplayAll(w) ==
    /\ jobs[w].pc = "replay"
    /\ \/ /\ SavePass(w)
          /\ Ending(w, "ready_for_analysis") /\ UNCHANGED holder
       \/ Ending(w, "cancelled") /\ UNCHANGED <<passed, holder>>
       \/ End(w) /\ UNCHANGED passed
    /\ UNCHANGED <<stored, journal, baseline, init, reported, file, Histories>>

\* minimize has replayed all the actions with a stable pass; its trials are saved.
SaveTrials(w) ==
    /\ jobs[w].pc = "minimize"
    /\ \/ SavePass(w) /\ Step(w, "report") /\ UNCHANGED holder
       \/ Quit(w) /\ UNCHANGED passed
    /\ UNCHANGED <<stored, journal, baseline, init, reported, file, Histories>>

\* RunCandidate and RepeatTrial: any actions of the session, whatever its status; the
\* trial is saved, and nothing else.
RunCandidate(w) ==
    /\ jobs[w].pc = "trial"
    /\ SavePass(w) \/ UNCHANGED passed
    /\ Quit(w)
    /\ UNCHANGED <<stored, journal, baseline, init, reported, file, Histories>>

SaveReport(w) ==
    /\ jobs[w].pc = "report"
    /\ reported' = reported \cup {jobs[w].actions}
    /\ Ending(w, "analyzed")
    /\ UNCHANGED <<stored, journal, baseline, init, passed, file, holder, Histories>>

Finish(w) ==
    /\ jobs[w].pc = "finish"
    /\ SaveSession(w, jobs[w].record, Idle)
    /\ Free(w)
    /\ UNCHANGED <<journal, baseline, passed, reported, file, begun, cut, crowded>>

ArchiveSession(w) ==
    /\ jobs[w].pc = "archive"
    /\ SaveSession(w, [jobs[w].record EXCEPT !.archived = TRUE], Idle)
    /\ UNCHANGED <<journal, baseline, passed, reported, file, holder, begun, cut, crowded>>

Redact(actions) == [id \in DOMAIN actions |-> IF actions[id] = Secret THEN Redacted
                                                                     ELSE actions[id]]

\* export_session: the record and the actions were read one after the other.
ExportSession(w) ==
    /\ jobs[w].pc = "write"
    /\ file' = [record |-> jobs[w].record, actions |-> Redact(jobs[w].actions)]
    /\ Quit(w)
    /\ UNCHANGED <<stored, journal, baseline, init, passed, reported, Histories>>

\* import_session into a database that does not know the session.
ReadImport(w) ==
    /\ jobs[w].pc = "load" /\ jobs[w].kind = "import"
    /\ IF file = NoFile \/ Exists("copy") THEN Quit(w)
       ELSE /\ jobs' = [jobs EXCEPT ![w].record = file.record, ![w].actions = file.actions,
                                    ![w].pc = "copy"]
            /\ UNCHANGED holder
    /\ UNCHANGED <<Rows, Histories>>

\* The copy's record comes first, its actions one at a time.  A fork's are loaded when
\* its record is saved, and it is never archived.
SaveCopy(w) ==
    /\ jobs[w].pc = "copy"
    /\ IF Exists("copy") THEN Quit(w) /\ UNCHANGED stored
       ELSE /\ stored' = Put(stored, "copy", [jobs[w].record EXCEPT
                                                 !.archived = @ /\ jobs[w].kind = "import"])
            /\ Step(w, IF jobs[w].kind = "fork" THEN "actions" ELSE "copying")
            /\ UNCHANGED holder
    /\ UNCHANGED <<journal, baseline, init, passed, reported, file, Histories>>

CopyAction(w) ==
    /\ jobs[w].pc = "copying"
    /\ LET id == NextActionId(journal["copy"]) IN
       IF id \in DOMAIN jobs[w].actions
       THEN /\ PutAction("copy", id, jobs[w].actions[id])
            /\ UNCHANGED <<jobs, holder>>
       ELSE Quit(w) /\ UNCHANGED journal
    /\ UNCHANGED <<stored, baseline, init, passed, reported, file, Histories>>

\* The copy has its record, and not yet all its actions.
Copying(w) == jobs[w].pc = "copying" \/ (jobs[w].pc = "actions" /\ jobs[w].kind = "fork")

\* Jobs end where they are: what they have written stays.
Dies(who) ==
    /\ \E w \in who : Active(w)
    /\ jobs' = [w \in Workers |-> IF w \in who THEN Idle ELSE jobs[w]]
    /\ holder' = IF holder \in who THEN None ELSE holder
    /\ cut' = (cut \/ \E w \in who : Copying(w))
    /\ UNCHANGED <<Rows, begun, lost, crowded>>

\* The service's process dies, and its map of sessions with it.
Crash == Dies(Tasks \cup Requests)

\* A load or a save of the job returns an error, parsing or executing its line fails, or
\* the command's own process dies: what is half done is left half done, a copy too.
JobFails(w) == Dies({w})

Job(w) == \/ Begin(w) \/ LoadSession(w) \/ LoadActions(w) \/ Prompt(w) \/ Leave(w)
          \/ ShellCancelled(w) \/ SaveAction(w) \/ TouchSession(w) \/ ReplayAll(w) \/ SaveTrials(w)
          \/ RunCandidate(w) \/ SaveReport(w) \/ Finish(w) \/ ArchiveSession(w) \/ ExportSession(w)
          \/ ReadImport(w) \/ SaveCopy(w) \/ CopyAction(w) \/ JobFails(w)

Next == Create \/ BaselineJudged \/ SaveTitle \/ InitializeFails \/ Crash \/ \E w \in Workers : Job(w)

Spec == Init /\ [][Next]_historyVars

TypeOK ==
    /\ DOMAIN stored \subseteq Sessions
    /\ \A s \in DOMAIN stored : stored[s] \in SessionRecord
    /\ \A s \in Sessions : \E n \in 0..MaxActions : DOMAIN journal[s] = 1..n
    /\ baseline \in {None, "stable_fail", "cancelled", "other"}
    /\ holder \in Tasks \cup {None}
    /\ \A w \in Workers : jobs[w].kind \in Kinds(w) \cup {None}

Analyzable == {"ready_for_analysis", "analyzed"}

(***************************************************************************)
(* A session that can be analyzed was replayed as it now stands: a saved   *)
(* trial of this very journal was a stable pass, and an analyzed one has a *)
(* report on it; its baseline failed the oracle.  Analyses that undo each  *)
(* other's saves do not change that.  The same of a finished copy whose    *)
(* source kept to this, except for the values that the export took out;    *)
(* a copy whose making broke off, by a failed save or a death, is kept and *)
(* may be analyzed with some of its actions missing.  Nothing is promised  *)
(* after any other lost save, or once a shell was open beside a task or    *)
(* another shell (run_line, repl::run, analyze_session, ForkSession,       *)
(* import_session).                                                        *)
(***************************************************************************)
Analysts == {"task", "analysis"}
OnlyAnalysesLost == lost \subseteq Analysts \X Analysts

ReadyWasReplayed ==
    OnlyAnalysesLost /\ ~crowded =>
        /\ Exists("source") /\ stored["source"].status \in Analyzable =>
               /\ journal["source"] \in passed
               /\ baseline = "stable_fail"
        /\ Exists("source") /\ stored["source"].status = "analyzed" =>
               journal["source"] \in reported
        /\ /\ Exists("copy") /\ stored["copy"].status \in Analyzable /\ ~cut
           /\ \A w \in Requests : ~Copying(w)
           => journal["copy"] \in passed \cup {Redact(j) : j \in passed}

(***************************************************************************)
(* Tasks never undo each other's saves: what is lost is lost to or by one  *)
(* that does not ask for the session, which is an archive, the late title  *)
(* of a new session, a shell, or an analysis of the command line.  No      *)
(* action takes another's id, unless a shell was open beside a task or     *)
(* another shell (session_tasks, save_session, next_action_id).            *)
(***************************************************************************)
LossesAreKnown ==
    \A pair \in lost :
        \/ {"archive", "init"} \cap {pair[1], pair[2]} # {}
        \/ pair[2] # "action" /\ {"shell", "analysis"} \cap {pair[1], pair[2]} # {}
        \/ pair[2] = "action" /\ crowded
================================================================================
