---------------------------- MODULE StateDirectory ----------------------------
(***************************************************************************)
(* The processes of one state directory: how each opens the database,      *)
(* backs it up, migrates it and takes back the tasks it finds.  A server   *)
(* (the App Server, the terminal and the desktop client) holds the writer  *)
(* lock; a command of the command line asks for no lock and starts the     *)
(* same way.  Processes share the files only, so every access is a step.   *)
(***************************************************************************)
EXTENDS Integers, FiniteSets

CONSTANTS Servers, Clis, MaxStarts      \* MaxStarts bounds the processes ever started

DirectoryAssumption == "none" \notin Servers /\ MaxStarts \in Nat

VARIABLES
    database,   \* whether the file exists, its schema's version, and whether an older
                \* release made it
    backup,     \* the file beside it: Missing, Partial or the version it holds
    writer,     \* the server that holds the writer lock
    procs,      \* each process: where it is, and what it read when it started
    rows,       \* the row of each server's task
    starts,     \* how many processes have been started
    disturbed,  \* history: a backup was cut short, or two processes started at once
    harmed      \* history: the processes that interrupted a task whose server runs

directoryVars == <<database, backup, writer, procs, rows, starts, disturbed, harmed>>

Processes == Servers \cup Clis
None == "none"
Missing == -2           \* no backup file
Partial == -1           \* a backup file that is not whole
Current == 2            \* CURRENT_SCHEMA_VERSION
Newer == 3              \* what a later release would leave

Off == [pc |-> "off", existed |-> FALSE, version |-> 0]

Init ==
    /\ database \in [exists : {TRUE}, version : {0, 1}, legacy : {TRUE}]
                      \cup [exists : {FALSE}, version : {0}, legacy : {FALSE}]
                      \cup [exists : {TRUE}, version : {Newer}, legacy : {FALSE}]
    /\ backup = Missing /\ writer = None
    /\ procs = [p \in Processes |-> Off]
    /\ rows = [s \in Servers |-> None]
    /\ starts = 0 /\ disturbed = FALSE /\ harmed = {}

Starting(p) == procs[p].pc \notin {"off", "open"}

Goto(p, pc) == procs' = [procs EXCEPT ![p].pc = pc]

\* The process ends, and the system gives its lock back.
End(p) ==
    /\ procs' = [procs EXCEPT ![p] = Off]
    /\ writer' = IF writer = p THEN None ELSE writer

\* WriterLock::acquire, for a server.
Acquire(p) == IF p \in Servers THEN writer = None /\ writer' = p ELSE UNCHANGED writer

\* The lock comes first; then EventStore::open looks for the file.
Launch(p) ==
    /\ procs[p].pc = "off" /\ starts < MaxStarts
    /\ starts' = starts + 1
    /\ Acquire(p)
    /\ procs' = [procs EXCEPT ![p] = [Off EXCEPT !.pc = "connect", !.existed = database.exists]]
    /\ disturbed' = (disturbed \/ \E q \in Processes : Starting(q))
    /\ UNCHANGED <<database, backup, rows, harmed>>

\* Mutant of NeedsBackup: a database without a version is taken for a new one.
VersionedOnly(existed, version) == existed /\ version \in 1..(Current - 1)

NeedsBackup(existed, version) == existed /\ version < Current

\* schema_migrations is created and the version read; a newer schema is refused.
Connect(p) ==
    /\ procs[p].pc = "connect"
    /\ database' = [database EXCEPT !.exists = TRUE]
    /\ IF database.version > Current THEN End(p)
       ELSE /\ procs' = [procs EXCEPT ![p].version = database.version,
                  ![p].pc = IF NeedsBackup(procs[p].existed, database.version)
                            THEN "backup" ELSE "one"]
            /\ UNCHANGED writer
    /\ UNCHANGED <<backup, rows, starts, disturbed, harmed>>

\* create_backup keeps the file it finds, whatever is in it.
BeginBackup(p) ==
    /\ procs[p].pc = "backup"
    /\ IF backup = Missing THEN backup' = Partial /\ Goto(p, "copying")
                        ELSE Goto(p, "one") /\ UNCHANGED backup
    /\ UNCHANGED <<database, writer, rows, starts, disturbed, harmed>>

\* SQLite starts its copy again when another process has written: the copy holds the
\* database as it is when the last page has been copied.
CopyBackup(p) ==
    /\ procs[p].pc = "copying"
    /\ backup' = database.version
    /\ Goto(p, "one")
    /\ UNCHANGED <<database, writer, rows, starts, disturbed, harmed>>

\* Version 1 goes by the version read at first; a row that is there by now is an error.
MigrateOne(p) ==
    /\ procs[p].pc = "one"
    /\ IF procs[p].version < 1 /\ database.version >= 1
       THEN End(p) /\ UNCHANGED database
       ELSE /\ database' = [database EXCEPT !.version = IF @ < 1 THEN 1 ELSE @]
            /\ Goto(p, "two") /\ UNCHANGED writer
    /\ UNCHANGED <<backup, rows, starts, disturbed, harmed>>

\* Version 2 goes by the version read now, before its transaction begins.
CheckTwo(p) ==
    /\ procs[p].pc = "two"
    /\ Goto(p, IF database.version < Current THEN "create" ELSE "recover")
    /\ UNCHANGED <<database, backup, writer, rows, starts, disturbed, harmed>>

CreateTables(p) ==
    /\ procs[p].pc = "create"
    /\ IF database.version >= Current
       THEN End(p) /\ UNCHANGED database
       ELSE /\ database' = [database EXCEPT !.version = Current]
            /\ Goto(p, "recover") /\ UNCHANGED writer
    /\ UNCHANGED <<backup, rows, starts, disturbed, harmed>>

Open(p) == procs[p].pc = "open"

\* interrupt_active_tasks: every active row, in one transaction, whoever runs it.
Recover(p) ==
    /\ procs[p].pc = "recover"
    /\ rows' = [s \in Servers |-> IF rows[s] = "active" THEN "interrupted" ELSE rows[s]]
    /\ harmed' = IF \E s \in Servers : rows[s] = "active" /\ Open(s) THEN harmed \cup {p}
                 ELSE harmed
    /\ Goto(p, "open")
    /\ UNCHANGED <<database, backup, writer, starts, disturbed>>

StartTask(s) ==
    /\ Open(s) /\ rows[s] # "active"
    /\ rows' = [rows EXCEPT ![s] = "active"]
    /\ UNCHANGED <<database, backup, writer, procs, starts, disturbed, harmed>>

\* An interrupted row is terminal: the transition of its owner is refused.
FinishTask(s) ==
    /\ Open(s) /\ rows[s] = "active"
    /\ rows' = [rows EXCEPT ![s] = "completed"]
    /\ UNCHANGED <<database, backup, writer, procs, starts, disturbed, harmed>>

\* The process exits, dies or gives its start up, at any point.
Die(p) ==
    /\ procs[p].pc # "off"
    /\ End(p)
    /\ disturbed' = (disturbed \/ procs[p].pc = "copying")
    /\ UNCHANGED <<database, backup, rows, starts, harmed>>

Next ==
    \/ \E p \in Processes : \/ Launch(p) \/ Connect(p) \/ BeginBackup(p) \/ CopyBackup(p)
                            \/ MigrateOne(p) \/ CheckTwo(p) \/ CreateTables(p) \/ Recover(p)
                            \/ Die(p)
    \/ \E s \in Servers : StartTask(s) \/ FinishTask(s)

Spec == Init /\ [][Next]_directoryVars

TypeOK ==
    /\ database.version \in 0..Newer
    /\ backup \in Missing..Current
    /\ writer \in Servers \cup {None}
    /\ \A p \in Processes : procs[p].version \in 0..Current
    /\ \A s \in Servers : rows[s] \in {None, "active", "completed", "interrupted"}
    /\ starts \in 0..MaxStarts

(***************************************************************************)
(* A start leaves the newest schema, whatever another start did meanwhile; *)
(* a database of an older release that has been migrated has a whole copy  *)
(* of its old state beside it, unless a backup was cut short or two        *)
(* processes started at once; and no server interrupts the task of a       *)
(* server that runs: only a command does (migrations::migrate,             *)
(* create_backup, WriterLock, FixTraceAppService::start).                  *)
(***************************************************************************)
StartupIsSafe ==
    /\ \A p \in Processes : procs[p].pc \in {"recover", "open"} => database.version = Current
    /\ database.legacy /\ database.version = Current /\ ~disturbed => backup \in 0..(Current - 1)
    /\ harmed \subseteq Clis

(***************************************************************************)
(* A start interrupts orphaned tasks only, those whose server no longer    *)
(* runs ("Startup transactionally changes orphaned ... tasks to            *)
(* Interrupted").  The code breaks it: a command beside a running server   *)
(* interrupts the server's task (app::run, interrupt_active_tasks).        *)
(***************************************************************************)
OnlyOrphansInterrupted ==
    [][\A s \in Servers : rows[s] = "active" /\ rows'[s] = "interrupted" => ~Open(s)]_directoryVars
================================================================================
