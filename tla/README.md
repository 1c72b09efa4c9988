# FixTrace in TLA+

FixTrace records a debugging session (shell commands, patches, environment
changes), replays parts of it in sandboxes and reduces it to a small set of
actions that still repairs the project. Around that core sits an App Service
that runs long tasks on behalf of several clients, asks them for approvals,
stores what happened in SQLite and streams events to them.

This directory holds TLA+ models of the parts of FixTrace whose correctness
depends on an order of steps: the supervision of tasks, the event stream and its
two kinds of subscription, what the two clients make of it, the minimizer with the
trials and dependencies it rests on, the agent loop, and what is on disk: the
history of a session, the copies of its project, the configuration file, and the
database as several processes start on it. TLC checks them on small instances; TLAPS
proves nearly every safety property of theirs, and the refinements of the event feed,
for every value of the constants. `PROJECT.json` relates every definition to the lines it
models.

## 1. The system

Paths are relative to the repository. "State" is what survives between two
operations of a component.

| component | state | operations | interacts with |
|---|---|---|---|
| task supervisor (`src/application/protocol.rs`) | `session_tasks`, `task_cancellations`, `task_approval_waiters` in memory; task and approval rows through the store | `start_task`, `run_task`, `await_task_approval`, `cancel_task`, `approval/respond` | store, App Service actor, event publication |
| store (`crates/fixtrace-store/src/store.rs`) | `tasks`, `approvals`, `app_events`, `session_streams` in SQLite; no connection is shared | `save_task`, `transition_task`, `save_approval`, `resolve_approval`, `equivalent_approval_rule`, `interrupt_active_tasks`, `append`, `load_after` | everything that persists |
| App Service actor (`src/application/service.rs`) | configuration, a bounded queue of commands, the broadcast channel, the root cancellation token | `start`, `execute_with_context`, configuration commands, `publish_event` | supervisor, workflow, clients |
| session snapshot (`protocol.rs`, `session_snapshot`) | none: several reads put together | one request | store, registries |
| server connection (`apps/fixtrace-server`) | subscriptions, remembered request ids, a broadcast receiver | `catch_up`, `on_live_event`, `recover_lagged`, `apply_action` | store, broadcast, socket |
| WebSocket client (`crates/fixtrace-client/src/websocket.rs`) | the sequence it resubscribes from, a bounded queue | `subscribe`, reconnection | server connection, its reader |
| in-process client (`crates/fixtrace-client/src/lib.rs`) | receiver, pending batch, `last_sequence` | `subscribe`, `recv`, `accept` | store, broadcast |
| minimizer (`src/minimize`) | current set, granularity, trial cache | `minimize_with_graph`, `ddmin`, `closure`, `remove_with_dependents` | trial runner |
| dependency graph (`src/minimize/dependency.rs`) | the edges between actions | `infer`, `closure`, `remove_with_dependents` | recorder, minimizer, agent tools |
| trial runner, oracle, executor (`src/replay`) | a sandbox per repetition, child processes | `run`, `replay_action`, `run_shell_command`, `terminate_child`, `classify_outcome` | sandbox, minimizer |
| agent loop (`src/agent`) | conversation, usage, trials it knows, diagnosis | rounds, tool calls, steering, `validate_diagnosis` | model client, trial runner, history |
| recorder (`src/recorder`) | a session's actions and checkpoints | `run_line`, the controlled shell, patches | history, sandbox |
| session history (`src/history`, `src/workflow.rs`) | sessions, actions, trials, reports in SQLite | `initialize_session`, analysis, archive, fork, export, import | recorder, minimizer, agent |
| sandbox (`src/sandbox`) | copies of the project, manifests | `copy_project`, `protect_read_only`, restoring modes | recorder, trials |
| migrations (`crates/fixtrace-store/src/migrations.rs`) | the schema version, a backup file | `migrate`, `create_backup` | every process that opens the store |
| server lock and token (`apps/fixtrace-server`) | a lock file, a token file | `WriterLock::acquire` | migrations, restart |
| configuration (`src/config.rs`) | one file of keys | load, set, validate, save | actor, `config set` |
| progress and timeline (`service.rs`, `src/progress`) | text held back by an observer | `emit`, `coalesced_progress_payloads` | agent, trials, event publication |
| terminal UI, desktop UI (`apps/`) | a model reduced from responses and events | `update` / the reducer in `state.ts` | clients |
| presenter, protocol types, model clients, command line | none | pure conversion and I/O | |

What is hard in this code, and where (`PROJECT.json` lists each hazard at its
line):

* **Tasks.** `transition_task` loads a row, checks it and saves it on separate
  connections, with nothing held; the supervisor, a cancel and an approval all
  do so. A lock in memory, a partial unique index in SQLite and a token registry
  have to stay in step through errors, crashes and restarts.
* **Approvals.** A decision travels through a row, a call of a client, a oneshot
  and a re-read of the task row; a cancel, a second client or a restart may come
  between any two of them.
* **Events.** An append and its broadcast are two steps, so the broadcast may be
  out of order; receivers lag, connections break, a catch-up reads its watermark
  and its rows in two statements.
* **Minimization.** Trials are flaky and may be cancelled; the search must end,
  return a set that was seen to pass, and not contradict its own evidence.
* **Clients.** They merge responses and events that arrive in either order.
* **Replay.** A candidate is replayed without some of the actions it was recorded
  with; commands time out, are cancelled, and leave processes behind that hold
  their pipes.
* **The agent.** A model may answer anything, tools fail, the user steers in the
  middle of a request, and the conversation must stay one a provider accepts.
* **Files.** Session records, configuration keys and schema versions are saved
  one at a time, with a crash possible in between. Several processes (a server,
  the command line, a controlled shell) may use one state directory.

What makes each component correct, in a sentence: at most one mutation task per
session and no command without its permission (supervisor); a decided request
stays decided and a restart leaves nothing active (store); every event once and
in order or a gap that is told (subscriptions); the result passed, is closed
under dependencies and no single removal is known to pass (minimizer); the
snapshot plus the events after its watermark is the state (snapshot, reducers);
a closed candidate sees what was recorded (dependencies, replay); an outcome rests
on every repetition and a cancelled trial ends (trial runner, executor); a request
is within its limits and well formed, a diagnosis cites what is stored (agent);
what may be analyzed was replayed as it stands, and no task undoes another's save
(history, recorder); a trial repeats the recorded edit (sandbox); a start leaves
the newest schema, a backup and other processes' tasks alone (migrations, lock);
a restart reads what the service answers by (configuration); the events of a piece
of work tell all of it, in order (progress).

## 2. The modules

| module | models |
|---|---|
| `TaskLifecycle` | `TaskStatus` and `can_transition_to` |
| `TaskSupervisor` | the supervisor with everything that races with it: store, clients, faults, Ctrl+C, crash and restart |
| `MCTaskSupervisor` | its instances for TLC |
| `TaskSupervisorProofs` | proofs of type correctness, the session lock and mutual exclusion; of the path of a decision; of rows, their last status, operation ids, restarts, resolved requests and heard cancels |
| `Ordering` | the first, last and n-th of a finite set of numbers: what a map overwritten in order keeps, what `ORDER BY ... LIMIT` reads |
| `EventLog` | `append`, the broadcast, `load_after`: used by both subscriptions |
| `OrderedFeed` | the abstract promise of a subscription |
| `WireSubscription` | server connection, socket and reconnecting client; implements `OrderedFeed` |
| `LocalSubscription` | in-process subscription; implements `OrderedFeed` |
| `FeedProofs` | proofs that the wire subscription does, and of what is in flight between server and client |
| `DependencyGraph` | `closure`, `remove_with_dependents`, as least sets and as the loops of the code |
| `DependencyInference` | `infer`: what each recorded action requires; an action's effect on the replay context |
| `Replay` | one trial: `TrialRunner::run`, `replay_action`, `run_shell_command`, `classify_outcome` |
| `ReplayProofs` | lemmas about `Ordering`; proofs of what a candidate replays and what its outcome rests on |
| `Minimizer`, `MCMinimizer` | `minimize_with_graph`, `ddmin`, the cache |
| `MinimizerProofs` | proofs that the evidence of a report is sound, and that the loops of the graph compute the least sets |
| `SessionServer` | one session as its clients see it: rows, approvals, diagnosis, events |
| `ClientView`, `MCClientView` | the terminal client and the desktop over `SessionServer`: snapshots, events, replies, dialogs |
| `ClientViewProofs` | proofs of what a client at rest shows |
| `AgentLoop` | the rounds of the agent: limits, steering, tools, the check of its diagnosis |
| `SessionHistory` | a session's record and journal, and the jobs that change them |
| `SessionHistoryProofs` | proofs that tasks do not undo each other's saves, and that what may be analyzed was replayed |
| `Sandbox` | the copies of a project, a checkpoint of an edit and its replay |
| `StateDirectory` | processes that start on one state directory: lock, backup, migration, restart |
| `Configuration` | the configuration file and the actors that read and write it |
| `ProgressStream` | from the progress of a piece of work to the events of its timeline |
| `ProgressStreamProofs` | proofs that the timeline stays whole while nothing is lost, and in order whatever is |
| `Workbench` | the components that share no state with the task system, side by side |
| `MCWorkbench` | its instance for TLC |
| `WorkbenchProofs` | the theorems about the properties of `Workbench`; proofs about the agent, starts, configuration, sandbox and in-process subscription |

### TaskSupervisor

A task id `t` is one call of `start_task` with the id it draws, so two elements
of `Tasks` are two concurrent calls. `pc[t]` is the next statement of the call
and then of its supervisor; the labels follow the code (`"gate"`, `"lock"`,
`"insert"`, `"spawn"` in `start_task`; `"load"` to `"cleanup"` in `run_task`;
`"ask"` to `"abandon"` in `await_task_approval`). `phase[t]` splits
`transition_task` into load-and-check, save and the publication that follows.
`call[c]` is the `task/cancel` or `approval/respond` a client is in. `status`,
`approval`, `rules` and `log` are in SQLite and survive `Crash`; the registries
do not. A step is one access to shared state: every method of `EventStore` opens
its own connection, and a mutex of the App Service is never held across one.

Abstractions: a request is reduced to the fields that
`equivalent_approval_requests` compares (`Requests`); what `approval_gate`
decides is a choice among what it may decide for the task (`Policies`); the
command of a task is one step to the actor and one answer; only the events that
a property mentions are kept in `log`. `SupervisorFault`, `StarterFault` and
`CallFault` are store operations that return an error, each at the places where
the code has one, with the path the code takes from there. One of these paths gives
nothing back: when the prompt of an agent turn cannot be published, `start_task` returns
with the lock held and the row queued (`"leaked"`). A command may run for ever.

### EventLog, OrderedFeed and the subscriptions

An event is its sequence. `AppendEvent` is the transaction of `append`, `Send`
the `broadcast.send` that follows; up to `Publishers` publishers may be between
the two. A receiver is a position in what was sent; falling more than `Buffer`
behind is `Lagged`. `LoadAfter` and `IsGap` are `load_after`. `LoseRow` is a row
that disappears from outside: no code deletes events, but every reader is
written to notice, and without it no gap would ever be seen.

`OrderedFeed` is what a reader is promised: it joins at a watermark, then sees
each later event once and in order, until it is told of a gap, which needs an
excuse. Both subscriptions implement it under a refinement mapping: `delivered`
is `last_sequence` of the reader, and the excuse is a lost row for the wire,
while an in-process reader may be told at any time (its own lag, or the order of
the broadcast).

`WireSubscription` is one session over one connection at a time: `conn` is the
connection task (`"open"`, `"reading"` in `catch_up`, `"live"`), `wire` the
frames under way, `after` the sequence the client task would resubscribe from,
`queue` its channel to the reader.

### Minimizer

One step evaluates one candidate or ends a loop. `at` is the loop, `current` is
the set in hand, `cache` the trial cache, and the outcome of an uncached trial is
chosen anew each time, so a candidate is as flaky as it likes. `Cancel` may come
at any moment. `TrialFails` is the `?` of every trial.

### SessionServer and ClientView

`SessionServer` is the session of `TaskSupervisor` once more, coarser: what a call
writes is one step, and there are no faults, registries or restarts. Composing
the two would make TLC repeat every race of the supervisor for every state of a
client. What it keeps is what a client can tell: rows are written first (`row`,
`ask`, `diagnosis`), and their events reach the stream later (`due`, then `log`).
In return the writes of a supervisor that race with a cancel, such as the stuck
cancel of section 5, are not in it.

`ClientView` is one client with that session open; `client` says which. `view` is
`model.session` and `last_sequence` (or `session` and `throughSequence`), `dialog`
the modal or `pendingApproval`, `feed` the subscription, `request[i]` a request in
flight. A snapshot is read in three steps as in `session_snapshot`: the stored
session with its diagnosis, the watermark, the rows. The terminal client takes
everything from one `queue`, into which its subscription and a spawned task per
request post (`TuiForward`, `TuiPost`); the desktop reduces an event or a reply
when it comes. `stale`, `dismissed` and `inputs` are history and no action
reads them.

The properties hold of a client at rest (`Quiet`: nothing under way in the service
or in the client). Four orders of arrival that neither client repairs are in the
model and excused by `stale`, until the next snapshot: an event put over missing
ones (a snapshot that was overtaken by events, or a queued event of an aborted
subscription), an event or reply about a task the view has left behind, an
approval requested after it was resolved, and a snapshot whose diagnosis is older
than its watermark. A subscription that broke is not at rest: the terminal client
shows an error and the desktop nothing, and neither subscribes again by itself.

### DependencyInference and Replay

A journal is the sequence of recorded actions; an action is a `cd`, a variable set or
unset, a patch that writes or deletes one file, or a shell command that names
variables and files. `Infer` is `DependencyGraph::infer`: the maps the code builds
while it walks the actions (last writer of a variable, of a directory; creator of a
file) are the last or first of the earlier actions that match. `Effect` is what
`replay_action` does to `ReplayState`. What a shell command does to files is opaque,
as it is to the code.

`Replay` is one trial of one plan (a journal and the chosen actions). `stage` is where
`TrialRunner::run` is; `position` counts actions dealt with; `shell` and `descendant`
are the child of the moment and a process it left, with `holds` (the pipes) and
`heeds` (which signals reach it). `Terminate` is the select that hears the timeout or
the token, `GraceOver` the SIGKILL after two seconds, `OutputRead` the condition on
which `join_output` returns. Answers and exits of commands, failing copies and failing
actions are the environment's.

### AgentLoop

`mode` is the place in `run_agent_with_prompt_and_steering`; the conversation is its
length, the calls without an answer (`unanswered`) and whether a message ever came
between calls and answers (`tangled`, history). A response is a number of calls, a
text or none, and a usage; a diagnosis is the set of actions and of trials it cites.
Every tool is `CallTool` (reads, or fails) or a trial: `StartTrial`, and `RunTrial` when
it returns (it is saved, then known), if it ever does. The offline diagnosis is a single write and is left out.

### SessionHistory

`stored` and `journal` are the rows of `sessions` and `actions`, for the session
(`"source"`) and for what a fork or an import makes of it (`"copy"`). A worker is a
task of the service; a request that is no task (archive, fork, export, import, a trial) or
a command of the command line (analyze, export, import), which is a process of its own; or
a controlled shell, which is one too. `jobs[w]` is its place in the function and
the record and journal it has loaded. In each of these places the job may fail or its
process die (`JobFails`), and what it has written stays. Every step is one transaction. `holder` is the
entry of `session_tasks`, which only tasks take. `lost` names, for each save that undid
another, who did it to whom: `missed` collects who saved since a worker loaded.
`crowded` remembers that a shell was open beside a task or another shell, which nothing
in the code prevents: from then on both may number their actions alike. `cut`
remembers that the making of the copy broke off (section 5 for both).

### Sandbox

A tree is a function from paths to nodes: files with contents and a mode, directories
with a mode, links with a kind of target. `Initialize` makes the copies,
`EditOutside` is what a user does to the worktree in an editor, `Checkpoint` is
`replacements_between`, and `Copy`, `WriteFile`, `DeleteFile` are the trial that replays
the patch. Refusals (links, read-only directories, a directory in a file's place) are
those of the code.

### StateDirectory

A process starts in the steps of `EventStore::open`, `migrate` and
`interrupt_active_tasks`: `"connect"`, `"backup"`, `"copying"`, `"one"`, `"two"`,
`"create"`, `"recover"`, `"open"`; it may die in each. A server acquires the writer lock
first; a command of the command line does not, and starts the service all the same.
`database` may be new, of an older release (version 0 or 1) or of a newer one. `rows`
has one task of each server.

### Configuration

`saved` is the file, `actors[a]` a process with the configuration it goes by, the clone
it validates and the keys of the update still to come. `fs::write` is `Truncate` and
`WriteAndAdopt`, or `WritePart` of a write that broke off: a part of the file reads as
defaults for the rest, or not at all. The file is read at the start of a process only.

### ProgressStream

The work opens and completes items (tools, trials, messages), nested as the agent nests
them; `pending` is the observer's `AgentDelta`, `timeline` what was published. A text is
a sequence of chunks with their places, so that order and loss can be told. A failed
publication is logged and forgotten (`Observe` with `lost`).

### Workbench and MCWorkbench

The components above share no state with each other or with the task system. `Workbench`
sets their instances side by side (`R` replay, `A` agent, `H` history, `B` sandbox, `D`
directory, `C` configuration, `P` progress, `L` in-process subscription), and `part`,
chosen at first, is the one that moves; the others stay in an initial state. Its constants
are those of the components, and its properties theirs under the same names (what ends is
one property, `WorkEnds`).
`LocalSubscription` is checked here as well. For the three components with a proof module
(replay, history, progress) the instance is of that module, so that `WorkbenchProofs` can cite its lemmas.

`MCWorkbench` gives the constants their values. It also has `InOrder`, an action
constraint of the run: tasks are alike, so the second begins a job only beside the first.
The proofs are about `Workbench` without it.

## 3. The runs

| run | question | bounds |
|---|---|---|
| `task_safety` | do lock, rows, decisions and executions stay consistent? | two start calls of one session, one or two operation ids, one client, one crash, one store fault |
| `task_live` | do supervisors and locks always come free, and is a decision final? | one task, with or without a session, two clients, one crash or Ctrl+C, one store fault |
| `task_cancelling` | does a cancelling task always settle? (no: see 5) | one task, one client, no fault |
| `task_denial` | does a denial always end the wait? (no: see 5) | one task, one client, no fault |
| `wire_feed` | does the wire subscription implement `OrderedFeed`? | 4 events, 2 publishers, buffer 1, batch 2, queue 1, 1 lost row, 1 dropped connection |
| `local_race` | can it report a gap though nothing is lost? (yes: see 5) | 3 events, 2 publishers, no lost row |
| `clients` | does a client at rest show the session as it is? | two tasks with an approval each; two inputs for the terminal client, three for the desktop; two requests in flight, one queued event |
| `tui_approval` | does the terminal client show the approval that waits? (no: see 5) | one task, two inputs |
| `tui_late_reply` | can it show an ended task as active? (yes: see 5) | one task, two inputs |
| `minimizer` | is the report sound, and does the search end? | 4 actions, 5 dependency graphs, every verdict, cancel at any time |
| `workbench` | do the components that share no state keep their promises? | below, for each part |
| `cli_start` | does a start interrupt orphaned tasks only? (no: see 5) | two servers, one command, 3 starts |

The parts of `workbench`:

| part | bounds |
|---|---|
| replay | 5 journals of 4 actions with every closed candidate and two that are not closed, one candidate of 3 whose commands fork; 2 repetitions |
| agent | 3 steps, 8 messages, a budget of 3, 2 calls in a response, 2 trials, one action of the session and one made-up id |
| history | 2 tasks, 1 request, 1 shell, 2 actions, 3 jobs, 2 of them at once, a failing job or a crash at any time |
| trees | a directory and a file in it, every tree over them with two contents and every edit |
| directory | 2 servers, 1 command, 3 starts |
| settings | 2 actors, 2 keys, 3 updates to choose from, 2 starts, 2 updates |
| stream | 3 items, 3 chunks of size 1 or 2, threshold 2, 6 events, 1 failed publication |
| feed | 4 events, 2 publishers, buffer 2, batch 2, 1 lost row |

Why these bounds are enough. Two starts of one session are what the lock, the
unique index and `UNIQUE(operation_id)` arbitrate between; a third adds nothing
they compare. `MaxCrashes = 1` reaches a restart from every state, and the
restarted process can start the second task. `MaxFaults = 1` makes any one store
access fail, in the live run too, where two clients race for one request. For the streams,
4 events with a batch of 2 need a second and a third batch, a buffer of 1 or 2
overflows, two publishers reverse the broadcast, and a queue of 1 blocks the
client task. Four actions are the fewest for which ddmin doubles its granularity
(2 to 4), partitions unevenly after a reduction to three, and a chain, a fork, a
join and a diamond differ. For the clients, two tasks let what is late about the
first meet the second; an input is a command of the user or a subscription that
breaks, so three of them are two starts with an answer or a cancel, or a start and two of
these that race; two requests in flight let a reply overtake a snapshot.

In `workbench`: the five journals set a directory, a variable or a file, set it again,
take it back, and use it, so that the last and the first writer differ and a candidate
can leave out each of them; two repetitions are the fewest that can disagree, and
the third command of the forking candidate meets what the first left behind. Three
steps and two calls let the tools fail three times across a response, and a budget of 3
and a context of 8 messages are each used up before the steps are, or after. Three jobs
on one session are two that race and one that acts on what they left; two actions are a
journal that is overwritten or outdated. The second task begins only beside the first
(tasks are alike), and every line is the same: journals of one length differ only once an
action was overwritten, where `ReadyWasReplayed` promises nothing. A directory with a file has every kind of change
(created, deleted, content, mode, kind) at both levels. Three starts are two that overlap
and one after a death, with a database left between versions. Two keys, with an invalid
value second, stop an update half way. Three chunks with a threshold of two are text that
is published, held back, and held back across the start of another item.

`Symmetry` is used in
`task_safety` (clients) and in the runs of the clients (slots of requests), which
have no temporal property. All runs set `CHECK_DEADLOCK FALSE`: every one of these
systems may stop (no client has to call, the events are bounded, a search ends).

What the properties say:

* `task_safety`. `OneMutationPerSession`: two commands of a session never run at
  once. `ExecutionPermitted`: a command that needed approval was approved, itself
  or by a rule of its session. `DecisionIsRow`: response, oneshot and supervisor
  agree with the row. `OperationRunsOnce`: a retried operation id runs once.
  `LockMatchesHolder`: a call entitled to the lock has it, from taking it to the end of
  its supervisor, and a locked session has such a call. The one exception is named in
  it: a start whose prompt could not be published leaves the lock to nobody (`Leaked`,
  section 5), for which a store operation must have failed.
  `CompletedMeansExecuted`: nothing is reported as completed that never ran.
  `RestartSettles`: a restart leaves no row of the dead process active.
* `task_live`. `CancelHeard`: once a cancel is past the token, its supervisor has
  a cancelled token or never starts the command. `ResolvedOnce` and
  `DecisionFinal`: one decision, one event, no change later. `TerminalRowStays`: a result
  in a row changes only where a cancel and the supervisor cross (`Crossed`), and an
  interruption never.
  `SignalStopsSupervisor`: cancelled supervisors end, unless their command never does.
  `LockGivenBack`: locks come back, whatever failed, unless the task waits for a person,
  its command never ends, or its start leaked the lock.
* `wire_feed`. `FeedIsOrdered` is the refinement of `OrderedFeed`;
  `FeedIsServed` its liveness; `FramesAreARun` is the invariant behind the first:
  the frames in flight are the run between client and server.
* `clients`. `QuietViewIsServer`: the task shown as active is the active task of the
  session, none is if there is none, and the newest diagnosis is shown.
  `DesktopApprovalShown`: the desktop shows the dialog of a pending approval or
  none, whether it came with a snapshot or an event and whoever resolved it; and the
  one pending approval is shown, unless approvals waited beside each other
  (`OneAtATime`).
* `minimizer`. `CurrentIsSufficient`: the set in hand is closed and passed.
  `ReportIsMinimal`: each single removal is on record and did not pass.
  `NothingRemovable`: the error "remained removable" is unreachable.
  `NoCancelledEvidence`: no cancelled trial in a report. `LoopsComputeLeast`: the
  two loops over the graph compute least sets. `OnlyShrinks`. `Terminates`: the search
  ends, if each of its trials does (which `HeldOpen` of `Replay` may prevent).
* `workbench`, replay. `ReplaySeesTheRecording`: in a candidate closed under the
  inferred dependencies each action finds its directory, each command the variables and
  the new files it names; the exception is an action in the root that needs no directory,
  which is refused when the `cd` back is left out. `OutcomeIsEvidence`: a stable or flaky
  outcome rests on every repetition, and cancelled means that the token is.
  `WorkEnds`: a cancelled trial ends, unless a process that outlived its shell holds the
  pipes for ever; the agent's loop ends, unless it is steered for ever or a trial of
  its tools never returns; a reader in the
  process gets every event or is told of a gap.
* `workbench`, agent. `RequestsAreJustified`: a model is asked only within budget, steps
  and failures, and every call before is answered. (A budget of nothing lets the requests
  of the first step through, because the budget is compared after a response.) `DiagnosisIsGrounded`: a saved diagnosis
  means completion, and cites only what the database has.
* `workbench`, history. `ReadyWasReplayed`: the journal of a session that may be analyzed was
  itself replayed with a stable pass, an analyzed one has a report on it, and a finished
  copy inherits this. Nothing is said of a copy whose making broke off, by an error or a
  death; nor of a session after a lost save, except between analyses, or once a shell was
  open beside a task.
  `LossesAreKnown`: a save is lost only to or by an archive, the late title of a new
  session, a shell or an analysis of the command line, never between tasks; an action is
  overwritten only if it was crowded.
* `workbench`, trees. `EditIsRepeated`: a checkpoint that replays gives the files of the
  worktree; one that fails met a change of kind or something read-only.
* `workbench`, directory. `StartupIsSafe`: who is past its migration has the newest schema;
  a migrated database has its whole backup; no server interrupts a server's task.
* `workbench`, settings. `RestartReadsSaved`: an actor goes by what the file has, unless a
  write broke off or another process wrote; an update that fails has changed the keys
  before the one that failed.
* `workbench`, stream. `TimelineIsWhole`: text is heard in order and before its message
  ends; while nothing is lost, all of it is, nothing completed is left open, and what is held back
  stands right behind its own message.
* `workbench`, feed. `FeedIsKept`: the in-process subscription implements `OrderedFeed`.
* `TypeOK` has the shape of the state, in `task_safety`, `minimizer` and `workbench`; those
  of the clients and of the WebSocket feed are proved only (section 4).

Each property has a mutant in `PROJECT.json`: a plausible bug in a modelled
definition under which TLC finds that property violated.

### Fairness

`FairSpec` of `TaskSupervisor` gives weak fairness to the calls and supervisors
already begun and to a restart already begun: tokio polls what was spawned, and
no task blocks a worker. Nothing makes the command of a task end: a process that holds
its pipes open is not ended by its timeout or its token (`HeldOpen` of `Replay`), and an
agent turn may be steered for ever. The liveness properties excuse such a command
(`[]Executing`) and nothing less. No fairness makes a client submit, cancel or answer, nor a
process crash or restart. In the subscriptions the publisher that appended sends,
and the tasks of both ends go on; the client reconnects, which is its retry
loop. Nothing makes a publisher append. In the minimizer the future is polled
until it is done, each trial is assumed to return, and nothing makes anyone cancel. In a trial the runner is polled and its
timers fire; nothing makes a process exit, a descendant included. The agent's loop is
polled, and a request ends because the client has a timeout; nothing makes the user
steer or stop, or a trial of the tools return. `MCWorkbench` gives this fairness to the part that moves.

## 4. What is proved

TLAPS checks the following without bounds. The constants have only the assumptions named
here, and TLC evaluates each of those in a run. About the task supervisor, for every set
of tasks, sessions, clients, operations, requests and inputs, and any number of crashes
and faults (`ConstantsAssumption`; `TaskSupervisorProofs`):

* `TypeCorrect`: `Spec => []TypeOK`.
* `LockCorrect`: `Spec => []LockMatchesHolder`. Its strengthening, `LockTable`, says that
  the lock of a session is with a task exactly if that task keeps it (`KeepingPC`: the
  entitled labels and the leak): `LockSession` takes only a free lock, and each path out of
  a keeping label (a failed INSERT, `Cleanup`, a crash) clears exactly the entry of its own
  session. `LeakIsFault` says that a leak takes a failed store operation; a leaked lock
  stays until a crash.
* `MutualExclusion`: `Spec => []OneMutationPerSession`. It is not inductive by
  itself; it follows from `LockMatchesHolder`, since a lock has one value.
* `DecisionCorrect`: `Spec => []DecisionIsRow`. This invariant is the
  strengthening that `ExecutionPermitted` needs: it follows the decision from the
  row through client, oneshot and supervisor, and says that before the request
  no row and no execution exist.
* `ExecutionIsPermitted`: `Spec => []ExecutionPermitted`, from the former.
* `DecisionIsFinal`: `Spec => DecisionFinal`, an action property. Lemma
  `ApprovalWriters` finds the only four writers of a decided row; each compares
  with pending first, or creates the row.
* `OperationIsUnique`, `CompletionIsHonest`, `RestartIsComplete`: `Spec =>` always
  `OperationRunsOnce`, `CompletedMeansExecuted`, `RestartSettles`. None is
  inductive. `RowInv` says of every label whether the row exists, whether the
  command ran, and that operation ids of existing rows differ; a cancel in
  progress has a row whose task is not dead.
* `RowIsFinal`: `Spec => TerminalRowStays`, an action property. `FinalInv` says that a
  supervisor which has stored a result only publishes it and cleans up, that an interrupted
  task was of a process that died, and that no task is at work while the service is not up;
  `RowInv` adds that no cancel is about a task of a dead process. Lemma `RowWriters` goes
  through the writers of a row. What is left to cross is real: TLC reaches a completed row
  that a cancel overwrites (this is `task_cancelling`), and a cancelled one that its
  supervisor overwrites.
* `ResolutionIsUnique`: `Spec => []ResolvedOnce`. The invariant adds that a
  writer that has resolved the request but not yet published is counted.
* `CancelIsHeard`: `Spec => []CancelHeard`. `HeardInv` adds that a supervised
  task has its token registered and that, before the first read of its row, a
  cancel still on its way is at the token or has written the row.

About the event feed, for any number of events, publishers, lost rows and broken
connections, and any size of the buffer, the batch and the queue (`LogConstants`,
`WireConstants`: sizes that are positive; `FeedProofs`):

* `WireImplementsFeed`: `Spec => FeedIsOrdered`. Each step of the wire subscription is a step
  of `OrderedFeed` or a stutter, under the refinement mapping of the run. `WireInv` is the
  reason: what is between server and client is one run of sequences. Queue, wire and the
  batch being read follow each other without a hole while no row was lost (`RunInv`), and
  whatever is lost or reversed is in the database up to the watermark (`StreamInv`).
* `FramesCorrect` and `TypeCorrect`: `FramesAreARun` and `TypeOK` from the same invariant.

This needs that `LoadAfter` returns the next rows in order, which is lemma `NthIsRank` and
its neighbours: `Ordering` defines the n-th of a set by counting instead of by recursion
so that this can be proved.

About the minimizer, for every finite set of actions, every dependency graph and every
sequence of verdicts (`ActionsAssumption`, `InferredAssumption`; `MinimizerProofs`):

* `TypeCorrect`: `Spec => []TypeOK`, with the lemmas that `Closure` is the least
  closed superset, that removing an action with its dependents keeps a set
  closed, and that the partitions of ddmin are parts of the set in hand.
* `SetIsSufficient`, `MinimalityIsRecorded`, `AblationAgrees`,
  `EvidenceIsNotCancelled`: `CurrentIsSufficient`, `ReportIsMinimal`,
  `NothingRemovable`, `NoCancelledEvidence`. Flaky trials make the obvious
  argument fail: a second trial of the same set may answer otherwise. What saves
  the code is its cache, and `SearchInv` says how: the empty set is on record as
  failed (so no ablation that empties the set can pass), each action already
  tried in a pass is on record as not removable, all actions are once the
  one-by-one reduction ends without a reduction, and a cancelled verdict is on
  record only if the search was cancelled, in which case there is no report.
* `SetShrinks`: `Spec => OnlyShrinks`.
* `LoopsCorrect`: `Spec => []LoopsComputeLeast`, for every graph and every candidate. The
  loops are recursive functions, and the library's induction cannot be used here. That
  such a function exists is shown by a closed form, what is reached from a pair of a closed
  and a pending set (`CloseLoopExists`, `TaintLoopExists`). That every function with that
  equation computes it is shown by a least counterexample: the pair with the least work
  left, on which it did not, would have a successor with less (`CloseLoopComputes`,
  `TaintLoopComputes`). So the loops end, in whatever order they take the actions.

About the two clients, for any number of tasks, approvals, inputs and requests in flight and
any queue (`ServerAssumption`, `ClientAssumption`: at least one task, clients that are
a terminal or a desktop; `ClientViewProofs`):

* `ViewCorrect`: `Spec => []QuietViewIsServer`, and `DialogCorrect`:
  `Spec => []DesktopApprovalShown`. The invariant says nothing of the order in which
  snapshot, reply and event were sent; it says of each, from the moment it is read, what it
  claims of the session at its own place in the stream. `ServerInv` is about the service:
  what happened to a row, an approval or the diagnosis is told by an event that is published
  or still owed, no event tells what did not happen, and the events of a task's life are in
  its order. `ClientInv` is about the client: the view with its last sequence, each queued
  item and each request at the stage it has reached fit what the stream says up to their
  place (`TaskFits`, `DiagnosisFits`, `DialogFits`) and what the rows say now. Every step of
  the service only adds (`Grows`: rows, approvals and diagnosis go forward, events are
  appended), and what fits goes on to fit (`TaskStaysFit` and the lemmas after it); so a
  step of the client has only to be checked against the one thing it takes. At rest nothing
  is owed and the view's last sequence is the end of the stream, where to fit is to be equal.
  TLC checked this invariant and `Grows` on both clients before the proof.
* `TypeCorrect`: `Spec => []TypeOK` of both clients with the service, from the same invariant.

The remaining theorems are about `Workbench`, so that each states the definition that the
run `workbench` checks. Their invariants are in the proof module of the component where
it has one, and in `WorkbenchProofs` otherwise.

* Replay (`ReplayConstants`: journals are finite and numbered, what they name is in the
  sets of names). `RecordingIsSeen`: `Spec => []ReplaySeesTheRecording` for every journal
  and every closed candidate, of any length. The argument is a closed form: the directory,
  the variables and the files after the first n chosen actions are those of the last chosen
  action that sets them (`After`), lemma `AfterOne` shows that one more action changes the
  closed form exactly as `Effect` does, and the edges of `Infer` keep, below each chosen
  action, the last writer that the recording saw. `ReplayInv` says that a trial is always
  at the closed form of what it has replayed. `OutcomeRestsOnEvidence`:
  `Spec => []OutcomeIsEvidence` for any number of repetitions and any answers, timeouts and
  cancels.
* The agent's loop (`AgentAssumption`: steps, context and calls are positive, the budget
  may be nothing, and the session has an action). `RequestsCorrect`: `Spec => []RequestsAreJustified`. `RoundInv` adds what holds
  between the requests: while tools run, the calls still to be made are exactly those
  without an answer, so no message can come between them; whoever goes on is below each
  limit. `DiagnosisCorrect`: `Spec => []DiagnosisIsGrounded`, by `EvidenceInv`: what the
  tools know is saved before they know it.
* The history, for any tasks, requests, shells and lines (`HistoryAssumption`: the sets are
  disjoint), with a failure or a death in any place of any job. `LossesCorrect`:
  `Spec => []LossesAreKnown`. `HistoryInv` says why: one task is active at a
  time (`AloneInv`: it is the one in `session_tasks`), so it has missed no other task's
  save (`MissedInv`); and until it is crowded one recorder is active, whose journal is the
  stored one, so that the next id, the number of its actions plus one, is free.
* `ReadyIsReplayed`: `Spec => []ReadyWasReplayed`. `ReadyInv` follows the claim through every
  job. A worker is only at places of its kind (`Fits`). Who records has a session that is
  recording, so that no recorded action comes after a replay that passed, and who replays
  or reports still has the stored journal (`AtWork`); what an export or a fork holds as
  ready has passed and is ready still, what an import holds passed before it was redacted
  (`AtCopy`, `FileInv`); and a copy under way is a beginning of the journal it is made
  from, with one worker making it (`CopyInv`). All of this is under the condition that
  only analyses undid each other's saves, which leave a session as ready as it was, and no
  shell crowded another (`Clean`), which is why `HistoryInv` comes first. A copy that broke
  off is excepted by `cut`, whatever stopped it.
* The timeline, for any sizes of text, any threshold and any number of items and failures,
  with no assumption on the constants for this. `TimelineCorrect`: `Spec => []TimelineIsWhole`.
  `StreamInv` is over the values of the variables and not over the steps, since one
  observation makes two appends (the text held back, then the event of its own) and each
  of them may fail alone: lemma `Settled` takes the invariant over the first append and
  `PlainKeeps`, `StartKeeps`, `CompleteKeeps` over the second. It says that what is held
  back is the end of what was said of the message (`HeldInv`), that the events of an item
  are told in the order of its text and nothing after its end (`OrderInv`), and, while
  nothing was lost, that what was told and what is held back make up the message
  (`WholeInv`).
* Starting, for any number of servers, commands and starts (`DirectoryAssumption`).
  `StartupCorrect`: `Spec => []StartupIsSafe`. `StartInv` follows the schema (nobody past
  `"connect"` has a newer one, nobody past `"create"` an older one), the backup (while
  starts do not overlap it is whole before the first migration, and partial only while its
  maker copies) and the lock (a server that runs is its holder).
* Configuration, for any actors, keys, values and updates (`ConfigurationAssumption`).
  `RestartCorrect`: `Spec => []RestartReadsSaved`. `ConfigInv` says that what an actor
  answers by is what it read with a beginning of its updates applied, and that this is what
  the file has while nobody else wrote; `AppliedAppend` is the step from one key to the
  next, in closed form (the last update of a key decides).
* Sandbox, for every project of two levels and every edit (`SandboxAssumption`: each entry
  is in the root or in a directory of the root). `EditCorrect`: `Spec => []EditIsRepeated`.
  `EditInv` says which part of the patch is already in the trial's copy.
* The in-process subscription, for any number of events, publishers and lost rows, any lag
  bound and batch (`FeedConstants`: sizes that are positive). `LocalImplementsFeed`:
  `Spec => FeedIsKept`: every step is a step of `OrderedFeed` or a stutter, so what is
  returned is the next event of the log, until a gap is told. `LocalInv` is the types
  (whatever is pending, loaded or sent was appended) and that a reader that has not
  subscribed has been told nothing; the order itself is kept by `Accept`, which takes the
  next event only. `RankExists` shows that the rows a batch takes are there.
* `TypeCorrect`: `Spec => []TypeOK`, of all components at once, from the assumptions of all
  of them (`StreamAssumption`: bounds that are numbers). Most of it is in the invariants
  above. What they leave out has an invariant of its own: `TypesInv` (the ids of a journal
  are 1 to n with n bounded, a job is of a kind its worker has, the lock of a session is a
  task's), `BoundsInv` (items and chunks), `TreesInv` (every tree is one: each entry in the
  root or a directory of it, also the trial's, which `EditInv` shows to consist of the
  project and the worktree) and `RowsInv` (rows of tasks and the writer).

Only model-checked, because fairness and ENABLED are outside the prover's reach: the
liveness properties `SignalStopsSupervisor` and `LockGivenBack` of `task_live`,
`FeedIsServed`, `Terminates` and `WorkEnds`. Every invariant and every action property of a
passing run is a theorem.

## 5. Where code and documentation part

Six runs expect a violation; each checks one statement of the documentation.

* `task_cancelling`. The cancel flow of `docs/ui-v2-implementation-plan.md` ends
  in Cancelled. In the code a cancel may check the row (Running), then let the
  supervisor read the row for the last time, and write Cancelling afterwards: the
  supervisor has reported `TaskCancelled` and ended, later cancels are refused,
  and the index keeps the session blocked until a restart.
* `task_denial`. `docs/u8-hardening.md` says that a denial moves the task to
  Cancelled. The approval is saved, and so visible, before its waiter is
  registered; an answer in between is accepted and wakes nobody.
* `local_race`. `docs/protocol.md` says that there is no race window between
  catch-up and live. Two publishers may send in the reverse order of their
  appends, and an in-process reader then reports a gap though nothing is missing.
  (The server connection reads the hole from the database instead, which
  `wire_feed` shows to be right.)

* `tui_approval`. `docs/protocol.md` says that an approval comes back with the
  session snapshot. In the terminal client `ApprovalRequested` opens the dialog and
  asks for a snapshot; the snapshot closes the dialog and nothing opens it again.
  Before that, its keys do nothing, because the request is not in the old snapshot.
* `tui_late_reply`. `docs/protocol.md` says that the end of a task is final. In the
  terminal client the reply to `task/start` may come after the news of that end and
  is put over it; no snapshot follows, and the ended task stays on the screen as
  queued or running. (The desktop guards against this.)

* `cli_start`. `docs/u8-hardening.md` says that a start interrupts orphaned tasks. Every
  command of the command line but `config` and `demo` starts the service without the
  writer lock: beside a running server it marks that server's task Interrupted, and the
  server's own transition to Completed is then refused.

Seen while modelling, where no document says otherwise:

* A file in whose place an edit puts an empty directory is neither deleted nor reported:
  the replay keeps the file (`Emptied`). A project with a symbolic link can be recorded,
  but no trial of it can restore its modes (`Copy`).
* A configuration file that a full disk or a crash cut short reads as defaults, or keeps
  every later process from starting (`WritePart`).
* A backup that was cut short is kept and never made again (`BeginBackup`).
* An archive saves the record it loaded over what a task saved since, a task the one it
  loaded over an archive; so does the title of a new session (`lost`). A controlled shell
  is not in `session_tasks`: beside a task both number their actions alike. Nor is
  `fixtrace analyze`, another process that saves the whole record: it and a task of a
  server undo each other's saves (`OnlyAnalysesLost`).
* A fork or an import that breaks off between the record and the last action, because a
  save returns an error or the process dies, leaves a copy that looks complete, may be
  analyzed, and in the case of an import cannot be imported again (`cut`).
* When the prompt of an agent turn cannot be published, `start_task` returns an error after
  it has locked the session and queued the row. No supervisor follows: until a restart the
  row is queued and the session refuses every task (`Leaked`).
* A budget of nothing (`max_cost_usd = 0`, which the configuration accepts) is used up
  before the first request, which is made all the same (`RequestsAreJustified`).
* A trial that ends with an error leaves its item open in the timeline (`abandoned`).
* An approval that is saved after its task was cancelled (`Wait`, `CancelTask`, `Request`)
  stays pending for good. The next task may ask beside it: the desktop then shows the newer
  request and, that one resolved, no dialog until the next snapshot.
* Neither a timeout nor a cancel is heard while the output of a shell is read (`HeldOpen`).
  A task whose command hangs there keeps its session locked, cancelled or not; a search or
  an agent whose trial hangs there does not end.
* Where a quick answer has its `ApprovalResolved` published before `ApprovalRequested`, both
  clients show a dialog for the decided request until the next snapshot (`OutOfOrder`).

## 6. Plan

What is left, the most useful first.

1. Rows and their events across a crash: whether a client that recovers by a snapshot can
   be told less than the rows say.
2. `SessionServer` as an abstraction of `TaskSupervisor` where no cancel crosses its
   supervisor. Changing the session in a client: replies of the session that was left.
3. Several sessions and request ids on one connection, unsubscribe, a store error after
   the reply to `event/subscribe`; how the approval gate derives a request.

## 7. Not modelled

Pure output and formatting (presenter, the views), serialisation (the protocol types),
argument parsing, hashes, excluded directories and the lexical resolution of paths, HTTP
to language models, usage and artifact files of the history, the one write of the
token file, and the contents of shell commands: they have no order of steps to get
wrong, or are outside a model's reach. The bounded command queue of the actor is left
out because its senders wait. `PROJECT.json` lists each part with its reason.

## 8. Running it

    tlc -workers 2 -config TaskSupervisor_safety.cfg MCTaskSupervisor.tla
    tlapm TaskSupervisorProofs.tla

Each run of section 3 ends within four minutes on two workers. The proof modules are
checked one by one; `WorkbenchProofs` takes about eight minutes, `ProgressStreamProofs`,
`SessionHistoryProofs` and `ClientViewProofs` two each, the others less.
