------------------------------ MODULE Workbench -------------------------------
(***************************************************************************)
(* The components that share no state with the task system, each checked   *)
(* on an instance of its own: "part", chosen at first, is the one that     *)
(* takes steps; the others stay in an initial state.                       *)
(***************************************************************************)
EXTENDS Integers, FiniteSets, Sequences

CONSTANTS
    Actions, Root, Unset, Baseline, Plans, Repetitions,             \* of Replay
    MaxSteps, ContextLimit, Budget, MaxCalls, MaxTrials,            \* of AgentLoop
    SessionActions, OtherActions,
    Tasks, Requests, Shells, Lines, Secret,                         \* of SessionHistory
    MaxActions, MaxJobs, MaxActive,
    Paths, Parent, RootPath, Contents,                              \* of Sandbox
    Servers, Clis, MaxProcesses,                                    \* of StateDirectory
    Actors, Keys, Values, Default, Invalid, Changes,                \* of Configuration
    MaxLaunches, MaxUpdates,
    Sizes, Threshold, MaxItems, MaxChunks, MaxPublished, MaxFailed, \* of ProgressStream
    MaxEvents, Publishers, Buffer, Batch, MaxLost                   \* of LocalSubscription

VARIABLES
    part,
    plan, token, stage, position, context, attempts, shell, descendant, outcome,
    mode, step, halted, size, unanswered, tangled, spent, failures, calls, steering, steers,
    known, evidence, diagnosis, verdict,
    stored, journal, baseline, init, passed, reported, file, holder, jobs, begun, lost, cut,
    crowded, phase, project, base, worktree, patch, sandbox,
    database, backup, writer, procs, tasks, starts, disturbed, harmed,
    config, actors, overlaid, asked, before, foreign, torn, launches, updates,
    open, items, spoken, delta, timeline, work, dropped, abandoned,
    appended, rows, unsent, sent,
    at, receiver, target, loaded, pending, gap, joined, read, told, lagged

replay == <<plan, token, stage, position, context, attempts, shell, descendant, outcome>>
agent == <<mode, step, halted, size, unanswered, tangled, spent, failures, calls, steering,
           steers, known, evidence, diagnosis, verdict>>
history == <<stored, journal, baseline, init, passed, reported, file, holder, jobs, begun,
             lost, cut, crowded>>
trees == <<phase, project, base, worktree, patch, sandbox>>
directory == <<database, backup, writer, procs, tasks, starts, disturbed, harmed>>
settings == <<config, actors, overlaid, asked, before, foreign, torn, launches, updates>>
stream == <<open, items, spoken, delta, timeline, work, dropped, abandoned>>
reader == <<at, receiver, target, loaded, pending, gap, joined, read, told, lagged>>
feed == <<appended, rows, unsent, sent, reader>>

vars == <<part, replay, agent, history, trees, directory, settings, stream, feed>>

-----------------------------------------------------------------------------
R == INSTANCE ReplayProofs
A == INSTANCE AgentLoop WITH saved <- evidence
H == INSTANCE SessionHistoryProofs
B == INSTANCE Sandbox
D == INSTANCE StateDirectory WITH MaxStarts <- MaxProcesses, rows <- tasks
C == INSTANCE Configuration WITH MaxStarts <- MaxLaunches, saved <- config, starts <- launches
P == INSTANCE ProgressStreamProofs WITH
         MaxEvents <- MaxPublished, MaxLost <- MaxFailed, pending <- delta
L == INSTANCE LocalSubscription WITH position <- receiver

FeedConstants == {MaxEvents, MaxLost} \subseteq Nat
                 /\ {Publishers, Buffer, Batch} \subseteq Nat \ {0}

ReplayConstants == R!ReplayAssumption /\ Actions \subseteq Nat /\ IsFiniteSet(Actions)

-----------------------------------------------------------------------------
Parts == {"replay", "agent", "history", "trees", "directory", "settings", "stream", "feed"}

\* The others stay as they are.
Only(p) ==
    /\ UNCHANGED part
    /\ IF p = "replay"    THEN TRUE ELSE UNCHANGED replay
    /\ IF p = "agent"     THEN TRUE ELSE UNCHANGED agent
    /\ IF p = "history"   THEN TRUE ELSE UNCHANGED history
    /\ IF p = "trees"     THEN TRUE ELSE UNCHANGED trees
    /\ IF p = "directory" THEN TRUE ELSE UNCHANGED directory
    /\ IF p = "settings"  THEN TRUE ELSE UNCHANGED settings
    /\ IF p = "stream"    THEN TRUE ELSE UNCHANGED stream
    /\ IF p = "feed"      THEN TRUE ELSE UNCHANGED feed

\* One initial state of each component that has several.
Plain(p) ==
    /\ p # "replay"    => plan.forks
    /\ p # "agent"     => steering = "none"
    /\ p # "trees"     => DOMAIN project = {}
    /\ p # "directory" => ~database.exists

Init ==
    /\ part \in Parts
    /\ R!Init /\ A!Init /\ H!Init /\ B!Init /\ D!Init /\ C!Init /\ P!Init /\ L!Init
    /\ Plain(part)

Next ==
    \/ part = "replay"    /\ R!Next /\ Only("replay")
    \/ part = "agent"     /\ A!Next /\ Only("agent")
    \/ part = "history"   /\ H!Next /\ Only("history")
    \/ part = "trees"     /\ B!Next /\ Only("trees")
    \/ part = "directory" /\ D!Next /\ Only("directory")
    \/ part = "settings"  /\ C!Next /\ Only("settings")
    \/ part = "stream"    /\ P!Next /\ Only("stream")
    \/ part = "feed"      /\ L!Next /\ Only("feed")

Spec == Init /\ [][Next]_vars

\* The fairness each component states of itself, while it is the one that moves.
Fairness ==
    /\ WF_vars(part = "replay" /\ R!Runner /\ Only("replay"))
    /\ WF_vars(part = "replay" /\ R!Terminate /\ Only("replay"))
    /\ WF_vars(part = "agent" /\ A!Loop /\ Only("agent"))
    /\ \A n \in 1..MaxEvents : WF_vars(part = "feed" /\ L!Send(n) /\ UNCHANGED reader /\ Only("feed"))
    /\ WF_vars(part = "feed" /\ L!ReadWatermark /\ Only("feed"))
    /\ WF_vars(part = "feed" /\ L!LoadBatch /\ Only("feed"))
    /\ WF_vars(part = "feed" /\ L!Receive /\ Only("feed"))

FairSpec == Spec /\ Fairness

-----------------------------------------------------------------------------
(* The properties are those of the components, which say more of each.     *)

\* The shape of each component's state.
TypeOK ==
    /\ part \in Parts
    /\ part = "replay"    => R!TypeOK
    /\ part = "agent"     => A!TypeOK
    /\ part = "history"   => H!TypeOK
    /\ part = "trees"     => B!TypeOK
    /\ part = "directory" => D!TypeOK
    /\ part = "settings"  => C!TypeOK
    /\ part = "stream"    => P!TypeOK
    /\ part = "feed"      => L!TypeOK

\* A closed candidate replays what was recorded (DependencyGraph::infer, replay_action).
ReplaySeesTheRecording == part = "replay" => R!ReplaySeesTheRecording

\* An outcome rests on every repetition (TrialRunner::run, classify_outcome).
OutcomeIsEvidence == part = "replay" => R!OutcomeIsEvidence

\* A model is asked within budget, the first time aside if that is nothing, and with an
\* answer to each of its calls (run_agent).
RequestsAreJustified == part = "agent" => A!RequestsAreJustified

\* A diagnosis cites what is saved (validate_diagnosis).
DiagnosisIsGrounded == part = "agent" => A!DiagnosisIsGrounded

\* What can be analyzed was replayed as it stands (repl::run_line, analyze_session).
ReadyWasReplayed == part = "history" => H!ReadyWasReplayed

\* Tasks do not undo each other's saves (session_tasks, save_session).
LossesAreKnown == part = "history" => H!LossesAreKnown

\* A trial repeats a recorded edit (replacements_between, apply_file_replacement).
EditIsRepeated == part = "trees" => B!EditIsRepeated

\* A start migrates, backs up and takes no task from a server (migrate, start).
StartupIsSafe == part = "directory" => D!StartupIsSafe

\* The actor's configuration is the file's (SetConfig).
RestartReadsSaved == part = "settings" => C!RestartReadsSaved

\* Events tell all of a piece of work, in order (coalesced_progress_payloads).
TimelineIsWhole == part = "stream" => P!TimelineIsWhole

\* A cancelled trial ends unless something holds it (terminate_child), and so does the
\* agent's loop unless it is steered for ever or a trial of it never returns (run_agent); a
\* reader in the process gets all events or hears of a gap (EventSubscription).
WorkEnds ==
    /\ part = "replay" => R!CancelledTrialEnds
    /\ part = "agent"  => A!AgentEnds
    /\ part = "feed"   => L!FeedIsServed

\* An in-process subscription is an ordered feed (InProcessClient::subscribe,
\* EventSubscription::recv).
FeedIsKept == L!FeedIsOrdered
=============================================================================
