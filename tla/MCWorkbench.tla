----------------------------- MODULE MCWorkbench -----------------------------
(***************************************************************************)
(* The values of the constants with which the components are checked.     *)
(***************************************************************************)
EXTENDS Workbench, TLC

-----------------------------------------------------------------------------
(* Replay: four actions, journals in which what a command needs was set,   *)
(* set again and taken back, every closed candidate of each; two that are  *)
(* not closed; one whose commands fork.                                    *)

MCActions == 1..4

I == INSTANCE DependencyInference

Cd(p) == I!ActionRecord("cd", p, "-", {}, {})
Env(v) == I!ActionRecord("env", "K", v, {}, {})
Patch(v) == I!ActionRecord("patch", "f", v, {}, {})
Shell(env, files) == I!ActionRecord("shell", "-", "-", env, files)

Journals == {
    << Cd("a"), Cd(Root), Patch("v1"), Shell({}, {}) >>,
    << Env("v1"), Shell({"K"}, {}), Env(Unset), Shell({"K"}, {}) >>,
    << Patch("v1"), Patch(Unset), Patch("v1"), Shell({}, {"f"}) >>,
    << Cd("a"), Cd("b"), Cd("a"), Shell({"K"}, {}) >>,
    << Cd("a"), Env("v1"), Patch("v1"), Shell({"K"}, {"f"}) >> }

Scattered == << Cd("a"), Cd("b"), Patch("v1"), Shell({}, {"f"}) >>

Forking == << Shell({}, {}), Cd("a"), Env("v1"), Shell({}, {}) >>

MCPlans == {[journal |-> Forking, chosen |-> {1, 2, 4}, forks |-> TRUE]} \cup
         UNION {{[journal |-> j, chosen |-> I!Closure(I!Infer(j), s), forks |-> FALSE] :
                    s \in SUBSET MCActions} : j \in Journals} \cup
         {[journal |-> Scattered, chosen |-> s, forks |-> FALSE] : s \in {{2, 4}, {1, 3, 4}}}

-----------------------------------------------------------------------------
\* A directory and a file in it.
MCParent == ("d" :> "/") @@ ("d/f" :> "d")

MCChanges == {
    << <<"k1", "other">> >>,
    << <<"k2", "other">>, <<"k1", "invalid">> >>,
    << <<"k1", "other">>, <<"k2", "other">> >> }

\* Tasks are alike: the second begins only beside the first.
InOrder == jobs["t2"].pc = "idle" /\ jobs'["t2"].pc # "idle" => jobs["t1"].pc # "idle"

ASSUME ReplayConstants /\ FeedConstants /\ P!StreamAssumption
ASSUME A!AgentAssumption /\ H!HistoryAssumption /\ B!SandboxAssumption
ASSUME D!DirectoryAssumption /\ C!ConfigurationAssumption
=============================================================================
