----------------------------- MODULE MCMinimizer -----------------------------
(***************************************************************************)
(* Four actions and five of their 64 graphs, as they are inferred from     *)
(* five journals: independent actions, a chain, a fork, a join, a diamond. *)
(***************************************************************************)
EXTENDS Minimizer

MCActions == 1..4

I == INSTANCE DependencyInference WITH
         Root <- "root", Unset <- "unset", Baseline <- {}

Cd(p) == I!ActionRecord("cd", p, "-", {}, {})
Env(key) == I!ActionRecord("env", key, "value", {}, {})
Patch(path) == I!ActionRecord("patch", path, "content", {}, {})
Shell(keys, paths) == I!ActionRecord("shell", "-", "-", keys, paths)

Journals == {
    << Env("K"), Env("L"), Env("M"), Env("N") >>,
    << Cd("a"), Cd("b"), Cd("c"), Shell({}, {}) >>,
    << Cd("a"), Env("K"), Patch("f"), Env("L") >>,
    << Patch("f"), Env("K"), Patch("g"), Shell({}, {"f", "g"}) >>,
    << Cd("a"), Env("K"), Patch("f"), Shell({"K"}, {"f"}) >> }

MCInferred == {I!Infer(journal) : journal \in Journals}

\* The graphs that the journals stand for.
ASSUME MCInferred = {
    << {}, {}, {}, {} >>,
    << {}, {1}, {2}, {3} >>,
    << {}, {1}, {1}, {1} >>,
    << {}, {}, {}, {1, 3} >>,
    << {}, {1}, {1}, {1, 2, 3} >> }
=============================================================================
