---------------------------- MODULE MCClientView ----------------------------
(***************************************************************************)
(* The clients that TLC checks, with their bounds.  Two tasks let          *)
(* something about the first meet the second; three inputs are two starts  *)
(* and an answer or a cancel, or one start and two of these.               *)
(***************************************************************************)
EXTENDS ClientView, TLC

MCClients == {[kind |-> "tui",     tasks |-> 2, inputs |-> 2],
              [kind |-> "desktop", tasks |-> 2, inputs |-> 3]}

MCTui == {[kind |-> "tui", tasks |-> 1, inputs |-> 2]}

Symmetry == Permutations(Slots)
=============================================================================
