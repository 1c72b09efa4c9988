----------------------------- MODULE OrderedFeed -----------------------------
(***************************************************************************)
(* What a subscription to the events of a session promises its reader: it  *)
(* joins at the sequence a snapshot covers, then sees every later event    *)
(* once and in order, until it is told that there is a gap.  Nothing is    *)
(* guessed, repeated, reordered or silently left out.                      *)
(***************************************************************************)
EXTENDS Naturals

CONSTANT MaxEvents

VARIABLES produced,   \* the sequence of the last event of the stream
          joined,     \* the reader has subscribed
          delivered,  \* the sequence of the last event the reader has seen
          told,       \* the reader has been told of a gap
          excuse      \* there is a reason to tell it so

vars == <<produced, joined, delivered, told>>

Init ==
    /\ produced = 0
    /\ joined = FALSE
    /\ delivered = 0
    /\ told = FALSE

Produce ==
    /\ produced < MaxEvents
    /\ produced' = produced + 1
    /\ UNCHANGED <<joined, delivered, told>>

Join ==
    /\ ~joined
    /\ joined' = TRUE
    /\ delivered' \in 0..produced
    /\ UNCHANGED <<produced, told>>

Deliver ==
    /\ joined /\ ~told
    /\ delivered < produced
    /\ delivered' = delivered + 1
    /\ UNCHANGED <<produced, joined, told>>

Tell ==
    /\ joined /\ ~told
    /\ excuse
    /\ told' = TRUE
    /\ UNCHANGED <<produced, joined, delivered>>

Next == Produce \/ Join \/ Deliver \/ Tell

Spec == Init /\ [][Next]_vars

\* No event stays undelivered without a word.
Served ==
    \A n \in 1..MaxEvents : joined /\ produced >= n ~> delivered >= n \/ told
=============================================================================
