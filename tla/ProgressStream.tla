---------------------------- MODULE ProgressStream ----------------------------
(***************************************************************************)
(* From the progress of a piece of work to the events of its timeline.     *)
(* The work emits its progress in order, through an observer of its own;   *)
(* the observer holds the text of a message back until there is enough of  *)
(* it, and publishes everything else at once.  A publication that fails is *)
(* only logged.                                                            *)
(***************************************************************************)
EXTENDS Naturals, SequencesExt

CONSTANTS
    Sizes,                             \* the sizes of a chunk of text
    Threshold,                         \* MIN_PERSISTED_AGENT_DELTA_BYTES, in these units
    MaxItems, MaxChunks, MaxEvents,    \* bounds, of the publications
    MaxLost                            \* that fail too

\* The bounds are numbers.
StreamAssumption == {MaxItems, MaxChunks} \subseteq Nat

VARIABLES
    open,       \* the items that are open, the innermost last
    items,      \* how many items have been started
    spoken,     \* the text of the open message
    pending,    \* the observer's delta: its item and its text
    timeline,   \* the published events
    work,       \* whether the work goes on
    dropped,    \* history: how many publications have failed
    abandoned   \* history: the trials that ended with an error

streamVars == <<open, items, spoken, pending, timeline, work, dropped, abandoned>>

Kinds == {"tool", "trial", "message"}
NoDelta == [item |-> 0, text |-> <<>>]

Init ==
    /\ open = <<>> /\ items = 0 /\ spoken = <<>>
    /\ pending = NoDelta
    /\ timeline = <<>>
    /\ work = "running" /\ dropped = 0 /\ abandoned = {}

Event(type, item, text) == [type |-> type, item |-> item, text |-> text]
Started(item) == Event("started", item, <<>>)
Completed(item, text) == Event("completed", item, text)
Notice == Event("notice", 0, <<>>)
DeltaEvent(delta) == Event("delta", delta.item, delta.text)

\* A text is a sequence of chunks, each with its place in the message and its size.
Size(text) == FoldLeft(LAMBDA sum, chunk : sum + chunk[2], 0, text)

\* coalesced_progress_payloads for a delta: what is published, and what is kept.  The
\* delta of another item is published first.
CoalesceDelta(item, chunk) ==
    LET kept == IF pending.item = item THEN pending ELSE [NoDelta EXCEPT !.item = item]
        delta == [kept EXCEPT !.text = Append(@, chunk)]
        previous == IF pending.item \notin {0, item} THEN <<DeltaEvent(pending)>> ELSE <<>>
    IN IF Size(delta.text) >= Threshold
       THEN [payloads |-> Append(previous, DeltaEvent(delta)), pending |-> NoDelta]
       ELSE [payloads |-> previous, pending |-> delta]

\* Mutant of CoalesceOther: the text held back stays where it is.
CoalesceKeeping(payload) == [payloads |-> payload, pending |-> pending]

\* For any other progress, with or without an event of its own: the text comes first.
CoalesceOther(payload) ==
    [payloads |-> (IF pending = NoDelta THEN <<>> ELSE <<DeltaEvent(pending)>>) \o payload,
     pending |-> NoDelta]

\* ProgressSender::emit: the observer publishes what comes out, each event or none.
Observe(coalesced) ==
    /\ pending' = coalesced.pending
    /\ \E lost \in SUBSET (1..Len(coalesced.payloads)) :
        /\ dropped' = dropped + Cardinality(lost) /\ dropped' <= MaxLost
        /\ timeline' = timeline \o
               [n \in 1..(Len(coalesced.payloads) - Cardinality(lost)) |->
                  coalesced.payloads[CHOOSE k \in 1..Len(coalesced.payloads) \ lost :
                                         Cardinality((1..k) \ lost) = n]]

Working == work = "running" /\ Len(timeline) < MaxEvents
Innermost == IF open = <<>> THEN [id |-> 0, kind |-> "none"] ELSE open[Len(open)]

\* A tool call runs trials and says no message; nothing is inside a trial or a message.
MayOpen(kind) ==
    CASE kind = "trial" -> Innermost.kind \in {"none", "tool"}
      [] OTHER          -> open = <<>>

\* progress_event_payload: AgentMessageStarted, ToolCallStarted, TrialStarted.
StartItem ==
    /\ Working /\ items < MaxItems
    /\ \E kind \in Kinds :
        /\ MayOpen(kind)
        /\ open' = Append(open, [id |-> items + 1, kind |-> kind])
    /\ items' = items + 1
    /\ spoken' = <<>>
    /\ Observe(CoalesceOther(<<Started(items + 1)>>))
    /\ UNCHANGED <<work, abandoned>>

\* Every repetition of a trial says that the trial starts.
RepeatTrial ==
    /\ Working /\ Innermost.kind = "trial"
    /\ Observe(CoalesceOther(<<Started(Innermost.id)>>))
    /\ UNCHANGED <<open, items, spoken, work, abandoned>>

\* Notices, usage and budget warnings; SessionCreated has no event.
Note ==
    /\ Working /\ Innermost.kind # "message"
    /\ \E payload \in {<<>>, <<Notice>>} : Observe(CoalesceOther(payload))
    /\ UNCHANGED <<open, items, spoken, work, abandoned>>

\* AgentTextDelta.
Say ==
    /\ Working /\ Innermost.kind = "message" /\ Len(spoken) < MaxChunks
    /\ \E size \in Sizes :
        LET chunk == <<Len(spoken) + 1, size>> IN
        /\ spoken' = Append(spoken, chunk)
        /\ Observe(CoalesceDelta(Innermost.id, chunk))
    /\ UNCHANGED <<open, items, work, abandoned>>

\* AgentMessageCompleted (with the whole text), ToolCallCompleted, TrialCompleted.
CompleteItem ==
    /\ Working /\ open # <<>>
    /\ Observe(CoalesceOther(<<Completed(Innermost.id,
                                        IF Innermost.kind = "message" THEN spoken ELSE <<>>)>>))
    /\ open' = Front(open)
    /\ spoken' = <<>>
    /\ UNCHANGED <<items, work, abandoned>>

\* A trial ends with an error, which the tool call turns into its result.
TrialFails ==
    /\ Working /\ Len(open) = 2
    /\ open' = Front(open)
    /\ abandoned' = abandoned \cup {Innermost.id}
    /\ UNCHANGED <<items, spoken, pending, timeline, work, dropped>>

\* The work ends well, with an error, or with its process.
EndWork ==
    /\ work = "running"
    /\ \/ open = <<>> /\ work' = "done"
       \/ Innermost.kind # "message" /\ work' = "failed"
       \/ work' = "dead"
    /\ UNCHANGED <<open, items, spoken, pending, timeline, dropped, abandoned>>

Next == StartItem \/ RepeatTrial \/ Note \/ Say \/ CompleteItem \/ TrialFails \/ EndWork

Spec == Init /\ [][Next]_streamVars

TypeOK ==
    /\ items \in 0..MaxItems /\ pending.item \in 0..items
    /\ Len(spoken) <= MaxChunks
    /\ work \in {"running", "done", "failed", "dead"}
    /\ \A k \in DOMAIN timeline :
           timeline[k].type \in {"started", "delta", "completed", "notice"}

Of(type, item) == {k \in DOMAIN timeline : timeline[k].type = type /\ timeline[k].item = item}

\* The chunks of an item that a reader has from the first n events.
Heard(item, n) == UNION {ToSet(timeline[k].text) : k \in Of("delta", item) \cap 1..n}

(***************************************************************************)
(* No item is completed twice, and what a reader hears of a message is in  *)
(* order and before its end, whatever is lost.  While every publication    *)
(* succeeds, the timeline is whole: a message is completed once all its    *)
(* text, which its end repeats, has been told; each item's events come     *)
(* after its start; text is held back only right behind its own message;   *)
(* and work that ended without dying leaves nothing untold, and nothing    *)
(* open but what failed (coalesced_progress_payloads,                      *)
(* progress_event_payload, emit).                                          *)
(***************************************************************************)
TimelineIsWhole ==
    /\ \A k \in DOMAIN timeline : timeline[k].type = "completed" =>
           /\ Of("completed", timeline[k].item) = {k}
           /\ Of("delta", timeline[k].item) \subseteq 1..k
    /\ \A item \in 1..items : \A k, l \in Of("delta", item) :
           \A i \in DOMAIN timeline[k].text, j \in DOMAIN timeline[l].text :
               k < l \/ (k = l /\ i < j) => timeline[k].text[i][1] < timeline[l].text[j][1]
    /\ dropped = 0 =>
        /\ \A k \in DOMAIN timeline : timeline[k].type = "completed" =>
               Heard(timeline[k].item, k) = ToSet(timeline[k].text)
        /\ \A k \in DOMAIN timeline : timeline[k].item # 0 =>
               \E s \in Of("started", timeline[k].item) : s <= k
        /\ pending # NoDelta => timeline[Len(timeline)].item = pending.item
        /\ work \in {"done", "failed"} =>
               /\ pending = NoDelta
               /\ \A item \in 1..items \ abandoned :
                      Of("completed", item) # {} \/ \E n \in DOMAIN open : open[n].id = item
================================================================================
