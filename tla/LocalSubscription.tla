-------------------------- MODULE LocalSubscription --------------------------
(***************************************************************************)
(* A subscription of an in-process client (the TUI and the desktop shell   *)
(* on the App Service itself): InProcessClient::subscribe and the receive  *)
(* loop of EventSubscription.                                              *)
(***************************************************************************)
EXTENDS EventLog

VARIABLES
    at,        \* "idle", "watermark", "first" and "more" batches, "live"
    position,  \* the broadcast receiver
    target,    \* the watermark catch-up runs to
    loaded,    \* the last sequence catch-up has loaded
    pending,   \* the events it has loaded, not yet received
    gap,       \* initial_gap
    joined,    \* the reader has called subscribe
    read,      \* last_sequence
    told,      \* the reader got an EventGap and stopped
    lagged     \* history: the receiver fell behind the buffer

localVars == <<at, position, target, loaded, pending, gap, joined, read, told, lagged>>

LocalInit ==
    /\ at = "idle"
    /\ position = 0
    /\ target = 0
    /\ loaded = 0
    /\ pending = <<>>
    /\ gap = FALSE
    /\ joined = FALSE
    /\ read = 0
    /\ told = FALSE
    /\ lagged = FALSE

\* subscribe from a snapshot's watermark: the receiver is registered first.
Register(a) ==
    /\ at = "idle"
    /\ a \in 0..appended
    /\ at' = "watermark"
    /\ position' = Len(sent)
    /\ loaded' = a
    /\ read' = a
    /\ joined' = TRUE
    /\ UNCHANGED <<logVars, target, pending, gap, told, lagged>>

\* The first load_after reads the high watermark.
ReadWatermark ==
    /\ at = "watermark"
    /\ at' = "first"
    /\ target' = appended
    /\ UNCHANGED <<logVars, position, loaded, pending, gap, joined, read, told, lagged>>

\* One batch, until the watermark is reached, nothing is left or there is a gap;
\* but after the first batch an empty one ends the loop before its gap is seen.
LoadBatch ==
    LET found == LoadAfter(loaded)
        last == IF found = <<>> THEN loaded ELSE Last(found) IN
    /\ at \in {"first", "more"}
    /\ gap' = ((at = "first" \/ found # <<>>) /\ IsGap(found, loaded, target))
    /\ pending' = pending \o found
    /\ loaded' = last
    /\ at' = IF gap' \/ found = <<>> \/ last >= target THEN "live" ELSE "more"
    /\ UNCHANGED <<logVars, position, target, joined, read, told, lagged>>

\* accept: the next event, or an EventGap, on which the readers stop.
Accept(event) ==
    IF event = read + 1
    THEN read' = event /\ UNCHANGED told
    ELSE told' = TRUE /\ UNCHANGED read

ReceiveGap ==
    /\ at = "live" /\ ~told /\ gap
    /\ gap' = FALSE
    /\ told' = TRUE
    /\ UNCHANGED <<logVars, at, position, target, loaded, pending, joined, read, lagged>>

ReceivePending ==
    /\ at = "live" /\ ~told /\ ~gap
    /\ pending # <<>>
    /\ pending' = Tail(pending)
    /\ Accept(Head(pending))
    /\ UNCHANGED <<logVars, at, position, target, loaded, gap, joined, lagged>>

\* Mutant of ReceiveLive: what is not newer than the last event is not dropped.
ReceiveAnyLive ==
    /\ at = "live" /\ ~told /\ ~gap
    /\ pending = <<>>
    /\ HasNext(position)
    /\ IF HasLagged(position)
       THEN position' = OldestKept /\ lagged' = TRUE /\ told' = TRUE /\ UNCHANGED read
       ELSE /\ position' = position + 1
            /\ read' = sent[position + 1]
            /\ UNCHANGED <<told, lagged>>
    /\ UNCHANGED <<logVars, at, target, loaded, pending, gap, joined>>

\* A live event: a lag is an EventGap, an old event is dropped.
ReceiveLive ==
    /\ at = "live" /\ ~told /\ ~gap
    /\ pending = <<>>
    /\ HasNext(position)
    /\ IF HasLagged(position)
       THEN position' = OldestKept /\ lagged' = TRUE /\ told' = TRUE /\ UNCHANGED read
       ELSE /\ position' = position + 1
            /\ IF sent[position + 1] <= read
               THEN UNCHANGED <<read, told>>
               ELSE Accept(sent[position + 1])
            /\ UNCHANGED lagged
    /\ UNCHANGED <<logVars, at, target, loaded, pending, gap, joined>>

Receive == ReceiveGap \/ ReceivePending \/ ReceiveLive

-----------------------------------------------------------------------------
Init == LogInit /\ LocalInit

Next ==
    \/ LogNext /\ UNCHANGED localVars
    \/ \E a \in 0..MaxEvents : Register(a)
    \/ ReadWatermark \/ LoadBatch \/ Receive

vars == <<logVars, localVars>>

Spec == Init /\ [][Next]_vars

\* A publisher sends what it appended, and subscribe and the reader go on.
Fairness ==
    /\ \A n \in 1..MaxEvents : WF_vars(Send(n) /\ UNCHANGED localVars)
    /\ WF_vars(ReadWatermark) /\ WF_vars(LoadBatch) /\ WF_vars(Receive)

FairSpec == Spec /\ Fairness

-----------------------------------------------------------------------------
(***************************************************************************)
(* Properties                                                              *)
(***************************************************************************)

TypeOK ==
    /\ appended \in 0..MaxEvents
    /\ rows \subseteq 1..appended
    /\ unsent \subseteq 1..appended
    /\ sent \in Seq(1..appended)
    /\ at \in {"idle", "watermark", "first", "more", "live"}
    /\ position \in 0..Len(sent)
    /\ target \in 0..appended
    /\ loaded \in 0..appended
    /\ pending \in Seq(1..appended)
    /\ gap \in BOOLEAN
    /\ joined \in BOOLEAN
    /\ read \in 0..appended
    /\ told \in BOOLEAN
    /\ lagged \in BOOLEAN

\* The reader's view of the stream; an in-process reader may be told of a gap
\* at any time, because of a lag or of the order of the broadcast.
Feed == INSTANCE OrderedFeed WITH
            produced <- appended, delivered <- read, excuse <- TRUE

\* Every event once and in order.
FeedIsOrdered == Feed!Spec

\* Unless a row is lost, the reader has all events again and again, or is told of a
\* gap: registering before reading leaves nothing between catch-up and live.
FeedIsServed == joined ~> read = appended \/ told \/ rows # 1..appended

-----------------------------------------------------------------------------
(***************************************************************************)
(* A claim of the documentation that the code does not keep                *)
(***************************************************************************)

\* Without a lost row or a lag there is no gap to tell: "there is no race window
\* between catch-up and live".
NoRaceGap == told => lagged \/ rows # 1..appended
=============================================================================
