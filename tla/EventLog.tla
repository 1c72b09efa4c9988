------------------------------ MODULE EventLog ------------------------------
(***************************************************************************)
(* The persisted event stream of one session and the live broadcast of the *)
(* App Service.  publish_event appends in one SQLite transaction, which    *)
(* draws the sequence, and only then sends to the broadcast channel: two   *)
(* publishers may send in the other order than they appended.  An event is *)
(* its sequence.                                                           *)
(***************************************************************************)
EXTENDS Ordering, Sequences, SequencesExt

CONSTANTS MaxEvents,   \* bound on the events of the stream
          Publishers,  \* bound on the publishers between append and send
          Buffer,      \* capacity of the broadcast channel (4096)
          Batch,       \* limit of one load_after (10 000)
          MaxLost      \* bound on persisted rows that get lost

ASSUME LogConstants ==
    /\ {MaxEvents, MaxLost} \subseteq Nat
    /\ {Publishers, Buffer, Batch} \subseteq Nat \ {0}

VARIABLES appended,  \* next_sequence - 1, the high watermark
          rows,      \* the sequences present in app_events
          unsent,    \* appended and not yet sent
          sent       \* what was sent to the broadcast channel, in that order

logVars == <<appended, rows, unsent, sent>>

LogInit ==
    /\ appended = 0
    /\ rows = {}
    /\ unsent = {}
    /\ sent = <<>>

\* EventStore::append.
AppendEvent ==
    /\ appended < MaxEvents
    /\ Cardinality(unsent) < Publishers
    /\ appended' = appended + 1
    /\ rows' = rows \cup {appended + 1}
    /\ unsent' = unsent \cup {appended + 1}
    /\ UNCHANGED sent

\* The send that follows it; a channel without receivers takes it too.
Send(n) ==
    /\ n \in unsent
    /\ unsent' = unsent \ {n}
    /\ sent' = Append(sent, n)
    /\ UNCHANGED <<appended, rows>>

\* A row that disappears from the database, which only the tests of the store
\* do: no code deletes events, every reader is written to notice.
LoseRow(n) ==
    /\ n \in rows
    /\ appended - Cardinality(rows) < MaxLost
    /\ rows' = rows \ {n}
    /\ UNCHANGED <<appended, unsent, sent>>

LogNext == AppendEvent \/ \E n \in 1..MaxEvents : Send(n) \/ LoseRow(n)

\* The rows one load_after returns: ORDER BY sequence LIMIT Batch.
LoadAfter(after) ==
    LET found == {n \in rows : n > after}
        size == IF Cardinality(found) < Batch THEN Cardinality(found) ELSE Batch
    IN  [k \in 1..size |-> Nth(found, k)]

\* Its gap, when it read the high watermark `watermark` before those rows: the
\* first row is not the expected one, or there should be one and there is none.
\* A hole between two rows of the batch is not looked for.
IsGap(found, after, watermark) ==
    IF found = <<>> THEN after < watermark ELSE Head(found) # after + 1

\* A broadcast receiver that has taken the first `position` values: whether a
\* value (or the news of a lag) waits for it, whether it fell behind the buffer,
\* and where it goes on then.
HasNext(position) == position < Len(sent)
HasLagged(position) == Len(sent) - position > Buffer
OldestKept == Len(sent) - Buffer
=============================================================================
