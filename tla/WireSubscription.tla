-------------------------- MODULE WireSubscription --------------------------
(***************************************************************************)
(* A subscription over a transport: the connection task of the server      *)
(* (ConnectionState and serve_connection), the socket, and the client that *)
(* reconnects (reconnecting_subscription) with its queue and its reader.   *)
(***************************************************************************)
EXTENDS EventLog

CONSTANTS Queue,     \* capacity of the queue between client task and reader (256)
          MaxDrops   \* bound on lost connections

ASSUME WireConstants == MaxDrops \in Nat /\ Queue \in Nat \ {0}

VARIABLES
    conn,    \* the connection: where it is, its receiver and its subscription
    wire,    \* the event frames on their way to the client
    after,   \* the sequence the client resubscribes from
    queue,   \* what the client task has handed to the reader
    joined,  \* the reader has called subscribe
    read,    \* last_sequence of the reader's EventSubscription
    told,    \* the reader got an EventGap and stopped
    ended,   \* the client task has ended
    drops    \* connections lost so far

wireVars == <<conn, wire, after, queue, joined, read, told, ended, drops>>

\* An EventGap, as a frame and as an error in the queue.
Gap == 0

\* at: "down", "open" (not subscribed), "reading" (in catch_up), "live".
NoConn == [at |-> "down", position |-> 0, last |-> 0, target |-> 0, gapped |-> FALSE]

WireInit ==
    /\ conn = NoConn
    /\ wire = <<>>
    /\ after = 0
    /\ queue = <<>>
    /\ joined = FALSE
    /\ read = 0
    /\ told = FALSE
    /\ ended = FALSE
    /\ drops = 0

\* The reader subscribes from the watermark of a snapshot it has taken.
Subscribe(a) ==
    /\ ~joined
    /\ a \in 0..appended
    /\ joined' = TRUE
    /\ after' = a
    /\ read' = a
    /\ UNCHANGED <<logVars, conn, wire, queue, told, ended, drops>>

\* A connection registers its broadcast receiver before it reads any request.
Connect ==
    /\ joined /\ ~ended
    /\ conn.at = "down"
    /\ conn' = [NoConn EXCEPT !.at = "open", !.position = Len(sent)]
    /\ UNCHANGED <<logVars, wire, after, queue, joined, read, told, ended, drops>>

\* event/subscribe from `after`: catch_up starts by reading the high watermark.
AcceptSubscribe ==
    /\ conn.at = "open"
    /\ conn' = [conn EXCEPT !.at = "reading", !.last = after, !.target = appended]
    /\ UNCHANGED <<logVars, wire, after, queue, joined, read, told, ended, drops>>

\* One batch of catch_up, until it has reached the watermark it began with.
CatchUp ==
    LET found == LoadAfter(conn.last)
        gap == IsGap(found, conn.last, conn.target)
        last == IF found = <<>> THEN conn.last ELSE Last(found) IN
    /\ conn.at = "reading"
    /\ IF gap
       THEN /\ wire' = Append(wire, Gap)
            /\ conn' = [conn EXCEPT !.at = "live", !.last = conn.target, !.gapped = TRUE]
       ELSE /\ wire' = wire \o found
            /\ conn' = [conn EXCEPT !.last = last,
                            !.at = IF found = <<>> \/ last >= conn.target
                                   THEN "live" ELSE "reading"]
    /\ UNCHANGED <<logVars, after, queue, joined, read, told, ended, drops>>

\* A live event before the subscription is dropped; a lag as well.
IgnoreLive ==
    /\ conn.at = "open"
    /\ HasNext(conn.position)
    /\ conn' = [conn EXCEPT !.position = IF HasLagged(@) THEN OldestKept ELSE @ + 1]
    /\ UNCHANGED <<logVars, wire, after, queue, joined, read, told, ended, drops>>

\* Mutant of OnLiveEvent: an event after a hole is forwarded like the next one.
ForwardAnyLater ==
    /\ conn.at = "live"
    /\ HasNext(conn.position) /\ ~HasLagged(conn.position)
    /\ LET event == sent[conn.position + 1]
           taken == [conn EXCEPT !.position = @ + 1] IN
       IF conn.gapped \/ event <= conn.last
       THEN conn' = taken /\ UNCHANGED wire
       ELSE conn' = [taken EXCEPT !.last = event] /\ wire' = Append(wire, event)
    /\ UNCHANGED <<logVars, after, queue, joined, read, told, ended, drops>>

\* on_live_event: an old event is dropped, the next one forwarded, and a hole
\* is read from the database.
OnLiveEvent ==
    /\ conn.at = "live"
    /\ HasNext(conn.position) /\ ~HasLagged(conn.position)
    /\ LET event == sent[conn.position + 1]
           taken == [conn EXCEPT !.position = @ + 1] IN
       IF conn.gapped \/ event <= conn.last
       THEN conn' = taken /\ UNCHANGED wire
       ELSE IF event = conn.last + 1
            THEN conn' = [taken EXCEPT !.last = event] /\ wire' = Append(wire, event)
            ELSE /\ conn' = [taken EXCEPT !.at = "reading", !.target = appended]
                 /\ UNCHANGED wire
    /\ UNCHANGED <<logVars, after, queue, joined, read, told, ended, drops>>

\* Mutant of RecoverLagged: the receiver goes on with the oldest value it has.
SkipLagged ==
    /\ conn.at = "live"
    /\ HasLagged(conn.position)
    /\ conn' = [conn EXCEPT !.position = Len(sent)]
    /\ UNCHANGED <<logVars, wire, after, queue, joined, read, told, ended, drops>>

\* recover_lagged: the subscription is read from the database, unless gapped.
RecoverLagged ==
    /\ conn.at = "live"
    /\ HasLagged(conn.position)
    /\ conn' = [conn EXCEPT !.position = OldestKept,
                            !.at = IF conn.gapped THEN "live" ELSE "reading",
                            !.target = appended]
    /\ UNCHANGED <<logVars, wire, after, queue, joined, read, told, ended, drops>>

Server == AcceptSubscribe \/ CatchUp \/ IgnoreLive \/ OnLiveEvent \/ RecoverLagged

-----------------------------------------------------------------------------
\* The client task takes a frame: what it has seen is skipped, the next event is
\* queued, and an EventGap or a hole is queued as an error and ends the task.
ClientReceive ==
    /\ conn.at # "down" /\ ~ended
    /\ wire # <<>>
    /\ wire' = Tail(wire)
    /\ LET frame == Head(wire) IN
       IF frame # Gap /\ frame <= after
       THEN UNCHANGED <<after, queue, ended>>
       ELSE /\ Len(queue) < Queue
            /\ IF frame = after + 1
               THEN /\ after' = frame
                    /\ queue' = Append(queue, frame)
                    /\ UNCHANGED ended
               ELSE /\ queue' = Append(queue, Gap)
                    /\ ended' = TRUE
                    /\ UNCHANGED after
    /\ UNCHANGED <<logVars, conn, joined, read, told, drops>>

\* EventSubscription::recv over the queue.
Read ==
    /\ queue # <<>> /\ ~told
    /\ queue' = Tail(queue)
    /\ LET event == Head(queue) IN
       IF event = read + 1
       THEN read' = event /\ UNCHANGED told
       ELSE /\ told' = (event = Gap \/ event > read)
            /\ UNCHANGED read
    /\ UNCHANGED <<logVars, conn, wire, after, joined, ended, drops>>

\* Mutant of Disconnect: the client goes on from the last event that was sent.
ForgetWire ==
    /\ conn.at # "down"
    /\ drops < MaxDrops
    /\ drops' = drops + 1
    /\ conn' = NoConn
    /\ wire' = <<>>
    /\ after' = IF conn.last > after THEN conn.last ELSE after
    /\ UNCHANGED <<logVars, queue, joined, read, told, ended>>

\* The connection breaks: the frames on the wire are gone, and so is all the
\* server knew of the client.
Disconnect ==
    /\ conn.at # "down"
    /\ drops < MaxDrops
    /\ drops' = drops + 1
    /\ conn' = NoConn
    /\ wire' = <<>>
    /\ UNCHANGED <<logVars, after, queue, joined, read, told, ended>>

-----------------------------------------------------------------------------
Init == LogInit /\ WireInit

Next ==
    \/ LogNext /\ UNCHANGED wireVars
    \/ \E a \in 0..MaxEvents : Subscribe(a)
    \/ Connect \/ Server \/ ClientReceive \/ Read \/ Disconnect

vars == <<logVars, wireVars>>

Spec == Init /\ [][Next]_vars

\* A publisher sends what it appended, the client reconnects, and every task
\* goes on.  Nothing makes a publisher append or a reader subscribe.
Fairness ==
    /\ \A n \in 1..MaxEvents : WF_vars(Send(n) /\ UNCHANGED wireVars)
    /\ WF_vars(Connect) /\ WF_vars(Server) /\ WF_vars(ClientReceive) /\ WF_vars(Read)

FairSpec == Spec /\ Fairness

-----------------------------------------------------------------------------
(***************************************************************************)
(* Properties                                                              *)
(***************************************************************************)

TypeOK ==
    /\ appended \in 0..MaxEvents
    /\ rows \subseteq 1..appended
    /\ unsent \subseteq 1..appended
    /\ sent \in Seq(1..appended)
    /\ conn \in [at : {"down", "open", "reading", "live"}, position : Nat,
                 last : Nat, target : Nat, gapped : BOOLEAN]
    /\ wire \in Seq(0..MaxEvents)
    /\ after \in 0..MaxEvents
    /\ queue \in Seq(0..MaxEvents)
    /\ joined \in BOOLEAN
    /\ read \in 0..MaxEvents
    /\ told \in BOOLEAN
    /\ ended \in BOOLEAN
    /\ drops \in 0..MaxDrops

\* While no row is lost, the frames a connection has in flight are the run of
\* events from the one the client expects to the last one the server has sent,
\* whatever order the broadcast has, however far the receiver lagged, and
\* wherever an earlier connection broke.
FramesAreARun ==
    rows = 1..appended /\ conn.at \in {"reading", "live"} =>
        /\ ~conn.gapped /\ ~ended
        /\ after + Len(wire) = conn.last
        /\ \A i \in 1..Len(wire) : wire[i] = after + i

\* The reader's view of the stream.
Feed == INSTANCE OrderedFeed WITH
            produced <- appended, delivered <- read,
            excuse <- (rows # 1..appended)

\* Every event once and in order, and a gap is told only if a row is lost.
FeedIsOrdered == Feed!Spec

\* Every event arrives, or the reader is told of a gap.
FeedIsServed == Feed!Served
=============================================================================
